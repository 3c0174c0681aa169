---------------------------- MODULE AccessProofs ----------------------------
(***************************************************************************)
(* Theorems about Access for any number of sessions, ids and ticks.        *)
(***************************************************************************)
EXTENDS Access, FiniteSetTheorems, TLAPS

-----------------------------------------------------------------------------
(* What the helpers return.                                                *)

\* expire() keeps well-typed records well typed.
LEMMA ExpireType ==
  ASSUME TypeOK
  PROVE  Expire(requests) \in [ReqIds -> Request \cup {None}]
<1> SUFFICES ASSUME NEW id \in ReqIds
             PROVE  Expire(requests)[id] \in Request \cup {None}
  BY DEF Expire
<1>1. CASE IsPending(requests, id) /\ requests[id].expiresAt <= now
  <2>1. requests[id] \in Request
    BY <1>1 DEF TypeOK, IsPending
  <2>2. Expire(requests)[id] = [requests[id] EXCEPT !.status = "expired"]
    BY <1>1 DEF Expire
  <2>3. QED
    BY <2>1, <2>2 DEF Request, RequestRecord, Status
<1>2. CASE ~(IsPending(requests, id) /\ requests[id].expiresAt <= now)
  BY <1>2 DEF Expire, TypeOK
<1>3. QED
  BY <1>1, <1>2

\* Candidates built by the three Create*Request methods are well-typed requests.
LEMMA NewRequestType ==
  ASSUME TypeOK, NEW kind \in Kind, NEW s \in Sessions, NEW e \in Envs,
         NEW x \in Secrets \cup {None}, NEW cs \in SUBSET Commands, NEW ttl \in Nat
  PROVE  (kind = "secret" <=> x # None) => NewRequest(kind, s, e, x, cs, ttl) \in Request
BY DurationAssumption DEF NewRequest, Request, RequestRecord, Status, TypeOK

LEMMA CandidateType ==
  ASSUME TypeOK, NEW s \in Sessions, NEW e \in Envs, NEW cs \in SUBSET Commands
  PROVE  /\ \A x \in Secrets : SecretCandidate(s, e, x, cs) \in Request
         /\ \A ttl \in Nat : LeaseCandidate(s, e, cs, ttl) \in Request
         /\ \A ttl \in Nat : WorkspaceCandidate(s, e, ttl) \in Request
<1>1. \A x \in Secrets : SecretCandidate(s, e, x, cs) \in Request
  BY NewRequestType, NoneAssumption DEF SecretCandidate, Kind
<1>2. ASSUME NEW ttl \in Nat PROVE LeaseCandidate(s, e, cs, ttl) \in Request
  <2> DEFINE d == IF ttl = 0 THEN DefaultLeaseTTL
                  ELSE IF ttl > MaxLeaseTTL THEN MaxLeaseTTL ELSE ttl
  <2>1. d \in Nat
    BY DurationAssumption
  <2> HIDE DEF d
  <2>2. NewRequest("lease", s, e, None, cs, d) \in Request
    BY <2>1, NewRequestType DEF Kind
  <2>3. QED
    BY <2>2 DEF LeaseCandidate, d
<1>3. ASSUME NEW ttl \in Nat PROVE WorkspaceCandidate(s, e, ttl) \in Request
  <2> DEFINE d == IF ttl = 0 THEN DefaultWorkspaceTTL ELSE ttl
  <2>1. d \in Nat
    BY DurationAssumption
  <2> HIDE DEF d
  <2>2. NewRequest("workspace", s, e, None, {}, d) \in Request
    BY <2>1, NewRequestType DEF Kind
  <2>3. QED
    BY <2>2 DEF WorkspaceCandidate, d
<1>4. QED
  BY <1>1, <1>2, <1>3

\* The lifetime of an approved capability is a duration.
LEMMA ApprovedTTLType ==
  ASSUME NEW typed \in TTLs, NEW asked \in Nat
  PROVE  /\ ApprovedTTL(typed, asked, DefaultLeaseTTL) \in Nat
         /\ ApprovedTTL(typed, asked, DefaultWorkspaceTTL) \in Nat
BY DurationAssumption DEF ApprovedTTL

\* createRequest() stores a well-typed list.
LEMMA CreateRequestType ==
  ASSUME TypeOK, NEW candidate \in Request, NEW id \in ReqIds,
         CreateRequest(candidate, id)
  PROVE  TypeOK'
<1>1. requests' \in [ReqIds -> Request \cup {None}]
  BY ExpireType DEF CreateRequest
<1>2. QED
  BY <1>1 DEF CreateRequest, TypeOK

\* resolveRequest() stores a well-typed list.
LEMMA ResolveType ==
  ASSUME TypeOK, NEW id \in ReqIds, LivePending(id), NEW st \in Status,
         NEW res \in LeaseIds \cup GrantIds \cup {None}, Resolve(id, st, res)
  PROVE  /\ requests' \in [ReqIds -> Request \cup {None}]
         /\ requests'[id] = [requests[id] EXCEPT !.status = st, !.result = res]
         /\ requests[id] \in Request
         /\ \A j \in ReqIds : j # id => requests'[j] = Expire(requests)[j]
<1>1. requests[id] \in Request
  BY DEF TypeOK, LivePending, IsPending
<1>2. Expire(requests)[id] = requests[id]
  BY <1>1 DEF Expire, LivePending, TypeOK, Request, RequestRecord
<1>3. Expire(requests) \in [ReqIds -> Request \cup {None}]
  BY ExpireType
<1> DEFINE new == [requests[id] EXCEPT !.status = st, !.result = res]
<1>4. requests' = [Expire(requests) EXCEPT ![id] = new]
  <2>1. requests' = [Expire(requests) EXCEPT ![id] =
                       [[Expire(requests)[id] EXCEPT !.status = st] EXCEPT !.result = res]]
    BY <1>3 DEF Resolve
  <2>2. QED
    BY <2>1, <1>2, <1>1 DEF Request, RequestRecord
<1>5. new \in Request
  BY <1>1 DEF Request, RequestRecord
<1>6. QED
  BY <1>1, <1>3, <1>4, <1>5

-----------------------------------------------------------------------------
(* Type correctness.                                                       *)

\* A request as the Create*Request methods build it at this moment.
Fresh(r) ==
  /\ r \in Request
  /\ r.status = "pending" /\ r.result = None
  /\ r.createdAt = now /\ r.expiresAt = now + RequestTTL

\* Whatever a component that uses the access manager does to it in one step: an operation
\* with arguments of its own, or a value stored or removed without one.
AccessStep ==
  \/ Tick \/ HumanNext
  \/ \E r \in Request, id \in ReqIds : Fresh(r) /\ CreateRequest(r, id)
  \/ \E l \in LeaseIds, s \in Sessions : Revoke(l, s)
  \/ UNCHANGED <<now, requests, leases, grants>> /\ vault' \subseteq Envs \X Secrets

\* What the candidates have in common.
LEMMA CandidateFresh ==
  ASSUME TypeOK, NEW s \in Sessions, NEW e \in Envs, NEW cs \in SUBSET Commands
  PROVE  /\ \A x \in Secrets : Fresh(SecretCandidate(s, e, x, cs))
         /\ \A ttl \in Nat : Fresh(LeaseCandidate(s, e, cs, ttl))
         /\ \A ttl \in Nat : Fresh(WorkspaceCandidate(s, e, ttl))
BY CandidateType DEF Fresh, SecretCandidate, LeaseCandidate, WorkspaceCandidate, NewRequest

\* Every step of the access manager on its own is one of these.
LEMMA NextIsAccessStep == TypeOK /\ [Next]_vars => AccessStep
<1> SUFFICES ASSUME TypeOK, [Next]_vars PROVE AccessStep
  OBVIOUS
<1>1. ASSUME NEW s \in Sessions, NEW e \in Envs, NEW id \in ReqIds, NEW x \in Secrets,
             NEW cs \in SUBSET Commands, CreateSecretRequest(s, e, x, cs, id)
      PROVE  AccessStep
  <2>1. Fresh(SecretCandidate(s, e, x, cs)) /\ SecretCandidate(s, e, x, cs) \in Request
    BY CandidateFresh DEF Fresh
  <2>2. QED
    BY <1>1, <2>1 DEF CreateSecretRequest, AccessStep
<1>2. ASSUME NEW s \in Sessions, NEW e \in Envs, NEW id \in ReqIds,
             NEW cs \in SUBSET Commands, NEW ttl \in TTLs,
             CreateLeaseRequest(s, e, cs, ttl, id)
      PROVE  AccessStep
  <2>1. ttl \in Nat
    BY DurationAssumption
  <2>2. Fresh(LeaseCandidate(s, e, cs, ttl))
    BY <2>1, CandidateFresh
  <2>3. LeaseCandidate(s, e, cs, ttl) \in Request
    BY <2>2 DEF Fresh
  <2>4. QED
    BY <1>2, <2>2, <2>3 DEF CreateLeaseRequest, AccessStep
<1>3. ASSUME NEW s \in Sessions, NEW e \in Envs, NEW id \in ReqIds, NEW ttl \in TTLs,
             CreateWorkspaceRequest(s, e, ttl, id)
      PROVE  AccessStep
  <2>1. ttl \in Nat
    BY DurationAssumption
  <2>2. Fresh(WorkspaceCandidate(s, e, ttl))
    BY <2>1, CandidateFresh
  <2>3. WorkspaceCandidate(s, e, ttl) \in Request
    BY <2>2 DEF Fresh
  <2>4. QED
    BY <1>3, <2>2, <2>3 DEF CreateWorkspaceRequest, AccessStep
<1>4. CASE UNCHANGED vars
  BY <1>4 DEF vars, TypeOK, AccessStep
<1>5. QED
  BY <1>1, <1>2, <1>3, <1>4 DEF Next, AgentNext, AccessStep, SecretContexts

LEMMA StepTypes == TypeOK /\ AccessStep => TypeOK'
<1> SUFFICES ASSUME TypeOK, AccessStep PROVE TypeOK'
  OBVIOUS
<1>1. CASE Tick
  BY <1>1 DEF Tick, TypeOK
<1>2. ASSUME NEW r \in Request, NEW id \in ReqIds, CreateRequest(r, id)
      PROVE  TypeOK'
  BY <1>2, CreateRequestType
<1>3. CASE UNCHANGED <<now, requests, leases, grants>> /\ vault' \subseteq Envs \X Secrets
  BY <1>3 DEF TypeOK
<1>5. ASSUME NEW l \in LeaseIds, NEW owner, Revoke(l, owner)
      PROVE  TypeOK'
  <2>1. leases[l] \in Lease
    BY <1>5 DEF TypeOK, Revoke
  <2>2. [leases[l] EXCEPT !.revokedAt = now] \in Lease
    BY <2>1 DEF Lease, TypeOK
  <2>3. leases' \in [LeaseIds -> Lease \cup {None}]
    BY <1>5, <2>2 DEF TypeOK, Revoke
  <2>4. QED
    BY <1>5, <2>3 DEF TypeOK, Revoke
<1>6. CASE ListRequests
  BY <1>6, ExpireType DEF ListRequests, TypeOK
<1>7. ASSUME NEW id \in ReqIds, FulfillSecretWith(id) \/ FulfillInterrupted(id)
      PROVE  TypeOK'
  <2>1. LivePending(id) /\ requests[id] \in Request /\ requests[id].kind = "secret"
    BY <1>7 DEF TypeOK, FulfillSecretWith, FulfillInterrupted, Resolvable, LivePending, IsPending
  <2>2. <<requests[id].env, requests[id].secret>> \in Envs \X Secrets
    BY <2>1 DEF Request, RequestRecord
  <2>3. vault' \subseteq Envs \X Secrets
    BY <1>7, <2>2 DEF TypeOK, FulfillSecretWith, FulfillInterrupted
  <2>4. requests' \in [ReqIds -> Request \cup {None}]
    <3>1. CASE FulfillSecretWith(id)
      <4>1. Resolve(id, "fulfilled", None)
        BY <3>1 DEF FulfillSecretWith
      <4>2. QED
        BY <2>1, <4>1, ResolveType DEF Status
    <3>2. CASE FulfillInterrupted(id)
      BY <3>2 DEF FulfillInterrupted, TypeOK
    <3>3. QED
      BY <1>7, <3>1, <3>2
  <2>5. QED
    BY <1>7, <2>3, <2>4 DEF TypeOK, FulfillSecretWith, FulfillInterrupted
<1>8. ASSUME NEW id \in ReqIds, NEW ttl \in TTLs, ApproveLease(id, ttl)
      PROVE  TypeOK'
  <2>1. PICK l \in LeaseIds : ApproveLeaseAs(id, ttl, l)
    BY <1>8 DEF ApproveLease
  <2>2. LivePending(id) /\ requests[id] \in Request
    BY <2>1 DEF TypeOK, ApproveLeaseAs, Resolvable, LivePending, IsPending
  <2>3. Resolve(id, "approved", l)
    BY <2>1 DEF ApproveLeaseAs
  <2>4. requests' \in [ReqIds -> Request \cup {None}]
    BY <2>2, <2>3, ResolveType DEF Status
  <2>5. LeaseOf(id, ttl) \in Lease
    BY <2>2, ApprovedTTLType DEF LeaseOf, Lease, Request, RequestRecord, TypeOK
  <2>6. leases' \in [LeaseIds -> Lease \cup {None}]
    BY <2>1, <2>5 DEF TypeOK, ApproveLeaseAs
  <2>7. QED
    BY <2>1, <2>4, <2>6 DEF TypeOK, ApproveLeaseAs
<1>9. ASSUME NEW id \in ReqIds, NEW ttl \in TTLs, ApproveWorkspace(id, ttl)
      PROVE  TypeOK'
  <2>1. PICK g \in GrantIds : ApproveWorkspaceAs(id, ttl, g)
    BY <1>9 DEF ApproveWorkspace
  <2>2. LivePending(id) /\ requests[id] \in Request
    BY <2>1 DEF TypeOK, ApproveWorkspaceAs, Resolvable, LivePending, IsPending
  <2>3. Resolve(id, "approved", g)
    BY <2>1 DEF ApproveWorkspaceAs
  <2>4. requests' \in [ReqIds -> Request \cup {None}]
    BY <2>2, <2>3, ResolveType DEF Status
  <2>5. GrantOf(id, ttl) \in WorkspaceGrant
    BY <2>2, ApprovedTTLType DEF GrantOf, WorkspaceGrant, Request, RequestRecord, TypeOK
  <2>6. grants' \in [GrantIds -> WorkspaceGrant \cup {None}]
    BY <2>1, <2>5 DEF TypeOK, ApproveWorkspaceAs
  <2>7. QED
    BY <2>1, <2>4, <2>6 DEF TypeOK, ApproveWorkspaceAs
<1>10. ASSUME NEW id \in ReqIds, Deny(id)
       PROVE  TypeOK'
  <2>1. LivePending(id) /\ Resolve(id, "denied", None)
    BY <1>10 DEF Deny, Resolvable
  <2>2. requests' \in [ReqIds -> Request \cup {None}]
    BY <2>1, ResolveType DEF Status
  <2>3. QED
    BY <1>10, <2>2 DEF TypeOK, Deny
<1>11. ASSUME NEW g \in GrantIds, NEW paused \in BOOLEAN, PauseWorkspace(g, paused)
       PROVE  TypeOK'
  BY <1>11 DEF TypeOK, PauseWorkspace, WorkspaceGrant
<1>12. ASSUME NEW g \in GrantIds, NEW ttl \in TTLs, ExtendWorkspace(g, ttl)
       PROVE  TypeOK'
  BY <1>12, DurationAssumption DEF TypeOK, ExtendWorkspace, WorkspaceGrant
<1>13. ASSUME NEW g \in GrantIds, RevokeWorkspace(g)
       PROVE  TypeOK'
  BY <1>13 DEF TypeOK, RevokeWorkspace, WorkspaceGrant
<1>14. QED
  BY <1>1, <1>2, <1>3, <1>5, <1>6, <1>7, <1>8, <1>9, <1>10, <1>11, <1>12, <1>13
  DEF AccessStep, HumanNext

LEMMA TypeStep == TypeOK /\ [Next]_vars => TypeOK'
BY StepTypes, NextIsAccessStep

\* Spec => []TypeOK: access.json, the clock and the vault index stay well typed.
THEOREM TypeCorrect == Spec => []TypeOK
<1>1. Init => TypeOK
  BY DEF Init, TypeOK
<1>2. QED
  BY <1>1, TypeStep, PTL DEF Spec

-----------------------------------------------------------------------------
(* What one step can do to a stored request, lease or grant.               *)

\* What was asked for, by whom and until when.
SameScope(r, t) ==
  /\ t.kind = r.kind /\ t.session = r.session /\ t.env = r.env /\ t.secret = r.secret
  /\ t.commands = r.commands /\ t.ttl = r.ttl
  /\ t.createdAt = r.createdAt /\ t.expiresAt = r.expiresAt

\* t is what a later version of the file may hold where it held r.
MayBecome(r, t) ==
  /\ t # None
  /\ SameScope(r, t)
  /\ r.status \in Terminal => t = r

RequestsKept ==
  \A id \in ReqIds : requests[id] # None => MayBecome(requests[id], requests'[id])

\* The sweep keeps what was asked for and touches pending requests only.
LEMMA ExpireKeeps ==
  ASSUME TypeOK, NEW id \in ReqIds, requests[id] # None
  PROVE  MayBecome(requests[id], Expire(requests)[id])
<1>1. requests[id] \in Request /\ Expire(requests)[id] \in Request \cup {None}
  BY ExpireType DEF TypeOK
<1>2. CASE IsPending(requests, id) /\ requests[id].expiresAt <= now
  <2>1. Expire(requests)[id] = [requests[id] EXCEPT !.status = "expired"]
    BY <1>2 DEF Expire
  <2>2. [requests[id] EXCEPT !.status = "expired"] \in Request
    BY <1>1 DEF Request, RequestRecord, Status
  <2>3. QED
    BY <1>1, <1>2, <2>1, <2>2, NoneAssumption
    DEF MayBecome, SameScope, Request, RequestRecord, IsPending, Terminal
<1>3. CASE ~(IsPending(requests, id) /\ requests[id].expiresAt <= now)
  BY <1>3 DEF Expire, MayBecome, SameScope
<1>4. QED
  BY <1>2, <1>3

LEMMA CreateKeeps ==
  ASSUME TypeOK, NEW candidate, NEW id \in ReqIds, CreateRequest(candidate, id)
  PROVE  RequestsKept
<1> SUFFICES ASSUME NEW j \in ReqIds, requests[j] # None
             PROVE  requests'[j] = Expire(requests)[j]
  BY ExpireKeeps DEF RequestsKept
<1>1. Expire(requests) \in [ReqIds -> Request \cup {None}]
  BY ExpireType
<1>2. QED
  BY <1>1 DEF CreateRequest

LEMMA ResolveKeeps ==
  ASSUME TypeOK, NEW id \in ReqIds, LivePending(id), NEW st \in Status,
         NEW res \in LeaseIds \cup GrantIds \cup {None}, Resolve(id, st, res)
  PROVE  RequestsKept
<1>1. SUFFICES ASSUME NEW j \in ReqIds, requests[j] # None
               PROVE  MayBecome(requests[j], requests'[j])
  BY DEF RequestsKept
<1>2. CASE j # id
  BY <1>1, <1>2, ResolveType, ExpireKeeps
<1>3. CASE j = id
  <2>1. /\ requests[id] \in Request
        /\ requests'[id] = [requests[id] EXCEPT !.status = st, !.result = res]
    BY ResolveType, ZenonT(60)
  <2>2. requests'[id] \in Request
    BY <2>1 DEF Request, RequestRecord
  <2>3. QED
    BY <1>3, <2>1, <2>2, NoneAssumption
    DEF MayBecome, SameScope, Request, RequestRecord, LivePending, IsPending, Terminal
<1>4. QED
  BY <1>2, <1>3

\* No step loses a request, rewrites what was asked for, or touches a resolved one.
LEMMA StepKeepsRequests == TypeOK /\ AccessStep => RequestsKept
<1> SUFFICES ASSUME TypeOK, AccessStep PROVE RequestsKept
  OBVIOUS
<1>1. CASE UNCHANGED requests
  BY <1>1 DEF RequestsKept, MayBecome, SameScope
<1>2. ASSUME NEW r, NEW id \in ReqIds, CreateRequest(r, id)
      PROVE  RequestsKept
  BY <1>2, CreateKeeps
<1>3. CASE ListRequests
  BY <1>3, ExpireKeeps DEF ListRequests, RequestsKept
<1>4. ASSUME NEW id \in ReqIds, FulfillSecretWith(id)
      PROVE  RequestsKept
  BY <1>4, ResolveKeeps DEF FulfillSecretWith, Resolvable, Status
<1>5. ASSUME NEW id \in ReqIds, NEW ttl \in TTLs, NEW l \in LeaseIds,
             ApproveLeaseAs(id, ttl, l)
      PROVE  RequestsKept
  BY <1>5, ResolveKeeps DEF ApproveLeaseAs, Resolvable, Status
<1>6. ASSUME NEW id \in ReqIds, NEW ttl \in TTLs, NEW g \in GrantIds,
             ApproveWorkspaceAs(id, ttl, g)
      PROVE  RequestsKept
  BY <1>6, ResolveKeeps DEF ApproveWorkspaceAs, Resolvable, Status
<1>7. ASSUME NEW id \in ReqIds, Deny(id)
      PROVE  RequestsKept
  BY <1>7, ResolveKeeps DEF Deny, Resolvable, Status
<1>8. CASE HumanNext
  <2>1. CASE \E l \in LeaseIds : Revoke(l, None)
    BY <1>1, <2>1 DEF Revoke
  <2>2. CASE \E g \in GrantIds, paused \in BOOLEAN : PauseWorkspace(g, paused)
    BY <1>1, <2>2 DEF PauseWorkspace
  <2>3. CASE \E g \in GrantIds, ttl \in TTLs : ExtendWorkspace(g, ttl)
    BY <1>1, <2>3 DEF ExtendWorkspace
  <2>4. CASE \E g \in GrantIds : RevokeWorkspace(g)
    BY <1>1, <2>4 DEF RevokeWorkspace
  <2>5. CASE \E id \in ReqIds : FulfillInterrupted(id)
    BY <1>1, <2>5 DEF FulfillInterrupted
  <2>6. QED
    BY <1>3, <1>4, <1>5, <1>6, <1>7, <1>8, <2>1, <2>2, <2>3, <2>4, <2>5
    DEF HumanNext, ApproveLease, ApproveWorkspace
<1>9. CASE Tick \/ \E l \in LeaseIds, s \in Sessions : Revoke(l, s)
  BY <1>1, <1>9 DEF Tick, Revoke
<1>10. QED
  BY <1>1, <1>2, <1>8, <1>9 DEF AccessStep

LEMMA RequestStep == TypeOK /\ [Next]_vars => RequestsKept
BY StepKeepsRequests, NextIsAccessStep

\* A stored lease is left alone or, if nobody had, revoked.
LeaseKept(l) ==
  \/ leases'[l] = leases[l]
  \/ /\ leases[l] # None
     /\ leases[l].revokedAt = None
     /\ leases'[l] = [leases[l] EXCEPT !.revokedAt = now]

LeasesKept ==
  \A l \in LeaseIds :
    LeaseKept(l) \/ \E id \in ReqIds, ttl \in TTLs : ApproveLeaseAs(id, ttl, l)

\* A lease that was not there before is the one ApproveLease appended.
LEMMA StepKeepsLeases == TypeOK /\ AccessStep => LeasesKept
<1> SUFFICES ASSUME TypeOK, AccessStep PROVE LeasesKept
  OBVIOUS
<1>1. CASE UNCHANGED leases
  BY <1>1 DEF LeasesKept, LeaseKept
<1>2. ASSUME NEW k \in LeaseIds, NEW owner, Revoke(k, owner)
      PROVE  LeasesKept
  BY <1>2 DEF Revoke, LeasesKept, LeaseKept, TypeOK
<1>3. ASSUME NEW id \in ReqIds, NEW ttl \in TTLs, NEW k \in LeaseIds,
             ApproveLeaseAs(id, ttl, k)
      PROVE  LeasesKept
  <2>1. \A l \in LeaseIds : l # k => leases'[l] = leases[l]
    BY <1>3 DEF ApproveLeaseAs, TypeOK
  <2>2. QED
    BY <1>3, <2>1 DEF LeasesKept, LeaseKept
<1>4. QED
  <2>1. CASE UNCHANGED leases \/ Tick \/ ListRequests
    BY <1>1, <2>1 DEF Tick, ListRequests
  <2>2. ASSUME NEW r, NEW id \in ReqIds, CreateRequest(r, id)
        PROVE  LeasesKept
    BY <1>1, <2>2 DEF CreateRequest
  <2>3. CASE HumanNext
    <3>1. ASSUME NEW id \in ReqIds, FulfillSecretWith(id) \/ FulfillInterrupted(id) \/ Deny(id)
          PROVE  LeasesKept
      BY <1>1, <3>1 DEF FulfillSecretWith, FulfillInterrupted, Deny
    <3>2. ASSUME NEW id \in ReqIds, NEW ttl \in TTLs, ApproveWorkspace(id, ttl)
          PROVE  LeasesKept
      BY <1>1, <3>2 DEF ApproveWorkspace, ApproveWorkspaceAs
    <3>3. ASSUME NEW g \in GrantIds, NEW paused, NEW ttl,
                 PauseWorkspace(g, paused) \/ ExtendWorkspace(g, ttl) \/ RevokeWorkspace(g)
          PROVE  LeasesKept
      BY <1>1, <3>3 DEF PauseWorkspace, ExtendWorkspace, RevokeWorkspace
    <3>4. QED
      BY <1>2, <1>3, <2>1, <2>3, <3>1, <3>2, <3>3 DEF HumanNext, ApproveLease
  <2>4. QED
    BY <1>2, <2>1, <2>2, <2>3 DEF AccessStep

\* A stored grant is left alone or, while unrevoked, paused, resumed, extended
\* or revoked; whom it serves, and from which request, stays.
GrantKept(g) ==
  \/ grants'[g] = grants[g]
  \/ /\ grants[g] # None
     /\ grants[g].revokedAt = None
     /\ grants'[g] # None
     /\ grants'[g].request = grants[g].request
     /\ grants'[g].session = grants[g].session
     /\ grants'[g].env = grants[g].env
     /\ grants'[g].createdAt = grants[g].createdAt
     /\ grants'[g].revokedAt \in {None, now}
     /\ \/ grants'[g].expiresAt = grants[g].expiresAt
        \/ grants'[g].expiresAt \in now .. now + MaxLeaseTTL

GrantsKept ==
  \A g \in GrantIds :
    GrantKept(g) \/ \E id \in ReqIds, ttl \in TTLs : ApproveWorkspaceAs(id, ttl, g)

\* A grant that was not there before is the one ApproveWorkspace appended.
LEMMA StepKeepsGrants == TypeOK /\ AccessStep => GrantsKept
<1> SUFFICES ASSUME TypeOK, AccessStep PROVE GrantsKept
  OBVIOUS
<1>1. CASE UNCHANGED grants
  BY <1>1 DEF GrantsKept, GrantKept
<1>2. ASSUME NEW h \in GrantIds, grants[h] # None, grants[h].revokedAt = None,
             NEW g \in WorkspaceGrant, grants' = [grants EXCEPT ![h] = g],
             g.request = grants[h].request, g.session = grants[h].session,
             g.env = grants[h].env, g.createdAt = grants[h].createdAt,
             g.revokedAt \in {None, now},
             g.expiresAt = grants[h].expiresAt \/ g.expiresAt \in now .. now + MaxLeaseTTL
      PROVE  GrantsKept
  BY <1>2, NoneAssumption DEF GrantsKept, GrantKept, TypeOK
<1>3. ASSUME NEW h \in GrantIds, NEW paused \in BOOLEAN, PauseWorkspace(h, paused)
      PROVE  GrantsKept
  <2>1. [grants[h] EXCEPT !.paused = paused] \in WorkspaceGrant
    BY <1>3 DEF TypeOK, PauseWorkspace, WorkspaceGrant
  <2>2. QED
    BY <1>2, <1>3, <2>1 DEF PauseWorkspace, TypeOK, WorkspaceGrant
<1>4. ASSUME NEW h \in GrantIds, NEW ttl \in TTLs, ExtendWorkspace(h, ttl)
      PROVE  GrantsKept
  <2>1. [grants[h] EXCEPT !.expiresAt = now + ttl] \in WorkspaceGrant
    BY <1>4, DurationAssumption DEF TypeOK, ExtendWorkspace, WorkspaceGrant
  <2>2. now + ttl \in now .. now + MaxLeaseTTL
    BY <1>4, DurationAssumption DEF TypeOK, ExtendWorkspace
  <2>3. QED
    BY <1>2, <1>4, <2>1, <2>2 DEF ExtendWorkspace, TypeOK, WorkspaceGrant
<1>5. ASSUME NEW h \in GrantIds, RevokeWorkspace(h)
      PROVE  GrantsKept
  <2>1. [grants[h] EXCEPT !.revokedAt = now] \in WorkspaceGrant
    BY <1>5 DEF TypeOK, RevokeWorkspace, WorkspaceGrant
  <2>2. QED
    BY <1>2, <1>5, <2>1 DEF RevokeWorkspace, TypeOK, WorkspaceGrant
<1>6. ASSUME NEW id \in ReqIds, NEW ttl \in TTLs, NEW h \in GrantIds,
             ApproveWorkspaceAs(id, ttl, h)
      PROVE  GrantsKept
  <2>1. \A g \in GrantIds : g # h => grants'[g] = grants[g]
    BY <1>6 DEF ApproveWorkspaceAs, TypeOK
  <2>2. QED
    BY <1>6, <2>1 DEF GrantsKept, GrantKept
<1>7. QED
  <2>1. CASE UNCHANGED grants \/ Tick \/ ListRequests
    BY <1>1, <2>1 DEF Tick, ListRequests
  <2>2. ASSUME NEW l \in LeaseIds, NEW owner, Revoke(l, owner)
        PROVE  GrantsKept
    BY <1>1, <2>2 DEF Revoke
  <2>3. ASSUME NEW r, NEW id \in ReqIds, CreateRequest(r, id)
        PROVE  GrantsKept
    BY <1>1, <2>3 DEF CreateRequest
  <2>4. CASE HumanNext
    <3>1. ASSUME NEW id \in ReqIds, FulfillSecretWith(id) \/ FulfillInterrupted(id) \/ Deny(id)
          PROVE  GrantsKept
      BY <1>1, <3>1 DEF FulfillSecretWith, FulfillInterrupted, Deny
    <3>2. ASSUME NEW id \in ReqIds, NEW ttl \in TTLs, ApproveLease(id, ttl)
          PROVE  GrantsKept
      BY <1>1, <3>2 DEF ApproveLease, ApproveLeaseAs
    <3>3. QED
      BY <1>3, <1>4, <1>5, <1>6, <2>1, <2>2, <2>4, <3>1, <3>2
      DEF HumanNext, ApproveWorkspace
  <2>5. QED
    BY <2>1, <2>2, <2>3, <2>4 DEF AccessStep

\* The clock never runs backwards.
LEMMA StepClock == TypeOK /\ AccessStep => now <= now'
<1> SUFFICES ASSUME TypeOK, AccessStep PROVE now' = now \/ now' = now + 1
  BY DEF TypeOK
<1>1. CASE UNCHANGED now \/ Tick
  BY <1>1 DEF Tick
<1>2. CASE \/ \E r \in Request, id \in ReqIds : CreateRequest(r, id)
           \/ \E l \in LeaseIds, s \in Sessions : Revoke(l, s)
  BY <1>2 DEF CreateRequest, Revoke
<1>3. CASE HumanNext
  BY <1>3 DEF HumanNext, ListRequests, FulfillSecretWith, FulfillInterrupted, ApproveLease,
              ApproveLeaseAs, ApproveWorkspace, ApproveWorkspaceAs, Deny, Revoke,
              PauseWorkspace, ExtendWorkspace, RevokeWorkspace
<1>4. QED
  BY <1>1, <1>2, <1>3 DEF AccessStep

-----------------------------------------------------------------------------
(* What createRequest adds.                                                *)

\* Request id is new: createRequest has appended it as it was built, found no duplicate
\* and was below the cap, and swept all others.
Asked(id) ==
  /\ now' = now
  /\ Fresh(requests'[id])
  /\ ~HasDuplicate(requests'[id])
  /\ ~AtPendingCap(requests'[id].session)
  /\ \A j \in ReqIds : j # id => requests'[j] = Expire(requests)[j]

\* Requests enter the file through createRequest only.
LEMMA StepAsks ==
  ASSUME TypeOK, AccessStep, NEW id \in ReqIds, requests[id] = None, requests'[id] # None
  PROVE  Asked(id)
<1>1. Expire(requests)[id] = None
  BY DEF Expire, IsPending
<1>2. Expire(requests) \in [ReqIds -> Request \cup {None}]
  BY ExpireType
<1>3. ASSUME NEW j \in ReqIds, NEW st \in Status, NEW res \in LeaseIds \cup GrantIds \cup {None},
             LivePending(j), Resolve(j, st, res)
      PROVE  FALSE
  <2>1. j # id
    BY <1>3 DEF LivePending, IsPending
  <2>2. QED
    BY <1>1, <1>3, <2>1, ResolveType
<1>4. ASSUME NEW r \in Request, NEW j \in ReqIds, Fresh(r), CreateRequest(r, j)
      PROVE  Asked(id)
  <2>1. requests' # Expire(requests)
    BY <1>1
  <2>2. /\ ~HasDuplicate(r) /\ ~AtPendingCap(r.session) /\ now' = now
        /\ requests' = [Expire(requests) EXCEPT ![j] = r]
    BY <1>4, <2>1 DEF CreateRequest
  <2>3. j = id
    BY <1>1, <1>2, <2>2
  <2>4. requests'[id] = r /\ \A i \in ReqIds : i # id => requests'[i] = Expire(requests)[i]
    BY <1>2, <2>2, <2>3
  <2>5. QED
    BY <1>4, <2>2, <2>4 DEF Asked
<1>5. CASE HumanNext
  <2>1. ASSUME NEW j \in ReqIds, FulfillSecretWith(j) PROVE FALSE
    BY <1>3, <2>1 DEF FulfillSecretWith, Resolvable, Status
  <2>2. ASSUME NEW j \in ReqIds, Deny(j) PROVE FALSE
    BY <1>3, <2>2 DEF Deny, Resolvable, Status
  <2>3. ASSUME NEW j \in ReqIds, NEW ttl, NEW l \in LeaseIds, ApproveLeaseAs(j, ttl, l)
        PROVE  FALSE
    BY <1>3, <2>3 DEF ApproveLeaseAs, Resolvable, Status
  <2>4. ASSUME NEW j \in ReqIds, NEW ttl, NEW g \in GrantIds, ApproveWorkspaceAs(j, ttl, g)
        PROVE  FALSE
    BY <1>3, <2>4 DEF ApproveWorkspaceAs, Resolvable, Status
  <2>5. requests' # requests /\ ~ListRequests
    BY <1>1 DEF ListRequests
  <2>6. QED
    BY <1>5, <2>1, <2>2, <2>3, <2>4, <2>5
    DEF HumanNext, FulfillInterrupted, ApproveLease, ApproveWorkspace, Revoke,
        PauseWorkspace, ExtendWorkspace, RevokeWorkspace
<1>6. QED
  BY <1>4, <1>5 DEF AccessStep, Tick, Revoke

-----------------------------------------------------------------------------
(* Action properties.                                                      *)

\* What ResolutionIsFinal and RevocationIsFinal say of one step.
ResolvedStays ==
  \A id \in ReqIds : requests[id] # None =>
    /\ requests'[id] # None
    /\ requests[id].status \in Terminal => requests'[id] = requests[id]
    /\ \A f \in {"kind", "session", "env", "secret", "commands", "ttl", "expiresAt"} :
         requests'[id][f] = requests[id][f]

RevokedStays ==
  /\ \A l \in LeaseIds : leases[l] # None /\ leases[l].revokedAt # None =>
       leases'[l] = leases[l]
  /\ \A g \in GrantIds : grants[g] # None /\ grants[g].revokedAt # None =>
       grants'[g] = grants[g]

\* One step keeps what was decided.
LEMMA DecisionStep == TypeOK /\ AccessStep => ResolvedStays /\ RevokedStays
<1> SUFFICES ASSUME TypeOK, RequestsKept, LeasesKept, GrantsKept
             PROVE  ResolvedStays /\ RevokedStays
  BY StepKeepsRequests, StepKeepsLeases, StepKeepsGrants
<1>1. ResolvedStays
  BY DEF ResolvedStays, RequestsKept, MayBecome, SameScope
<1>2. ASSUME NEW l \in LeaseIds, leases[l] # None, leases[l].revokedAt # None
      PROVE  leases'[l] = leases[l]
  BY <1>2 DEF LeasesKept, LeaseKept, ApproveLeaseAs
<1>3. ASSUME NEW g \in GrantIds, grants[g] # None, grants[g].revokedAt # None
      PROVE  grants'[g] = grants[g]
  BY <1>3 DEF GrantsKept, GrantKept, ApproveWorkspaceAs
<1>4. QED
  BY <1>1, <1>2, <1>3 DEF RevokedStays

\* A resolved or expired request is never touched again and a pending one keeps
\* what was asked for, whatever the agents and the human do (access.go expire,
\* resolveRequest).
THEOREM ResolutionFinal == Spec => ResolutionIsFinal
<1>1. TypeOK /\ [Next]_vars => [ResolvedStays]_vars
  BY DecisionStep, NextIsAccessStep
<1>2. QED
  BY <1>1, TypeCorrect, PTL DEF Spec, ResolutionIsFinal, ResolvedStays

\* Revocation is final for leases and for workspace grants (access.go Revoke,
\* PauseWorkspace, ExtendWorkspace, RevokeWorkspace).
THEOREM RevocationFinal == Spec => RevocationIsFinal
<1>1. TypeOK /\ [Next]_vars => [RevokedStays]_vars
  BY DecisionStep, NextIsAccessStep
<1>2. QED
  BY <1>1, TypeCorrect, PTL DEF Spec, RevocationIsFinal, RevokedStays

-----------------------------------------------------------------------------
(* Provenance of capabilities.                                             *)

\* What the approval of a live lease request leaves behind.
LEMMA ApproveLeaseEffect ==
  ASSUME TypeOK, NEW id \in ReqIds, NEW ttl \in TTLs, NEW l \in LeaseIds,
         ApproveLeaseAs(id, ttl, l)
  PROVE  /\ now' = now
         /\ requests[id] \in Request
         /\ IsPending(requests, id) /\ now < requests[id].expiresAt
         /\ requests[id].kind = "lease"
         /\ requests'[id].status = "approved" /\ requests'[id].result = l
         /\ leases'[l].request = id
         /\ leases'[l].session = requests[id].session
         /\ leases'[l].env = requests[id].env
         /\ leases'[l].commands = requests[id].commands
         /\ leases'[l].createdAt = now
         /\ leases'[l].expiresAt \in now .. now + MaxLeaseTTL
<1>1. LivePending(id) /\ requests[id].kind = "lease" /\ Resolve(id, "approved", l)
  BY DEF ApproveLeaseAs, Resolvable
<1>2. /\ requests[id] \in Request
      /\ requests'[id] = [requests[id] EXCEPT !.status = "approved", !.result = l]
  BY <1>1, ResolveType, ZenonT(60) DEF Status
<1>3. LeaseOf(id, ttl).expiresAt \in now .. now + MaxLeaseTTL
  <2>1. requests[id].ttl \in Nat
    BY <1>2 DEF Request, RequestRecord
  <2>2. ApprovedTTL(ttl, requests[id].ttl, DefaultLeaseTTL) \in 0 .. MaxLeaseTTL
    BY <2>1, ApprovedTTLType, DurationAssumption DEF ApproveLeaseAs
  <2>3. QED
    BY <2>2, DurationAssumption DEF LeaseOf, TypeOK
<1>4. leases'[l] = LeaseOf(id, ttl)
  BY DEF ApproveLeaseAs, TypeOK
<1>5. requests'[id].status = "approved" /\ requests'[id].result = l
  BY <1>2 DEF Request, RequestRecord
<1>6. QED
  BY <1>1, <1>2, <1>3, <1>4, <1>5 DEF ApproveLeaseAs, LeaseOf, LivePending

LEMMA ApproveWorkspaceEffect ==
  ASSUME TypeOK, NEW id \in ReqIds, NEW ttl \in TTLs, NEW g \in GrantIds,
         ApproveWorkspaceAs(id, ttl, g)
  PROVE  /\ now' = now
         /\ requests[id] \in Request
         /\ IsPending(requests, id) /\ now < requests[id].expiresAt
         /\ requests[id].kind = "workspace"
         /\ requests'[id].status = "approved" /\ requests'[id].result = g
         /\ grants'[g].request = id
         /\ grants'[g].session = requests[id].session
         /\ grants'[g].env = requests[id].env
         /\ grants'[g].createdAt = now
         /\ grants'[g].expiresAt \in now .. now + MaxLeaseTTL
<1>1. LivePending(id) /\ requests[id].kind = "workspace" /\ Resolve(id, "approved", g)
  BY DEF ApproveWorkspaceAs, Resolvable
<1>2. /\ requests[id] \in Request
      /\ requests'[id] = [requests[id] EXCEPT !.status = "approved", !.result = g]
  BY <1>1, ResolveType, ZenonT(60) DEF Status
<1>3. GrantOf(id, ttl).expiresAt \in now .. now + MaxLeaseTTL
  <2>1. requests[id].ttl \in Nat
    BY <1>2 DEF Request, RequestRecord
  <2>2. ApprovedTTL(ttl, requests[id].ttl, DefaultWorkspaceTTL) \in 0 .. MaxLeaseTTL
    BY <2>1, ApprovedTTLType, DurationAssumption DEF ApproveWorkspaceAs
  <2>3. QED
    BY <2>2, DurationAssumption DEF GrantOf, TypeOK
<1>4. grants'[g] = GrantOf(id, ttl)
  BY DEF ApproveWorkspaceAs, TypeOK
<1>5. requests'[id].status = "approved" /\ requests'[id].result = g
  BY <1>2 DEF Request, RequestRecord
<1>6. QED
  BY <1>1, <1>2, <1>3, <1>4, <1>5 DEF ApproveWorkspaceAs, GrantOf, LivePending

\* A stored request keeps its creation time and a new one is stamped with now.
LEMMA AgeStep == TypeOK /\ RequestsAreOld /\ AccessStep => RequestsAreOld'
<1> SUFFICES ASSUME TypeOK, RequestsAreOld, AccessStep,
                    NEW id \in ReqIds, requests'[id] # None
             PROVE  requests'[id].createdAt <= now'
  BY DEF RequestsAreOld
<1>1. now \in Nat /\ now' \in Nat /\ now <= now'
  BY StepTypes, StepClock DEF TypeOK
<1>2. CASE requests[id] # None
  <2>1. requests'[id].createdAt = requests[id].createdAt
    BY <1>2, StepKeepsRequests DEF RequestsKept, MayBecome, SameScope
  <2>2. requests[id].createdAt \in Nat /\ requests[id].createdAt <= now
    BY <1>2 DEF RequestsAreOld, TypeOK, Request, RequestRecord
  <2>3. QED
    BY <1>1, <2>1, <2>2
<1>3. CASE requests[id] = None
  BY <1>1, <1>3, StepAsks DEF Asked, Fresh
<1>4. QED
  BY <1>2, <1>3

LEMMA LeaseProvenanceStep ==
  TypeOK /\ RequestsAreOld /\ LeaseProvenance /\ AccessStep => LeaseProvenance'
<1> SUFFICES ASSUME TypeOK, RequestsAreOld, LeaseProvenance, AccessStep,
                    NEW l \in LeaseIds, leases'[l] # None
             PROVE  LET r == requests'[leases'[l].request]
                    IN /\ r # None
                       /\ r.kind = "lease" /\ r.status = "approved" /\ r.result = l
                       /\ r.session = leases'[l].session
                       /\ r.env = leases'[l].env
                       /\ r.commands = leases'[l].commands
                       /\ leases'[l].createdAt \in r.createdAt .. r.expiresAt - 1
  BY DEF LeaseProvenance
<1>1. CASE LeaseKept(l)
  <2> DEFINE id == leases[l].request
  <2>1. leases[l] # None /\ leases[l] \in Lease
    BY <1>1 DEF LeaseKept, TypeOK
  <2>2. /\ leases'[l].request = id
        /\ leases'[l].session = leases[l].session
        /\ leases'[l].env = leases[l].env
        /\ leases'[l].commands = leases[l].commands
        /\ leases'[l].createdAt = leases[l].createdAt
    BY <1>1, <2>1 DEF LeaseKept, Lease
  <2>3. id \in ReqIds /\ requests[id] # None /\ requests[id].status \in Terminal
    BY <2>1 DEF LeaseProvenance, Lease, Terminal, Status
  <2>4. requests'[id] = requests[id]
    BY <2>3, StepKeepsRequests DEF RequestsKept, MayBecome
  <2>5. QED
    BY <2>1, <2>2, <2>4 DEF LeaseProvenance
<1>2. ASSUME NEW id \in ReqIds, NEW ttl \in TTLs, ApproveLeaseAs(id, ttl, l)
      PROVE  LET r == requests'[leases'[l].request]
             IN /\ r # None
                /\ r.kind = "lease" /\ r.status = "approved" /\ r.result = l
                /\ r.session = leases'[l].session
                /\ r.env = leases'[l].env
                /\ r.commands = leases'[l].commands
                /\ leases'[l].createdAt \in r.createdAt .. r.expiresAt - 1
  <2>1. requests[id] \in Request /\ requests[id] # None
    BY <1>2, ApproveLeaseEffect DEF IsPending
  <2>2. requests'[id] # None /\ SameScope(requests[id], requests'[id])
    BY <2>1, StepKeepsRequests DEF RequestsKept, MayBecome
  <2>3. now \in requests[id].createdAt .. requests[id].expiresAt - 1
    <3>1. requests[id].createdAt <= now /\ now \in Nat /\ now < requests[id].expiresAt
      BY <1>2, <2>1, ApproveLeaseEffect DEF RequestsAreOld, TypeOK
    <3>2. QED
      BY <2>1, <3>1 DEF Request, RequestRecord
  <2>4. QED
    BY <1>2, <2>2, <2>3, ApproveLeaseEffect DEF SameScope
<1>3. QED
  BY <1>1, <1>2, StepKeepsLeases DEF LeasesKept

LEMMA GrantProvenanceStep ==
  TypeOK /\ RequestsAreOld /\ GrantProvenance /\ AccessStep => GrantProvenance'
<1> SUFFICES ASSUME TypeOK, RequestsAreOld, GrantProvenance, AccessStep,
                    NEW g \in GrantIds, grants'[g] # None
             PROVE  LET r == requests'[grants'[g].request]
                    IN /\ r # None
                       /\ r.kind = "workspace" /\ r.status = "approved" /\ r.result = g
                       /\ r.session = grants'[g].session
                       /\ r.env = grants'[g].env
                       /\ grants'[g].createdAt \in r.createdAt .. r.expiresAt - 1
  BY DEF GrantProvenance
<1>1. CASE GrantKept(g)
  <2> DEFINE id == grants[g].request
  <2>1. grants[g] # None /\ grants[g] \in WorkspaceGrant
    BY <1>1 DEF GrantKept, TypeOK
  <2>2. /\ grants'[g].request = id
        /\ grants'[g].session = grants[g].session
        /\ grants'[g].env = grants[g].env
        /\ grants'[g].createdAt = grants[g].createdAt
    BY <1>1 DEF GrantKept
  <2>3. id \in ReqIds /\ requests[id] # None /\ requests[id].status \in Terminal
    BY <2>1 DEF GrantProvenance, WorkspaceGrant, Terminal, Status
  <2>4. requests'[id] = requests[id]
    BY <2>3, StepKeepsRequests DEF RequestsKept, MayBecome
  <2>5. QED
    BY <2>1, <2>2, <2>4 DEF GrantProvenance
<1>2. ASSUME NEW id \in ReqIds, NEW ttl \in TTLs, ApproveWorkspaceAs(id, ttl, g)
      PROVE  LET r == requests'[grants'[g].request]
             IN /\ r # None
                /\ r.kind = "workspace" /\ r.status = "approved" /\ r.result = g
                /\ r.session = grants'[g].session
                /\ r.env = grants'[g].env
                /\ grants'[g].createdAt \in r.createdAt .. r.expiresAt - 1
  <2>1. requests[id] \in Request /\ requests[id] # None
    BY <1>2, ApproveWorkspaceEffect DEF IsPending
  <2>2. requests'[id] # None /\ SameScope(requests[id], requests'[id])
    BY <2>1, StepKeepsRequests DEF RequestsKept, MayBecome
  <2>3. now \in requests[id].createdAt .. requests[id].expiresAt - 1
    <3>1. requests[id].createdAt <= now /\ now \in Nat /\ now < requests[id].expiresAt
      BY <1>2, <2>1, ApproveWorkspaceEffect DEF RequestsAreOld, TypeOK
    <3>2. QED
      BY <2>1, <3>1 DEF Request, RequestRecord
  <2>4. QED
    BY <1>2, <2>2, <2>3, ApproveWorkspaceEffect DEF SameScope
<1>3. QED
  BY <1>1, <1>2, StepKeepsGrants DEF GrantsKept

\* A request that is approved was so before, or has just been approved by a human.
ApprovedByHuman ==
  \A id \in ReqIds : requests'[id] # None /\ requests'[id].status = "approved" =>
    \/ requests[id] # None /\ requests[id].status = "approved"
    \/ \E ttl \in TTLs, l \in LeaseIds : ApproveLeaseAs(id, ttl, l)
    \/ \E ttl \in TTLs, g \in GrantIds : ApproveWorkspaceAs(id, ttl, g)

\* The sweep approves nothing.
LEMMA ExpireApproves ==
  ASSUME TypeOK, NEW id \in ReqIds, Expire(requests)[id] # None,
         Expire(requests)[id].status = "approved"
  PROVE  requests[id] # None /\ requests[id].status = "approved"
<1>1. CASE IsPending(requests, id) /\ requests[id].expiresAt <= now
  <2>1. Expire(requests)[id].status = "expired"
    BY <1>1 DEF Expire, TypeOK, IsPending, Request, RequestRecord
  <2>2. QED
    BY <2>1
<1>2. CASE ~(IsPending(requests, id) /\ requests[id].expiresAt <= now)
  BY <1>2 DEF Expire
<1>3. QED
  BY <1>1, <1>2

\* Nobody but a human approves a request.
LEMMA ApprovalStep == TypeOK /\ AccessStep => ApprovedByHuman
<1> SUFFICES ASSUME TypeOK, AccessStep PROVE ApprovedByHuman
  OBVIOUS
<1>1. CASE UNCHANGED requests
  BY <1>1 DEF ApprovedByHuman
<1>2. ASSUME NEW candidate, candidate.status = "pending", NEW id \in ReqIds,
             CreateRequest(candidate, id)
      PROVE  ApprovedByHuman
  <2>1. /\ Expire(requests) \in [ReqIds -> Request \cup {None}]
        /\ \/ requests' = Expire(requests)
           \/ requests' = [Expire(requests) EXCEPT ![id] = candidate]
    BY <1>2, ExpireType DEF CreateRequest
  <2>2. QED
    BY <1>2, <2>1, ExpireApproves DEF ApprovedByHuman
<1>3. CASE ListRequests
  BY <1>3, ExpireApproves DEF ListRequests, ApprovedByHuman
<1>4. ASSUME NEW id \in ReqIds, LivePending(id), NEW st \in Status \ {"approved"},
             Resolve(id, st, None)
      PROVE  ApprovedByHuman
  <2>1. /\ requests'[id] = [requests[id] EXCEPT !.status = st, !.result = None]
        /\ requests[id] \in Request
        /\ \A j \in ReqIds : j # id => requests'[j] = Expire(requests)[j]
    BY <1>4, ResolveType, ZenonT(60)
  <2>2. requests'[id].status # "approved"
    BY <2>1 DEF Request, RequestRecord
  <2>3. QED
    BY <2>1, <2>2, ExpireApproves DEF ApprovedByHuman
<1>5. ASSUME NEW id \in ReqIds, NEW ttl \in TTLs, NEW l \in LeaseIds, ApproveLeaseAs(id, ttl, l)
      PROVE  ApprovedByHuman
  <2>1. \A j \in ReqIds : j # id => requests'[j] = Expire(requests)[j]
    BY <1>5, ResolveType, ZenonT(60) DEF ApproveLeaseAs, Resolvable, Status
  <2>2. QED
    BY <1>5, <2>1, ExpireApproves DEF ApprovedByHuman
<1>6. ASSUME NEW id \in ReqIds, NEW ttl \in TTLs, NEW g \in GrantIds, ApproveWorkspaceAs(id, ttl, g)
      PROVE  ApprovedByHuman
  <2>1. \A j \in ReqIds : j # id => requests'[j] = Expire(requests)[j]
    BY <1>6, ResolveType DEF ApproveWorkspaceAs, Resolvable, Status
  <2>2. QED
    BY <1>6, <2>1, ExpireApproves DEF ApprovedByHuman
<1>7. CASE HumanNext
  <2>1. CASE \E l \in LeaseIds : Revoke(l, None)
    BY <1>1, <2>1 DEF Revoke
  <2>2. CASE \E g \in GrantIds, paused \in BOOLEAN : PauseWorkspace(g, paused)
    BY <1>1, <2>2 DEF PauseWorkspace
  <2>3. CASE \E g \in GrantIds, ttl \in TTLs : ExtendWorkspace(g, ttl)
    BY <1>1, <2>3 DEF ExtendWorkspace
  <2>4. CASE \E g \in GrantIds : RevokeWorkspace(g)
    BY <1>1, <2>4 DEF RevokeWorkspace
  <2>5. CASE \E id \in ReqIds : FulfillInterrupted(id)
    BY <1>1, <2>5 DEF FulfillInterrupted
  <2>6. CASE \E id \in ReqIds : FulfillSecretWith(id)
    BY <1>4, <2>6 DEF FulfillSecretWith, Resolvable, Status
  <2>7. CASE \E id \in ReqIds : Deny(id)
    BY <1>4, <2>7 DEF Deny, Resolvable, Status
  <2>8. QED
    BY <1>3, <1>5, <1>6, <1>7, <2>1, <2>2, <2>3, <2>4, <2>5, <2>6, <2>7
    DEF HumanNext, ApproveLease, ApproveWorkspace
<1>8. QED
  <2>1. CASE UNCHANGED requests \/ Tick \/ \E l \in LeaseIds, s \in Sessions : Revoke(l, s)
    BY <1>1, <2>1 DEF Tick, Revoke
  <2>2. QED
    BY <1>2, <1>7, <2>1 DEF AccessStep, Fresh

\* The lease or grant of an approved request stays, and a new approval brings its own.
LEMMA BackingStep == TypeOK /\ ApprovalIsBacked /\ AccessStep => ApprovalIsBacked'
<1> SUFFICES ASSUME TypeOK, ApprovalIsBacked, AccessStep,
                    NEW id \in ReqIds, requests'[id] # None, requests'[id].status = "approved"
             PROVE  \/ \E l \in LeaseIds : leases'[l] # None /\ leases'[l].request = id
                    \/ \E g \in GrantIds : grants'[g] # None /\ grants'[g].request = id
  BY DEF ApprovalIsBacked
<1>1. TypeOK'
  BY StepTypes
<1>2. ASSUME NEW l \in LeaseIds, leases[l] # None, leases[l].request = id
      PROVE  leases'[l] # None /\ leases'[l].request = id
  <2>1. LeaseKept(l)
    BY <1>2, StepKeepsLeases DEF LeasesKept, ApproveLeaseAs
  <2>2. QED
    BY <1>2, <2>1, NoneAssumption DEF LeaseKept, TypeOK, Lease
<1>3. ASSUME NEW g \in GrantIds, grants[g] # None, grants[g].request = id
      PROVE  grants'[g] # None /\ grants'[g].request = id
  <2>1. GrantKept(g)
    BY <1>3, StepKeepsGrants DEF GrantsKept, ApproveWorkspaceAs
  <2>2. QED
    BY <1>3, <2>1 DEF GrantKept
<1>4. CASE requests[id] # None /\ requests[id].status = "approved"
  BY <1>2, <1>3, <1>4 DEF ApprovalIsBacked
<1>5. ASSUME NEW ttl \in TTLs, NEW l \in LeaseIds, ApproveLeaseAs(id, ttl, l)
      PROVE  leases'[l] # None /\ leases'[l].request = id
  <2>1. leases'[l] = LeaseOf(id, ttl)
    BY <1>5 DEF ApproveLeaseAs, TypeOK
  <2>2. LeaseOf(id, ttl).request = id
    BY DEF LeaseOf
  <2>3. LeaseOf(id, ttl) \in Lease
    <3>1. requests[id] \in Request /\ LeaseOf(id, ttl).expiresAt \in now .. now + MaxLeaseTTL
      BY <1>5, <2>1, ApproveLeaseEffect
    <3>2. LeaseOf(id, ttl).expiresAt \in Nat
      BY <3>1, DurationAssumption DEF TypeOK
    <3>3. QED
      BY <3>1, <3>2 DEF LeaseOf, Lease, Request, RequestRecord, TypeOK
  <2>4. QED
    BY <2>1, <2>2, <2>3, NoneAssumption
<1>6. ASSUME NEW ttl \in TTLs, NEW g \in GrantIds, ApproveWorkspaceAs(id, ttl, g)
      PROVE  grants'[g] # None /\ grants'[g].request = id
  <2>1. grants'[g] = GrantOf(id, ttl)
    BY <1>6 DEF ApproveWorkspaceAs, TypeOK
  <2>2. GrantOf(id, ttl).request = id
    BY DEF GrantOf
  <2>3. GrantOf(id, ttl) \in WorkspaceGrant
    <3>1. requests[id] \in Request /\ GrantOf(id, ttl).expiresAt \in now .. now + MaxLeaseTTL
      BY <1>6, <2>1, ApproveWorkspaceEffect
    <3>2. GrantOf(id, ttl).expiresAt \in Nat
      BY <3>1, DurationAssumption DEF TypeOK
    <3>3. QED
      BY <3>1, <3>2 DEF GrantOf, WorkspaceGrant, Request, RequestRecord, TypeOK
  <2>4. QED
    BY <2>1, <2>2, <2>3, NoneAssumption
<1>7. QED
  BY <1>4, <1>5, <1>6, ApprovalStep DEF ApprovedByHuman

\* Provenance survives every step, whoever takes it.
LEMMA IInvStep == IInv /\ AccessStep => IInv'
BY StepTypes, AgeStep, LeaseProvenanceStep, GrantProvenanceStep, BackingStep
DEF IInv, CapabilitiesAreBacked

\* An empty access.json owes nobody an approval.
LEMMA IInvStart == Init => IInv
<1>1. Init => TypeOK
  BY DEF Init, TypeOK
<1>2. Init => RequestsAreOld /\ CapabilitiesAreBacked
  BY DEF Init, RequestsAreOld, CapabilitiesAreBacked, LeaseProvenance, GrantProvenance,
         ApprovalIsBacked
<1>3. QED
  BY <1>1, <1>2 DEF IInv

\* Every lease and every grant stems from one approved request of the same scope,
\* approved inside its review window, and every approved request has one (access.go
\* ApproveLease, ApproveWorkspace).
THEOREM Provenance == Spec => []CapabilitiesAreBacked
<1>1. Init => IInv
  BY IInvStart
<1>2. IInv /\ [Next]_vars => IInv'
  BY IInvStep, NextIsAccessStep DEF IInv
<1>3. IInv => CapabilitiesAreBacked
  BY DEF IInv
<1>4. QED
  BY <1>1, <1>2, <1>3, PTL DEF Spec

\* What an approval or an extension writes ends within MaxLeaseTTL; the rest stays as it was.
LEMMA BoundStep == TypeOK /\ BoundedAuthority /\ AccessStep => BoundedAuthority'
<1> SUFFICES ASSUME TypeOK, BoundedAuthority, AccessStep PROVE BoundedAuthority'
  OBVIOUS
<1>1. now \in Nat /\ now' \in Nat /\ now <= now' /\ MaxLeaseTTL \in Nat
  BY StepTypes, StepClock, DurationAssumption DEF TypeOK
<1>2. ASSUME NEW l \in LeaseIds, leases'[l] # None
      PROVE  leases'[l].expiresAt <= now' + MaxLeaseTTL
  <2>1. CASE LeaseKept(l)
    <3>1. leases[l] # None /\ leases[l] \in Lease
      BY <1>2, <2>1 DEF LeaseKept, TypeOK
    <3>2. leases'[l].expiresAt = leases[l].expiresAt
      BY <2>1, <3>1 DEF LeaseKept, Lease
    <3>3. leases[l].expiresAt <= now + MaxLeaseTTL /\ leases[l].expiresAt \in Nat
      BY <3>1 DEF BoundedAuthority, Lease
    <3>4. QED
      BY <1>1, <3>2, <3>3
  <2>2. ASSUME NEW id \in ReqIds, NEW ttl \in TTLs, ApproveLeaseAs(id, ttl, l)
        PROVE  leases'[l].expiresAt <= now' + MaxLeaseTTL
    BY <1>1, <2>2, ApproveLeaseEffect
  <2>3. QED
    BY <2>1, <2>2, StepKeepsLeases DEF LeasesKept
<1>3. ASSUME NEW g \in GrantIds, grants'[g] # None
      PROVE  grants'[g].expiresAt <= now' + MaxLeaseTTL
  <2>1. CASE GrantKept(g)
    <3>1. grants[g] # None /\ grants[g] \in WorkspaceGrant
      BY <1>3, <2>1 DEF GrantKept, TypeOK
    <3>2. grants[g].expiresAt <= now + MaxLeaseTTL /\ grants[g].expiresAt \in Nat
      BY <3>1 DEF BoundedAuthority, WorkspaceGrant
    <3>3. \/ grants'[g].expiresAt = grants[g].expiresAt
          \/ grants'[g].expiresAt \in now .. now + MaxLeaseTTL
      BY <2>1 DEF GrantKept
    <3>4. QED
      BY <1>1, <3>2, <3>3
  <2>2. ASSUME NEW id \in ReqIds, NEW ttl \in TTLs, ApproveWorkspaceAs(id, ttl, g)
        PROVE  grants'[g].expiresAt <= now' + MaxLeaseTTL
    BY <1>1, <2>2, ApproveWorkspaceEffect
  <2>3. QED
    BY <2>1, <2>2, StepKeepsGrants DEF GrantsKept
<1>4. QED
  BY <1>2, <1>3 DEF BoundedAuthority

\* No lease and no grant, however often extended, reaches further than MaxLeaseTTL
\* ahead (access.go ApproveLease, ApproveWorkspace, ExtendWorkspace).
THEOREM AuthorityBounded == Spec => []BoundedAuthority
<1>1. Init => BoundedAuthority
  BY DEF Init, BoundedAuthority
<1>2. TypeOK /\ BoundedAuthority /\ [Next]_vars => BoundedAuthority'
  BY BoundStep, NextIsAccessStep
<1>3. QED
  BY <1>1, <1>2, TypeCorrect, PTL DEF Spec

\* The lease behind a command that was not authorized before is new.
LEMMA CommandGainStep == TypeOK /\ AccessStep => CommandGainIsApproval
<1>1. ASSUME TypeOK, AccessStep, NEW s \in Sessions, NEW e \in Envs, NEW c \in Commands,
             ~Authorize(s, e, c), Authorize(s, e, c)'
      PROVE  \E id \in ReqIds :
               /\ IsPending(requests, id) /\ now < requests[id].expiresAt
               /\ requests[id].session = s /\ requests[id].env = e
               /\ c \in requests[id].commands
               /\ requests'[id].status = "approved"
  <2>1. PICK l \in LeaseIds :
          /\ leases'[l] # None /\ leases'[l].revokedAt = None /\ now' < leases'[l].expiresAt
          /\ leases'[l].session = s /\ leases'[l].env = e /\ c \in leases'[l].commands
    BY <1>1 DEF Authorize, ActiveLease
  <2>2. ~LeaseKept(l)
    <3> SUFFICES ASSUME LeaseKept(l) PROVE FALSE
      OBVIOUS
    <3>1. leases[l] # None /\ leases[l] \in Lease
      BY <1>1, <2>1 DEF LeaseKept, TypeOK
    <3>2. leases'[l] = leases[l]
      BY <1>1, <2>1, <3>1, NoneAssumption DEF LeaseKept, Lease, TypeOK
    <3>3. now \in Nat /\ now' \in Nat /\ now <= now' /\ leases[l].expiresAt \in Nat
      BY <1>1, <3>1, StepTypes, StepClock DEF TypeOK, Lease
    <3>4. now < leases[l].expiresAt
      BY <2>1, <3>2, <3>3
    <3>5. QED
      BY <1>1, <2>1, <3>2, <3>4 DEF Authorize, ActiveLease
  <2>3. PICK id \in ReqIds, ttl \in TTLs : ApproveLeaseAs(id, ttl, l)
    BY <1>1, <2>2, StepKeepsLeases DEF LeasesKept
  <2>4. QED
    BY <1>1, <2>1, <2>3, ApproveLeaseEffect
<1>2. QED
  BY <1>1 DEF CommandGainIsApproval

\* A session gains a command only by approval of its own live lease request
\* (access.go Authorize, ApproveLease).
THEOREM CommandAuthority == Spec => CommandAuthorityIsApproved
<1>1. TypeOK /\ [Next]_vars => [CommandGainIsApproval]_vars
  BY CommandGainStep, NextIsAccessStep
<1>2. QED
  BY <1>1, TypeCorrect, PTL DEF Spec, CommandAuthorityIsApproved

\* The grant behind a workspace that was not authorized before is new or was touched.
LEMMA WorkspaceGainStep == TypeOK /\ AccessStep => WorkspaceGainIsApproval
<1>1. ASSUME TypeOK, AccessStep, NEW s \in Sessions, NEW e \in Envs,
             ~AuthorizeWorkspace(s, e), AuthorizeWorkspace(s, e)'
      PROVE  \/ \E id \in ReqIds :
                  /\ IsPending(requests, id) /\ now < requests[id].expiresAt
                  /\ requests[id].session = s /\ requests[id].env = e
                  /\ requests'[id].status = "approved"
             \/ \E g \in GrantIds :
                  /\ grants[g] # None /\ grants[g].revokedAt = None
                  /\ grants[g].session = s /\ grants[g].env = e
                  /\ grants'[g] # grants[g]
  <2>1. PICK g \in GrantIds :
          /\ grants'[g] # None /\ ~grants'[g].paused /\ grants'[g].revokedAt = None
          /\ now' < grants'[g].expiresAt
          /\ grants'[g].session = s /\ grants'[g].env = e
    BY <1>1 DEF AuthorizeWorkspace, ActiveGrant
  <2>2. grants'[g] # grants[g]
    <3> SUFFICES ASSUME grants'[g] = grants[g] PROVE FALSE
      OBVIOUS
    <3>1. grants[g] # None /\ grants[g] \in WorkspaceGrant
      BY <1>1, <2>1 DEF TypeOK
    <3>2. now \in Nat /\ now' \in Nat /\ now <= now' /\ grants[g].expiresAt \in Nat
      BY <1>1, <3>1, StepTypes, StepClock DEF TypeOK, WorkspaceGrant
    <3>3. now < grants[g].expiresAt
      BY <2>1, <3>2
    <3>4. QED
      BY <1>1, <2>1, <3>3 DEF AuthorizeWorkspace, ActiveGrant
  <2>3. CASE GrantKept(g)
    BY <2>1, <2>2, <2>3 DEF GrantKept
  <2>4. ASSUME NEW id \in ReqIds, NEW ttl \in TTLs, ApproveWorkspaceAs(id, ttl, g)
        PROVE  /\ IsPending(requests, id) /\ now < requests[id].expiresAt
               /\ requests[id].session = s /\ requests[id].env = e
               /\ requests'[id].status = "approved"
    BY <1>1, <2>1, <2>4, ApproveWorkspaceEffect
  <2>5. QED
    BY <1>1, <2>3, <2>4, StepKeepsGrants DEF GrantsKept
<1>2. QED
  BY <1>1 DEF WorkspaceGainIsApproval

\* A session gains its workspace only by approval of its own live request, or by
\* the human reviving its own unrevoked grant (access.go AuthorizeWorkspace,
\* ApproveWorkspace, PauseWorkspace, ExtendWorkspace).
THEOREM WorkspaceAuthority == Spec => WorkspaceAuthorityIsApproved
<1>1. TypeOK /\ [Next]_vars => [WorkspaceGainIsApproval]_vars
  BY WorkspaceGainStep, NextIsAccessStep
<1>2. QED
  BY <1>1, TypeCorrect, PTL DEF Spec, WorkspaceAuthorityIsApproved

\* What a human has decided stays decided: a resolved request, a revoked lease or grant
\* (access.go resolveRequest, Revoke, RevokeWorkspace).
THEOREM DecisionsFinal == Spec => DecisionsAreFinal
BY ResolutionFinal, RevocationFinal DEF DecisionsAreFinal

\* Nothing but a human's decision adds to what a session may do (access.go Authorize,
\* AuthorizeWorkspace).
THEOREM Authority == Spec => AuthorityIsApproved
BY CommandAuthority, WorkspaceAuthority DEF AuthorityIsApproved

-----------------------------------------------------------------------------
(* The review queue.                                                       *)

\* What is pending after a step was pending before, unchanged, or has just been asked for.
LEMMA PendingStep ==
  ASSUME TypeOK, AccessStep, NEW id \in ReqIds, LivePending(id)'
  PROVE  \/ LivePending(id) /\ SameScope(requests[id], requests'[id])
         \/ requests[id] = None /\ Asked(id)
<1>1. requests'[id] # None /\ requests'[id].status = "pending" /\ now' < requests'[id].expiresAt
  BY DEF LivePending, IsPending
<1>2. CASE requests[id] = None
  BY <1>1, <1>2, StepAsks
<1>3. CASE requests[id] # None
  <2>1. MayBecome(requests[id], requests'[id])
    BY <1>3, StepKeepsRequests DEF RequestsKept
  <2>2. requests[id] \in Request
    BY <1>3 DEF TypeOK
  <2>3. requests[id].status = "pending"
    BY <1>1, <2>1, <2>2 DEF MayBecome, Terminal, Request, RequestRecord
  <2>4. now < requests[id].expiresAt
    <3>1. now \in Nat /\ now' \in Nat /\ now <= now' /\ requests[id].expiresAt \in Nat
      BY <2>2, StepTypes, StepClock DEF TypeOK, Request, RequestRecord
    <3>2. requests'[id].expiresAt = requests[id].expiresAt
      BY <2>1 DEF MayBecome, SameScope
    <3>3. QED
      BY <1>1, <3>1, <3>2
  <2>5. QED
    BY <1>3, <2>1, <2>3, <2>4 DEF LivePending, IsPending, MayBecome
<1>4. QED
  BY <1>2, <1>3

\* Two requests do not enter the file in one step.
LEMMA OneAsked ==
  ASSUME TypeOK, NEW i \in ReqIds, NEW j \in ReqIds, i # j,
         requests[i] = None, requests[j] = None, Asked(i), requests'[j] # None
  PROVE  FALSE
BY DEF Asked, Expire, IsPending

\* createRequest appends only below the cap and without a duplicate, and nothing else
\* adds to what is pending.
LEMMA QueueStep == TypeOK /\ ReviewQueueBounded /\ AccessStep => ReviewQueueBounded'
<1> SUFFICES ASSUME TypeOK, ReviewQueueBounded, AccessStep, NEW s \in Sessions
             PROVE  /\ Cardinality(SessionPending(s)') <= MaxPendingSession
                    /\ \A i, j \in SessionPending(s)' :
                         SameRequest(requests'[i], requests'[j]) => i = j
  BY DEF ReviewQueueBounded, SameRequest
<1> DEFINE before == SessionPending(s)
           after == SessionPending(s)'
<1>1. /\ IsFiniteSet(before) /\ Cardinality(before) \in Nat /\ MaxPendingSession \in Nat
      /\ Cardinality(before) <= MaxPendingSession
  <2>1. before \subseteq ReqIds
    BY DEF SessionPending
  <2>2. QED
    BY <2>1, FS_Subset, FS_CardinalityType, IdAssumption, DurationAssumption
    DEF ReviewQueueBounded
<1>2. \A i \in after : /\ i \in ReqIds /\ LivePending(i)' /\ requests'[i].session = s
                       /\ requests'[i] # None
  BY DEF SessionPending, LivePending, IsPending
<1>3. ASSUME NEW i \in after, requests[i] # None
      PROVE  i \in before /\ SameScope(requests[i], requests'[i])
  <2>1. i \in ReqIds /\ LivePending(i)' /\ requests'[i].session = s
    BY <1>2
  <2>2. LivePending(i) /\ SameScope(requests[i], requests'[i])
    BY <1>3, <2>1, PendingStep
  <2>3. QED
    BY <2>1, <2>2 DEF SessionPending, SameScope
<1>4. \A i, j \in before : SameRequest(requests[i], requests[j]) => i = j
  BY DEF ReviewQueueBounded
<1>5. \A i, j \in after :
        requests[i] # None /\ requests[j] # None /\ SameRequest(requests'[i], requests'[j]) => i = j
  BY <1>3, <1>4 DEF SameRequest, SameScope
<1>6. CASE \A i \in after : requests[i] # None
  <2>1. after \subseteq before
    BY <1>3, <1>6
  <2>2. Cardinality(after) <= Cardinality(before) /\ IsFiniteSet(after)
    BY <1>1, <2>1, FS_Subset
  <2>3. Cardinality(after) <= MaxPendingSession
    BY <1>1, <2>2, FS_CardinalityType
  <2>4. QED
    BY <1>5, <1>6, <2>3
<1>7. ASSUME NEW new \in after, requests[new] = None
      PROVE  /\ Cardinality(after) <= MaxPendingSession
             /\ \A i, j \in after : SameRequest(requests'[i], requests'[j]) => i = j
  <2>1. new \in ReqIds /\ Asked(new) /\ requests'[new].session = s
    <3>1. new \in ReqIds /\ requests'[new].session = s /\ requests'[new] # None
      BY <1>2, <1>7
    <3>2. QED
      BY <1>7, <3>1, StepAsks
  <2>2. ASSUME NEW i \in after, i # new PROVE requests[i] # None
    BY <1>2, <1>7, <2>1, <2>2, OneAsked
  <2>3. after \subseteq before \cup {new}
    BY <1>3, <2>2
  <2>4. Cardinality(after) <= Cardinality(before) + 1
    <3>1. /\ IsFiniteSet(before \cup {new})
          /\ Cardinality(before \cup {new}) \in {Cardinality(before), Cardinality(before) + 1}
      BY <1>1, FS_AddElement
    <3>2. Cardinality(after) <= Cardinality(before \cup {new}) /\ IsFiniteSet(after)
      BY <2>3, <3>1, FS_Subset
    <3>3. Cardinality(after) \in Nat
      BY <3>2, FS_CardinalityType
    <3>4. QED
      BY <1>1, <3>1, <3>2, <3>3
  <2>5. Cardinality(before) < MaxPendingSession
    BY <1>1, <2>1 DEF Asked, AtPendingCap
  <2>6. Cardinality(after) <= MaxPendingSession
    <3>1. IsFiniteSet(after)
      BY <2>3, <1>1, FS_AddElement, FS_Subset
    <3>2. Cardinality(after) \in Nat
      BY <3>1, FS_CardinalityType
    <3>3. QED
      BY <1>1, <2>4, <2>5, <3>2
  <2>7. ASSUME NEW i \in after, i # new PROVE ~SameRequest(requests'[i], requests'[new])
    <3>1. i \in before /\ SameScope(requests[i], requests'[i])
      BY <1>3, <2>2, <2>7
    <3>2. ~IsDuplicate(requests'[new], i)
      BY <1>2, <2>1, <2>7 DEF Asked, HasDuplicate
    <3>3. QED
      BY <2>1, <3>1, <3>2 DEF IsDuplicate, SessionPending, SameRequest, SameScope
  <2>8. \A i, j \in after : SameRequest(requests'[i], requests'[j]) => i = j
    BY <1>5, <2>2, <2>7 DEF SameRequest
  <2>9. QED
    BY <2>6, <2>8
<1>8. QED
  BY <1>6, <1>7

\* At first nothing is pending.
LEMMA QueueStart == Init => ReviewQueueBounded
<1> SUFFICES ASSUME Init, NEW s \in Sessions PROVE SessionPending(s) = {}
  <2>1. Cardinality({}) = 0 /\ 0 <= MaxPendingSession
    BY FS_EmptySet, DurationAssumption
  <2>2. QED
    BY <2>1 DEF ReviewQueueBounded
<1>1. QED
  BY DEF Init, SessionPending, LivePending, IsPending

\* The review queue of a session never exceeds maxPendingSession and never holds the same
\* question twice, however its calls and the human's answers interleave with expiry
\* (access.go createRequest).
THEOREM QueueBounded == Spec => []ReviewQueueBounded
<1>1. Init => ReviewQueueBounded
  BY QueueStart
<1>2. TypeOK /\ ReviewQueueBounded /\ [Next]_vars => ReviewQueueBounded'
  BY QueueStep, NextIsAccessStep
<1>3. QED
  BY <1>1, <1>2, TypeCorrect, PTL DEF Spec

-----------------------------------------------------------------------------
(* What a component that works through AccessStep may rely on.             *)

AccessHolds == IInv /\ BoundedAuthority /\ ReviewQueueBounded

LEMMA AccessStart == Init => AccessHolds
<1>1. Init => BoundedAuthority
  BY DEF Init, BoundedAuthority
<1>2. QED
  BY <1>1, IInvStart, QueueStart DEF AccessHolds

\* It holds from step to step of any such component.
LEMMA AccessContinues == AccessHolds /\ AccessStep => AccessHolds'
BY IInvStep, BoundStep, QueueStep DEF AccessHolds, IInv

=============================================================================
