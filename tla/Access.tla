------------------------------- MODULE Access -------------------------------
(***************************************************************************)
(* internal/access: human-reviewed agent requests and the revocable        *)
(* capabilities they turn into.  The state is the content of               *)
(* .ironrun/access.json (requests, leases, workspace grants), the wall     *)
(* clock every operation reads, and which vault entries hold a value (the  *)
(* side effect of FulfillSecretWith).                                      *)
(*                                                                         *)
(* Every mutating method runs load/modify/save inside mutate(), under the  *)
(* cross-process lock, and a method that returns an error saves nothing:   *)
(* each one is a single action whose guard is its success condition.  What *)
(* the lock itself guarantees is the subject of LockedStore.               *)
(*                                                                         *)
(* Left out: reasons, first_argv, ResolvedAt, the project root and the     *)
(* network label of a grant: stored for display, never consulted.          *)
(***************************************************************************)
EXTENDS Naturals, FiniteSets

CONSTANTS
  Sessions,             \* MCP / local API session identities
  Envs,                 \* environment names
  Commands,             \* policy command ids
  Secrets,              \* declared (alias, key) pairs
  ReqIds,               \* request ids randomID can return
  LeaseIds,             \* lease ids randomID can return
  GrantIds,             \* workspace grant ids randomID can return
  TTLs,                 \* durations a caller can pass; 0 stands for "<= 0"
  RequestTTL,           \* DefaultRequestTTL
  DefaultLeaseTTL,
  DefaultWorkspaceTTL,
  MaxLeaseTTL,
  MaxPendingSession,    \* maxPendingSession
  MaxTime,              \* bound of the model: the clock stops here
  None                  \* absent record, nil pointer, empty field

VARIABLES
  now,       \* the wall clock, in ticks
  requests,  \* request id -> Request, or None when the file has no such id
  leases,    \* lease id -> Lease or None
  grants,    \* grant id -> WorkspaceGrant or None
  vault      \* the <<environment, secret>> pairs that hold a value

vars == <<now, requests, leases, grants, vault>>

-----------------------------------------------------------------------------
(* Records of access.json.                                                 *)

Kind == {"secret", "lease", "workspace"}
Status == {"pending", "fulfilled", "approved", "denied", "expired"}
Terminal == Status \ {"pending"}

RequestRecord ==
  [kind : Kind, status : Status, session : Sessions, env : Envs,
   secret : Secrets \cup {None}, commands : SUBSET Commands, ttl : Nat,
   createdAt : Nat, expiresAt : Nat, result : LeaseIds \cup GrantIds \cup {None}]

\* Only a secret request names a secret.
Request == {r \in RequestRecord : r.kind = "secret" <=> r.secret # None}

Lease ==
  [request : ReqIds, session : Sessions, env : Envs, commands : SUBSET Commands,
   createdAt : Nat, expiresAt : Nat, revokedAt : Nat \cup {None}]

WorkspaceGrant ==
  [request : ReqIds, session : Sessions, env : Envs,
   createdAt : Nat, expiresAt : Nat, paused : BOOLEAN, revokedAt : Nat \cup {None}]

ASSUME DurationAssumption ==
  /\ TTLs \subseteq Nat
  /\ RequestTTL \in Nat \ {0}
  /\ MaxLeaseTTL \in Nat
  /\ DefaultLeaseTTL \in 1..MaxLeaseTTL
  /\ DefaultWorkspaceTTL \in 1..MaxLeaseTTL
  /\ MaxPendingSession \in Nat
  /\ MaxTime \in Nat

ASSUME NoneAssumption ==
  /\ None \notin Nat
  /\ None \notin Secrets \cup LeaseIds \cup GrantIds
  /\ None \notin Request
  /\ None \notin Lease
  /\ None \notin WorkspaceGrant

\* An id is a prefix of its kind and a fixed number of random bytes.
ASSUME IdAssumption == LeaseIds \cap GrantIds = {} /\ IsFiniteSet(ReqIds)

-----------------------------------------------------------------------------
(* Helpers.                                                                *)

IsPending(rs, id) == rs[id] # None /\ rs[id].status = "pending"

\* Mutant: the sweep clears the status instead of setting it.
ExpireClears(rs) ==
  [id \in ReqIds |->
     IF IsPending(rs, id) /\ rs[id].expiresAt <= now
     THEN [rs[id] EXCEPT !.status = None]
     ELSE rs[id]]

\* expire(): run at the start of every request mutation, on the loaded copy.
Expire(rs) ==
  [id \in ReqIds |->
     IF IsPending(rs, id) /\ rs[id].expiresAt <= now
     THEN [rs[id] EXCEPT !.status = "expired"]
     ELSE rs[id]]

\* What is still pending after the sweep.
LivePending(id) == IsPending(requests, id) /\ now < requests[id].expiresAt

\* sameRequest(): time-to-live, reason and first argv are not compared.
SameRequest(a, b) ==
  /\ a.kind = b.kind
  /\ a.env = b.env
  /\ a.secret = b.secret
  /\ a.commands = b.commands

NewRequest(kind, s, e, secret, commands, ttl) ==
  [kind |-> kind, status |-> "pending", session |-> s, env |-> e,
   secret |-> secret, commands |-> commands, ttl |-> ttl,
   createdAt |-> now, expiresAt |-> now + RequestTTL, result |-> None]

\* The lifetime an approval uses: what the human typed, else what was asked for.
ApprovedTTL(typed, asked, default) ==
  IF typed > 0 THEN typed ELSE IF asked > 0 THEN asked ELSE default

ActiveLease(l) == l # None /\ l.revokedAt = None /\ now < l.expiresAt

ActiveGrant(g) == g # None /\ ~g.paused /\ g.revokedAt = None /\ now < g.expiresAt

\* Authorize(): some unrevoked, unexpired lease of this session covers the command.
Authorize(s, e, c) ==
  \E l \in LeaseIds :
    /\ ActiveLease(leases[l])
    /\ leases[l].session = s
    /\ leases[l].env = e
    /\ c \in leases[l].commands

\* AuthorizeWorkspace(): some active grant of this session for this environment.
AuthorizeWorkspace(s, e) ==
  \E g \in GrantIds :
    ActiveGrant(grants[g]) /\ grants[g].session = s /\ grants[g].env = e

\* Request(): the view a reader gets; a lapsed pending request reads as expired.
RequestStatus(id) ==
  IF IsPending(requests, id) /\ requests[id].expiresAt <= now
  THEN "expired" ELSE requests[id].status

-----------------------------------------------------------------------------
Init ==
  /\ now = 0
  /\ requests = [id \in ReqIds |-> None]
  /\ leases = [l \in LeaseIds |-> None]
  /\ grants = [g \in GrantIds |-> None]
  /\ vault = {}

Tick ==
  /\ now < MaxTime
  /\ now' = now + 1
  /\ UNCHANGED <<requests, leases, grants, vault>>

(***************************************************************************)
(* createRequest(): sweep expired requests, then return the session's      *)
(* pending duplicate (the sweep is still saved), or refuse at the cap (an  *)
(* error: nothing is saved), or append the candidate under a fresh id.     *)
(* The parameter id is the id of the request that is returned.             *)
(***************************************************************************)
SessionPending(s) == {id \in ReqIds : LivePending(id) /\ requests[id].session = s}

\* Mutant: off by one at the cap.
AtPendingCapLate(s) == Cardinality(SessionPending(s)) > MaxPendingSession

AtPendingCap(s) == Cardinality(SessionPending(s)) >= MaxPendingSession

IsDuplicate(candidate, id) ==
  /\ LivePending(id)
  /\ requests[id].session = candidate.session
  /\ SameRequest(requests[id], candidate)

HasDuplicate(candidate) == \E id \in ReqIds : IsDuplicate(candidate, id)

CreateRequest(candidate, id) ==
  /\ \/ /\ IsDuplicate(candidate, id)
        /\ requests' = Expire(requests)
     \/ /\ requests[id] = None
        /\ ~HasDuplicate(candidate)
        /\ ~AtPendingCap(candidate.session)
        /\ requests' = [Expire(requests) EXCEPT ![id] = candidate]
  /\ UNCHANGED <<now, leases, grants, vault>>

\* createRequest() fails: the cap is reached, or no id could be drawn.
CreateRequestFails(candidate) ==
  /\ ~HasDuplicate(candidate)
  /\ \/ AtPendingCap(candidate.session)
     \/ \A id \in ReqIds : requests[id] # None

SecretCandidate(s, e, secret, commands) ==
  NewRequest("secret", s, e, secret, commands, 0)

\* An over-long lease request is clamped to the maximum ...
LeaseCandidate(s, e, commands, ttl) ==
  NewRequest("lease", s, e, None, commands,
    IF ttl = 0 THEN DefaultLeaseTTL
    ELSE IF ttl > MaxLeaseTTL THEN MaxLeaseTTL ELSE ttl)

WorkspaceCandidate(s, e, ttl) ==
  NewRequest("workspace", s, e, None, {},
    IF ttl = 0 THEN DefaultWorkspaceTTL ELSE ttl)

CreateSecretRequest(s, e, secret, commands, id) ==
  CreateRequest(SecretCandidate(s, e, secret, commands), id)

CreateLeaseRequest(s, e, commands, ttl, id) ==
  /\ commands # {}
  /\ CreateRequest(LeaseCandidate(s, e, commands, ttl), id)

\* ... an over-long workspace request is refused.
CreateWorkspaceRequest(s, e, ttl, id) ==
  /\ ttl <= MaxLeaseTTL
  /\ CreateRequest(WorkspaceCandidate(s, e, ttl), id)

\* Requests(): the listing persists the expiry sweep.
ListRequests ==
  /\ requests' = Expire(requests)
  /\ UNCHANGED <<now, leases, grants, vault>>

(***************************************************************************)
(* resolveRequest(): sweep, then move one still-pending request of the     *)
(* expected kind to its final status.                                      *)
(***************************************************************************)
\* Mutant: the request is looked up by id and kind only.
ResolvableAnyStatus(id, kinds) == requests[id] # None /\ requests[id].kind \in kinds

Resolvable(id, kinds) == LivePending(id) /\ requests[id].kind \in kinds

Resolve(id, status, result) ==
  requests' = [Expire(requests) EXCEPT ![id].status = status, ![id].result = result]

\* FulfillSecretWith(): the storage commit runs under the lock, before the save.
FulfillSecretWith(id) ==
  /\ Resolvable(id, {"secret"})
  /\ vault' = vault \cup {<<requests[id].env, requests[id].secret>>}
  /\ Resolve(id, "fulfilled", None)
  /\ UNCHANGED <<now, leases, grants>>

\* The same call when the commit reports an error although the value is stored, the save fails, or
\* the process dies in between.
FulfillInterrupted(id) ==
  /\ Resolvable(id, {"secret"})
  /\ vault' = vault \cup {<<requests[id].env, requests[id].secret>>}
  /\ UNCHANGED <<now, requests, leases, grants>>

\* The lease an approval of request id appends ...
LeaseOf(id, typed) ==
  LET r == requests[id]
  IN [request |-> id, session |-> r.session, env |-> r.env, commands |-> r.commands,
      createdAt |-> now,
      expiresAt |-> now + ApprovedTTL(typed, r.ttl, DefaultLeaseTTL),
      revokedAt |-> None]

\* Mutant: an over-long lifetime is refused after the request was resolved.
ApproveLeaseAsHalf(id, typed, l) ==
  /\ Resolvable(id, {"lease"})
  /\ leases[l] = None
  /\ leases' = IF ApprovedTTL(typed, requests[id].ttl, DefaultLeaseTTL) <= MaxLeaseTTL
               THEN [leases EXCEPT ![l] = LeaseOf(id, typed)] ELSE leases
  /\ Resolve(id, "approved", l)
  /\ UNCHANGED <<now, grants, vault>>

\* Mutant: what the human typed is not checked against the maximum.
ApproveLeaseAsUnbounded(id, typed, l) ==
  /\ Resolvable(id, {"lease"})
  /\ leases[l] = None
  /\ leases' = [leases EXCEPT ![l] = LeaseOf(id, typed)]
  /\ Resolve(id, "approved", l)
  /\ UNCHANGED <<now, grants, vault>>

ApproveLeaseAs(id, typed, l) ==
  /\ Resolvable(id, {"lease"})
  /\ ApprovedTTL(typed, requests[id].ttl, DefaultLeaseTTL) <= MaxLeaseTTL
  /\ leases[l] = None
  /\ leases' = [leases EXCEPT ![l] = LeaseOf(id, typed)]
  /\ Resolve(id, "approved", l)
  /\ UNCHANGED <<now, grants, vault>>

ApproveLease(id, typed) == \E l \in LeaseIds : ApproveLeaseAs(id, typed, l)

\* ... and the workspace grant.
GrantOf(id, typed) ==
  LET r == requests[id]
  IN [request |-> id, session |-> r.session, env |-> r.env, createdAt |-> now,
      expiresAt |-> now + ApprovedTTL(typed, r.ttl, DefaultWorkspaceTTL),
      paused |-> FALSE, revokedAt |-> None]

ApproveWorkspaceAs(id, typed, g) ==
  /\ Resolvable(id, {"workspace"})
  /\ ApprovedTTL(typed, requests[id].ttl, DefaultWorkspaceTTL) <= MaxLeaseTTL
  /\ grants[g] = None
  /\ grants' = [grants EXCEPT ![g] = GrantOf(id, typed)]
  /\ Resolve(id, "approved", g)
  /\ UNCHANGED <<now, leases, vault>>

ApproveWorkspace(id, typed) == \E g \in GrantIds : ApproveWorkspaceAs(id, typed, g)

\* Deny(): any kind of pending request.
Deny(id) ==
  /\ Resolvable(id, Kind)
  /\ Resolve(id, "denied", None)
  /\ UNCHANGED <<now, leases, grants, vault>>

\* Revoke(): by the human (owner = None) or by the session that holds the lease;
\* the first revocation's time is kept.
Revoke(l, owner) ==
  /\ leases[l] # None
  /\ owner \in {None, leases[l].session}
  /\ leases[l].revokedAt = None
  /\ leases' = [leases EXCEPT ![l].revokedAt = now]
  /\ UNCHANGED <<now, requests, grants, vault>>

\* Mutant: a revoked grant can still be paused and resumed.
PauseWorkspaceRevoked(g, paused) ==
  /\ grants[g] # None
  /\ grants' = [grants EXCEPT ![g].paused = paused]
  /\ UNCHANGED <<now, requests, leases, vault>>

\* PauseWorkspace(): pause or resume; a revoked grant is refused.
PauseWorkspace(g, paused) ==
  /\ grants[g] # None
  /\ grants[g].revokedAt = None
  /\ grants' = [grants EXCEPT ![g].paused = paused]
  /\ UNCHANGED <<now, requests, leases, vault>>

\* ExtendWorkspace(): a fresh expiry from now; a lapsed grant is revived.
ExtendWorkspace(g, ttl) ==
  /\ ttl \in 1..MaxLeaseTTL
  /\ grants[g] # None
  /\ grants[g].revokedAt = None
  /\ grants' = [grants EXCEPT ![g].expiresAt = now + ttl]
  /\ UNCHANGED <<now, requests, leases, vault>>

RevokeWorkspace(g) ==
  /\ grants[g] # None
  /\ grants[g].revokedAt = None
  /\ grants' = [grants EXCEPT ![g].revokedAt = now]
  /\ UNCHANGED <<now, requests, leases, vault>>

-----------------------------------------------------------------------------
\* request_secret names no command, a waiting run names its own.
SecretContexts == {{}} \cup {{c} : c \in Commands}

\* What agent sessions can do: ask, and give up their own leases.
AgentNext ==
  \/ \E s \in Sessions, e \in Envs, id \in ReqIds :
       \/ \E x \in Secrets, cs \in SecretContexts : CreateSecretRequest(s, e, x, cs, id)
       \/ \E cs \in SUBSET Commands, ttl \in TTLs : CreateLeaseRequest(s, e, cs, ttl, id)
       \/ \E ttl \in TTLs : CreateWorkspaceRequest(s, e, ttl, id)
  \/ \E l \in LeaseIds, s \in Sessions : Revoke(l, s)

\* What the human can do through the CLI, the dashboard or the local API.
HumanNext ==
  \/ ListRequests
  \/ \E id \in ReqIds : FulfillSecretWith(id)
  \/ \E id \in ReqIds : FulfillInterrupted(id)
  \/ \E id \in ReqIds, ttl \in TTLs : ApproveLease(id, ttl)
  \/ \E id \in ReqIds, ttl \in TTLs : ApproveWorkspace(id, ttl)
  \/ \E id \in ReqIds : Deny(id)
  \/ \E l \in LeaseIds : Revoke(l, None)
  \/ \E g \in GrantIds, paused \in BOOLEAN : PauseWorkspace(g, paused)
  \/ \E g \in GrantIds, ttl \in TTLs : ExtendWorkspace(g, ttl)
  \/ \E g \in GrantIds : RevokeWorkspace(g)

Next == Tick \/ AgentNext \/ HumanNext

Spec == Init /\ [][Next]_vars

-----------------------------------------------------------------------------
(* Properties.                                                             *)

\* The content of access.json, the clock and the vault index keep their types.
TypeOK ==
  /\ now \in Nat
  /\ requests \in [ReqIds -> Request \cup {None}]
  /\ leases \in [LeaseIds -> Lease \cup {None}]
  /\ grants \in [GrantIds -> WorkspaceGrant \cup {None}]
  /\ vault \subseteq Envs \X Secrets

\* A lease exists only because ApproveLease turned one lease request of the same
\* session, environment and commands into it, before that request's review
\* deadline; the request points back at it, so no request yields two leases.
LeaseProvenance ==
  \A l \in LeaseIds : leases[l] # None =>
    LET r == requests[leases[l].request]
    IN /\ r # None
       /\ r.kind = "lease" /\ r.status = "approved" /\ r.result = l
       /\ r.session = leases[l].session
       /\ r.env = leases[l].env
       /\ r.commands = leases[l].commands
       /\ leases[l].createdAt \in r.createdAt .. r.expiresAt - 1

\* The same for workspace grants and ApproveWorkspace.
GrantProvenance ==
  \A g \in GrantIds : grants[g] # None =>
    LET r == requests[grants[g].request]
    IN /\ r # None
       /\ r.kind = "workspace" /\ r.status = "approved" /\ r.result = g
       /\ r.session = grants[g].session
       /\ r.env = grants[g].env
       /\ grants[g].createdAt \in r.createdAt .. r.expiresAt - 1

\* The review window of a stored request opened in the past (createRequest stamps
\* it with the current time, and the clock does not run backwards).
RequestsAreOld ==
  \A id \in ReqIds : requests[id] # None => requests[id].createdAt <= now

\* Every approved request has the lease or grant that resolveRequest's callback
\* appended in the same save: approval and capability are one transaction.
ApprovalIsBacked ==
  \A id \in ReqIds : requests[id] # None /\ requests[id].status = "approved" =>
    \/ \E l \in LeaseIds : leases[l] # None /\ leases[l].request = id
    \/ \E g \in GrantIds : grants[g] # None /\ grants[g].request = id

\* Both ways: no capability without its approved request, no approval without its capability.
CapabilitiesAreBacked == LeaseProvenance /\ GrantProvenance /\ ApprovalIsBacked

\* The inductive strengthening behind the provenance theorem.
IInv == TypeOK /\ RequestsAreOld /\ CapabilitiesAreBacked

\* No capability reaches further than MaxLeaseTTL into the future, whichever of
\* the requested, the typed and the default lifetime was used and however often
\* a grant was extended.
BoundedAuthority ==
  /\ \A l \in LeaseIds : leases[l] # None => leases[l].expiresAt <= now + MaxLeaseTTL
  /\ \A g \in GrantIds : grants[g] # None => grants[g].expiresAt <= now + MaxLeaseTTL

\* createRequest's cap and its duplicate check hold over the whole file, so one
\* session cannot flood the review screen.
ReviewQueueBounded ==
  \A s \in Sessions :
    /\ Cardinality(SessionPending(s)) <= MaxPendingSession
    /\ \A i, j \in SessionPending(s) : SameRequest(requests[i], requests[j]) => i = j

\* A resolved or expired request is never touched again, and while it is pending
\* nobody changes what was asked for (resolveRequest, expire).
ResolutionIsFinal ==
  [][\A id \in ReqIds : requests[id] # None =>
       /\ requests'[id] # None
       /\ requests[id].status \in Terminal => requests'[id] = requests[id]
       /\ \A f \in {"kind", "session", "env", "secret", "commands", "ttl", "expiresAt"} :
            requests'[id][f] = requests[id][f]]_vars

\* A revoked lease or grant never changes again: no pause, resume, extension or
\* second approval brings it back.
RevocationIsFinal ==
  [][/\ \A l \in LeaseIds : leases[l] # None /\ leases[l].revokedAt # None =>
          leases'[l] = leases[l]
     /\ \A g \in GrantIds : grants[g] # None /\ grants[g].revokedAt # None =>
          grants'[g] = grants[g]]_vars

\* What a human has decided stays decided.
DecisionsAreFinal == ResolutionIsFinal /\ RevocationIsFinal

\* A session gains a command only in the step in which a human approves a
\* pending, unexpired lease request of that same session naming that command.
CommandGainIsApproval ==
  \A s \in Sessions, e \in Envs, c \in Commands :
    ~Authorize(s, e, c) /\ Authorize(s, e, c)' =>
      \E id \in ReqIds :
        /\ IsPending(requests, id) /\ now < requests[id].expiresAt
        /\ requests[id].session = s /\ requests[id].env = e /\ c \in requests[id].commands
        /\ requests'[id].status = "approved"

\* ... as a property of every behaviour.
CommandAuthorityIsApproved == [][CommandGainIsApproval]_vars

\* A session gains its workspace only by approval of its own pending request, or
\* by the human resuming or extending a grant that session was given earlier.
WorkspaceGainIsApproval ==
  \A s \in Sessions, e \in Envs :
    ~AuthorizeWorkspace(s, e) /\ AuthorizeWorkspace(s, e)' =>
      \/ \E id \in ReqIds :
           /\ IsPending(requests, id) /\ now < requests[id].expiresAt
           /\ requests[id].session = s /\ requests[id].env = e
           /\ requests'[id].status = "approved"
      \/ \E g \in GrantIds :
           /\ grants[g] # None /\ grants[g].revokedAt = None
           /\ grants[g].session = s /\ grants[g].env = e
           /\ grants'[g] # grants[g]

\* ... as a property of every behaviour.
WorkspaceAuthorityIsApproved == [][WorkspaceGainIsApproval]_vars

\* Nothing but a human's decision adds to what a session may do.
AuthorityIsApproved == CommandAuthorityIsApproved /\ WorkspaceAuthorityIsApproved

=============================================================================
