------------------------------- MODULE RunProofs -------------------------------
(***************************************************************************)
(* Theorems about AgentRun for any number of calls, sessions, environments *)
(* and commands: what an admitted run was authorized by, and how long a    *)
(* call waits.                                                             *)
(***************************************************************************)
EXTENDS AgentRun, AccessProofs

-----------------------------------------------------------------------------
(* What the calls rely on in access.json.                                  *)

\* Every review deadline is at most one RequestTTL away, and no capability is from the
\* future.
AccessInv ==
  /\ TypeOK
  /\ \A id \in ReqIds : requests[id] # None => requests[id].expiresAt <= now + RequestTTL
  /\ \A l \in LeaseIds : leases[l] # None => leases[l].createdAt <= now
  /\ \A g \in GrantIds : grants[g] # None => grants[g].createdAt <= now

LEMMA AccessInvStep == AccessInv /\ AccessStep => AccessInv'
<1> SUFFICES ASSUME AccessInv, AccessStep PROVE AccessInv'
  OBVIOUS
<1>1. /\ TypeOK /\ TypeOK' /\ RequestTTL \in Nat
      /\ now \in Nat /\ now' \in Nat /\ now <= now'
  BY StepTypes, StepClock, DurationAssumption DEF AccessInv, TypeOK
<1>2. ASSUME NEW id \in ReqIds, requests'[id] # None
      PROVE  requests'[id].expiresAt <= now' + RequestTTL
  <2>1. CASE requests[id] = None
    BY <1>1, <1>2, <2>1, StepAsks DEF Asked, Fresh
  <2>2. CASE requests[id] # None
    <3>1. /\ requests[id] \in Request /\ requests[id].expiresAt <= now + RequestTTL
          /\ requests'[id].expiresAt = requests[id].expiresAt
      BY <1>1, <2>2, StepKeepsRequests
      DEF AccessInv, TypeOK, RequestsKept, MayBecome, SameScope
    <3>2. requests[id].expiresAt \in Nat
      BY <3>1 DEF Request, RequestRecord
    <3>3. QED
      BY <1>1, <3>1, <3>2
  <2>3. QED
    BY <2>1, <2>2
<1>3. ASSUME NEW l \in LeaseIds, leases'[l] # None
      PROVE  leases'[l].createdAt <= now'
  <2>1. CASE LeaseKept(l)
    <3>1. leases[l] # None /\ leases[l] \in Lease
      BY <1>1, <1>3, <2>1 DEF LeaseKept, TypeOK
    <3>2. /\ leases'[l].createdAt = leases[l].createdAt
          /\ leases[l].createdAt \in Nat /\ leases[l].createdAt <= now
      BY <2>1, <3>1 DEF LeaseKept, Lease, AccessInv
    <3>3. QED
      BY <1>1, <3>2
  <2>2. ASSUME NEW id \in ReqIds, NEW ttl \in TTLs, ApproveLeaseAs(id, ttl, l)
        PROVE  leases'[l].createdAt <= now'
    BY <1>1, <2>2, ApproveLeaseEffect
  <2>3. QED
    BY <1>1, <2>1, <2>2, StepKeepsLeases DEF LeasesKept
<1>4. ASSUME NEW g \in GrantIds, grants'[g] # None
      PROVE  grants'[g].createdAt <= now'
  <2>1. CASE GrantKept(g)
    <3>1. grants[g] # None /\ grants[g] \in WorkspaceGrant
      BY <1>1, <1>4, <2>1 DEF GrantKept, TypeOK
    <3>2. /\ grants'[g].createdAt = grants[g].createdAt
          /\ grants[g].createdAt \in Nat /\ grants[g].createdAt <= now
      BY <2>1, <3>1 DEF GrantKept, WorkspaceGrant, AccessInv
    <3>3. QED
      BY <1>1, <3>2
  <2>2. ASSUME NEW id \in ReqIds, NEW ttl \in TTLs, ApproveWorkspaceAs(id, ttl, g)
        PROVE  grants'[g].createdAt <= now'
    BY <1>1, <2>2, ApproveWorkspaceEffect
  <2>3. QED
    BY <1>1, <2>1, <2>2, StepKeepsGrants DEF GrantsKept
<1>5. QED
  BY <1>1, <1>2, <1>3, <1>4 DEF AccessInv

\* What a call gets back from createRequest: a request of its session, new or joined.
LEMMA AskReturns ==
  ASSUME AccessInv, NEW r \in Request, Fresh(r), NEW id \in ReqIds, CreateRequest(r, id)
  PROVE  /\ now' = now
         /\ requests'[id] # None /\ requests'[id].session = r.session
         /\ requests'[id].expiresAt \in Nat
         /\ requests'[id].expiresAt <= now + RequestTTL
<1>1. TypeOK /\ TypeOK' /\ AccessInv' /\ now' = now
  BY AccessInvStep DEF AccessStep, AccessInv, CreateRequest
<1>2. requests'[id] # None /\ requests'[id].session = r.session
  <2>1. CASE IsDuplicate(r, id) /\ requests' = Expire(requests)
    <3>1. requests[id] # None /\ requests[id].session = r.session
      BY <2>1 DEF IsDuplicate, LivePending, IsPending
    <3>2. MayBecome(requests[id], Expire(requests)[id])
      BY <1>1, <3>1, ExpireKeeps
    <3>3. QED
      BY <2>1, <3>1, <3>2 DEF MayBecome, SameScope
  <2>2. CASE requests' = [Expire(requests) EXCEPT ![id] = r]
    BY <1>1, <2>2, ExpireType, NoneAssumption
  <2>3. QED
    BY <2>1, <2>2 DEF CreateRequest
<1>3. requests'[id] \in Request
  BY <1>1, <1>2 DEF TypeOK
<1>4. QED
  BY <1>1, <1>2, <1>3 DEF AccessInv, Request, RequestRecord

-----------------------------------------------------------------------------
(* The inductive invariant of a call.                                      *)

Points ==
  {"idle", "check", "policy", "pending", "env", "secrets", "askLease", "trust", "askTrust",
   "review", "retrust", "apiCheck", "apiAsk", "wait", "execute", "done"}

Outcomes ==
  {"refused", "expired", "rejected", "unknown", "askFailed", "leaseRequired", "cancelled",
   "unavailable", "executed", "runFailed"}

CallRecord ==
  [pc : Points, mode : {None, "strict", "workspace", "api"},
   session : Sessions \cup {None}, command : Commands \cup {None}, env : Envs \cup {None},
   tracked : SUBSET ReqIds, waitUntil : Nat \cup {None}, proposed : BOOLEAN,
   todo : SUBSET Secrets, missing : BOOLEAN, authAt : Nat \cup {None},
   outcome : Outcomes \cup {None}]

StrictPoints == {"check", "policy", "pending", "env", "secrets", "askLease"}
TrustPoints == {"trust", "askTrust", "review", "retrust"}
ApiPoints == {"apiCheck", "apiAsk"}

\* Which fields a call has at which point.
FieldsGood(c) ==
  /\ c.pc = "idle" => c = IdleCall
  /\ c.pc # "idle" => c.session \in Sessions /\ c.mode # None
  /\ c.mode \in {"strict", "api"} => c.command \in Commands
  /\ c.mode \in {"workspace", "api"} => c.env \in Envs
  /\ c.pc \in StrictPoints => c.mode = "strict"
  /\ c.pc \in TrustPoints => c.mode = "workspace"
  /\ c.pc \in ApiPoints => c.mode = "api"
  /\ c.pc = "wait" => c.mode \in {"strict", "workspace"}
  /\ c.pc \in {"secrets", "askLease"} => c.env \in Envs
  /\ c.authAt # None => c.pc \in {"execute", "done"}

\* The deadline covers every request the call depends on, and is there before it sleeps.
DeadlineGood(c) ==
  /\ c.waitUntil # None => c.waitUntil <= now + RequestTTL
  /\ \A id \in c.tracked :
       /\ requests[id] # None /\ requests[id].session = c.session
       /\ c.waitUntil # None /\ c.waitUntil <= requests[id].expiresAt
  /\ c.pc \in {"wait", "review", "retrust"} \/ c.missing => c.waitUntil # None

\* Past the lookup, the command is in the policy file.
PolicyGood(c) ==
  /\ c.pc \in {"env", "secrets", "askLease", "apiCheck", "apiAsk"} => c.command \in policy
  /\ c.authAt # None /\ c.mode # "workspace" => c.command \in policy

\* The lease or grant a run was admitted under.
BackedByGrant(c) ==
  \E g \in GrantIds :
    /\ grants[g] # None
    /\ grants[g].session = c.session
    /\ grants[g].env = c.env
    /\ grants[g].createdAt <= c.authAt
    /\ grants[g].revokedAt = None \/ c.authAt <= grants[g].revokedAt

BackedByLease(c) ==
  \E l \in LeaseIds :
    /\ leases[l] # None
    /\ leases[l].session = c.session
    /\ leases[l].env = c.env
    /\ c.command \in leases[l].commands
    /\ leases[l].createdAt <= c.authAt
    /\ c.authAt < leases[l].expiresAt
    /\ leases[l].revokedAt = None \/ c.authAt <= leases[l].revokedAt

AuthorityGood(c) ==
  c.authAt # None =>
    /\ c.authAt <= now
    /\ IF c.mode = "workspace" THEN BackedByGrant(c) ELSE RequireLeases => BackedByLease(c)

CallGood(c) == FieldsGood(c) /\ DeadlineGood(c) /\ PolicyGood(c) /\ AuthorityGood(c)

RunIInv ==
  /\ AccessInv
  /\ active \in Envs /\ policy \subseteq Commands /\ proposals \subseteq Commands
  /\ call \in [Calls -> CallRecord]
  /\ \A k \in Calls : CallGood(call[k])

-----------------------------------------------------------------------------
(* What the steps of others leave true of a call.                          *)

\* The lease or grant a run was admitted under stays; it can only be revoked later.
LEMMA LeaseStays ==
  ASSUME AccessInv, AccessStep, NEW c \in CallRecord, c.authAt \in Nat, c.authAt <= now, BackedByLease(c)
  PROVE  BackedByLease(c)'
<1>1. PICK l \in LeaseIds :
        /\ leases[l] # None
        /\ leases[l].session = c.session /\ leases[l].env = c.env
        /\ c.command \in leases[l].commands
        /\ leases[l].createdAt <= c.authAt /\ c.authAt < leases[l].expiresAt
        /\ leases[l].revokedAt = None \/ c.authAt <= leases[l].revokedAt
  BY DEF BackedByLease
<1>2. leases[l] \in Lease /\ TypeOK /\ TypeOK'
  BY <1>1, StepTypes DEF AccessInv, TypeOK
<1>3. LeaseKept(l)
  BY <1>1, <1>2, StepKeepsLeases DEF LeasesKept, ApproveLeaseAs
<1>4. \/ leases'[l] = leases[l]
      \/ leases'[l] = [leases[l] EXCEPT !.revokedAt = now]
  BY <1>3 DEF LeaseKept
<1>5. [leases[l] EXCEPT !.revokedAt = now] \in Lease
  BY <1>2 DEF Lease, TypeOK
<1>6. /\ leases'[l] # None
      /\ leases'[l].session = leases[l].session /\ leases'[l].env = leases[l].env
      /\ leases'[l].commands = leases[l].commands
      /\ leases'[l].createdAt = leases[l].createdAt /\ leases'[l].expiresAt = leases[l].expiresAt
      /\ leases'[l].revokedAt \in {leases[l].revokedAt, now}
  BY <1>1, <1>2, <1>4, <1>5, NoneAssumption DEF Lease
<1>7. QED
  BY <1>1, <1>6 DEF BackedByLease

LEMMA GrantStays ==
  ASSUME AccessInv, AccessStep, NEW c \in CallRecord, c.authAt \in Nat, c.authAt <= now, BackedByGrant(c)
  PROVE  BackedByGrant(c)'
<1>1. PICK g \in GrantIds :
        /\ grants[g] # None
        /\ grants[g].session = c.session /\ grants[g].env = c.env
        /\ grants[g].createdAt <= c.authAt
        /\ grants[g].revokedAt = None \/ c.authAt <= grants[g].revokedAt
  BY DEF BackedByGrant
<1>2. GrantKept(g)
  BY <1>1, StepKeepsGrants DEF AccessInv, GrantsKept, ApproveWorkspaceAs
<1>3. /\ grants'[g] # None
      /\ grants'[g].session = grants[g].session /\ grants'[g].env = grants[g].env
      /\ grants'[g].createdAt = grants[g].createdAt
      /\ grants'[g].revokedAt \in {grants[g].revokedAt, None, now}
  BY <1>1, <1>2 DEF GrantKept
<1>4. QED
  BY <1>1, <1>3 DEF BackedByGrant

LEMMA CallStays ==
  ASSUME RunIInv, AccessStep, policy \subseteq policy', NEW c \in CallRecord, CallGood(c)
  PROVE  CallGood(c)'
<1>1. /\ AccessInv /\ TypeOK /\ TypeOK' /\ RequestTTL \in Nat
      /\ now \in Nat /\ now' \in Nat /\ now <= now'
  BY StepTypes, StepClock, DurationAssumption DEF RunIInv, AccessInv, TypeOK
<1>2. FieldsGood(c)'
  BY DEF CallGood, FieldsGood
<1>3. DeadlineGood(c)'
  <2>1. c.waitUntil # None => c.waitUntil \in Nat /\ c.waitUntil <= now + RequestTTL
    BY DEF CallGood, DeadlineGood, CallRecord
  <2>2. ASSUME NEW id \in c.tracked
        PROVE  /\ requests'[id] # None /\ requests'[id].session = c.session
               /\ c.waitUntil # None /\ c.waitUntil <= requests'[id].expiresAt
    <3>1. /\ id \in ReqIds /\ requests[id] # None /\ requests[id].session = c.session
          /\ c.waitUntil # None /\ c.waitUntil <= requests[id].expiresAt
      BY DEF CallGood, DeadlineGood, CallRecord
    <3>2. MayBecome(requests[id], requests'[id])
      BY <1>1, <3>1, StepKeepsRequests DEF RequestsKept
    <3>3. QED
      BY <3>1, <3>2 DEF MayBecome, SameScope
  <2>3. c.waitUntil # None => c.waitUntil <= now' + RequestTTL
    BY <1>1, <2>1
  <2>4. QED
    BY <2>2, <2>3 DEF CallGood, DeadlineGood
<1>4. PolicyGood(c)'
  BY DEF CallGood, PolicyGood
<1>5. AuthorityGood(c)'
  <2> SUFFICES ASSUME c.authAt # None
               PROVE  /\ c.authAt <= now'
                      /\ IF c.mode = "workspace" THEN BackedByGrant(c)'
                         ELSE RequireLeases => BackedByLease(c)'
    BY DEF AuthorityGood
  <2>1. c.authAt \in Nat /\ c.authAt <= now
    BY DEF CallGood, AuthorityGood, CallRecord
  <2>2. c.authAt <= now'
    BY <1>1, <2>1
  <2>3. QED
    BY <1>1, <2>1, <2>2, LeaseStays, GrantStays DEF CallGood, AuthorityGood
<1>6. QED
  BY <1>2, <1>3, <1>4, <1>5 DEF CallGood

\* The rest of the invariant over any step.
LEMMA OthersStay ==
  ASSUME RunIInv, AccessStep, active' \in Envs, policy' \subseteq Commands,
         proposals' \subseteq Commands, policy \subseteq policy', UNCHANGED call
  PROVE  RunIInv'
<1>1. AccessInv'
  BY AccessInvStep DEF RunIInv
<1>2. \A k \in Calls : CallGood(call[k])'
  BY CallStays DEF RunIInv
<1>3. QED
  BY <1>1, <1>2 DEF RunIInv, CallGood

\* A step of one call.
LEMMA OneCall ==
  ASSUME RunIInv, AccessStep, Asking, NEW k \in Calls, NEW d \in CallRecord,
         call' = [call EXCEPT ![k] = d], CallGood(d)'
  PROVE  RunIInv'
<1>1. AccessInv'
  BY AccessInvStep DEF RunIInv
<1>2. ASSUME NEW j \in Calls PROVE \E c \in CallRecord : c = call'[j] /\ CallGood(c)'
  <2>1. CASE j = k
    BY <2>1 DEF RunIInv
  <2>2. CASE j # k
    <3>1. PICK c \in CallRecord : c = call[j] /\ CallGood(c)
      BY DEF RunIInv
    <3>2. CallGood(c)'
      BY <3>1, CallStays DEF Asking
    <3>3. QED
      BY <2>2, <3>1, <3>2 DEF RunIInv
  <2>3. QED
    BY <2>1, <2>2
<1>3. ASSUME NEW j \in Calls PROVE CallGood(call[j])'
  <2>1. PICK c \in CallRecord : c = call'[j] /\ CallGood(c)'
    BY <1>2
  <2>2. QED
    BY <2>1 DEF CallGood, FieldsGood, DeadlineGood, PolicyGood, AuthorityGood, BackedByGrant,
                BackedByLease
<1>4. call' \in [Calls -> CallRecord]
  BY DEF RunIInv
<1>5. QED
  BY <1>1, <1>3, <1>4 DEF RunIInv, Asking

LEMMA GoodMove ==
  ASSUME RunIInv, AccessStep, Asking, NEW k \in Calls, NEW d \in CallRecord,
         call' = [call EXCEPT ![k] = d], CallGood(d)
  PROVE  RunIInv'
BY CallStays, OneCall DEF Asking

\* A call that only reads is a step of Access in which nothing happens.
LEMMA ReadingIsAsking == RunIInv /\ Reading => AccessStep /\ Asking
BY DEF Reading, Asking, vars, AccessStep, RunIInv, AccessInv, TypeOK

-----------------------------------------------------------------------------
(* The steps of a call, by what they change.                               *)

\* Everything the invariant mentions but the program point.
SameBut(c, d) ==
  /\ d.mode = c.mode /\ d.session = c.session /\ d.command = c.command /\ d.env = c.env
  /\ d.tracked = c.tracked /\ d.waitUntil = c.waitUntil /\ d.missing = c.missing
  /\ d.authAt = c.authAt

\* The points c may move to.
MayGo(c, p) ==
  /\ p \in StrictPoints => c.mode = "strict"
  /\ p \in TrustPoints => c.mode = "workspace"
  /\ p \in ApiPoints => c.mode = "api"
  /\ p = "wait" => c.mode \in {"strict", "workspace"}
  /\ p \in {"secrets", "askLease"} => c.env \in Envs
  /\ c.authAt # None => p \in {"execute", "done"}
  /\ p \in {"wait", "review", "retrust"} => c.waitUntil # None
  /\ p \in {"env", "secrets", "askLease", "apiCheck", "apiAsk"} => c.command \in policy

LEMMA MoveGood ==
  ASSUME NEW c \in CallRecord, CallGood(c), c.pc # "idle",
         NEW d \in CallRecord, SameBut(c, d), d.pc # "idle", MayGo(c, d.pc)
  PROVE  CallGood(d)
<1>1. FieldsGood(d)
  BY DEF CallGood, FieldsGood, SameBut, MayGo
<1>2. DeadlineGood(d)
  BY DEF CallGood, DeadlineGood, SameBut, MayGo
<1>3. PolicyGood(d)
  BY DEF CallGood, PolicyGood, SameBut, MayGo
<1>4. AuthorityGood(d)
  BY DEF CallGood, AuthorityGood, BackedByGrant, BackedByLease, SameBut
<1>5. QED
  BY <1>1, <1>2, <1>3, <1>4 DEF CallGood

LEMMA GotoStep ==
  ASSUME RunIInv, Reading, NEW k \in Calls, call[k].pc # "idle", NEW p \in Points \ {"idle"},
         Goto(k, p), MayGo(call[k], p)
  PROVE  RunIInv'
<1>1. PICK c \in CallRecord : c = call[k] /\ CallGood(c)
  BY DEF RunIInv
<1>2. PICK d \in CallRecord : d = [c EXCEPT !.pc = p]
  BY <1>1, ZenonT(60) DEF CallRecord
<1>3. SameBut(c, d) /\ d.pc = p
  BY <1>1, <1>2 DEF CallRecord, SameBut
<1>4. call' = [call EXCEPT ![k] = d]
  BY <1>1, <1>2 DEF Goto
<1>5. CallGood(d)
  BY <1>1, <1>3, MoveGood
<1>6. QED
  BY <1>4, <1>5, ReadingIsAsking, GoodMove

LEMMA EndStep ==
  ASSUME RunIInv, AccessStep, Asking, NEW k \in Calls, call[k].pc # "idle",
         NEW outcome \in Outcomes, End(k, outcome)
  PROVE  RunIInv'
<1>1. PICK c \in CallRecord : c = call[k] /\ CallGood(c)
  BY DEF RunIInv
<1>2. PICK d \in CallRecord : d = [[c EXCEPT !.pc = "done"] EXCEPT !.outcome = outcome]
  <2>1. "done" \in Points
    BY DEF Points
  <2>2. [[c EXCEPT !.pc = "done"] EXCEPT !.outcome = outcome] \in CallRecord
    BY <2>1 DEF CallRecord
  <2>3. QED
    BY <2>2
<1>3. SameBut(c, d) /\ d.pc = "done"
  BY <1>1, <1>2 DEF CallRecord, SameBut
<1>4. call' = [call EXCEPT ![k] = d]
  BY <1>1, <1>2 DEF End
<1>5. MayGo(c, d.pc)
  BY <1>3 DEF MayGo, StrictPoints, TrustPoints, ApiPoints
<1>6. CallGood(d)
  BY <1>1, <1>3, <1>5, MoveGood
<1>7. QED
  BY <1>4, <1>6, GoodMove

LEMMA AdmitStep ==
  ASSUME RunIInv, Reading, NEW k \in Calls, call[k].pc \notin {"idle", "execute", "done"}, Admit(k),
         call[k].mode # "workspace" => call[k].command \in policy /\ LeaseHeld(k),
         call[k].mode = "workspace" => TrustHeld(k)
  PROVE  RunIInv'
<1>1. PICK c \in CallRecord : c = call[k] /\ CallGood(c)
  BY DEF RunIInv
<1>2. now \in Nat
  BY DEF RunIInv, AccessInv, TypeOK
<1>3. PICK d \in CallRecord : d = [[c EXCEPT !.pc = "execute"] EXCEPT !.authAt = now]
  <2>1. "execute" \in Points
    BY DEF Points
  <2>2. [[c EXCEPT !.pc = "execute"] EXCEPT !.authAt = now] \in CallRecord
    BY <1>2, <2>1 DEF CallRecord
  <2>3. QED
    BY <2>2
<1>4. /\ d.pc = "execute" /\ d.authAt = now
      /\ d.mode = c.mode /\ d.session = c.session /\ d.command = c.command /\ d.env = c.env
      /\ d.tracked = c.tracked /\ d.waitUntil = c.waitUntil /\ d.missing = c.missing
  BY <1>3 DEF CallRecord
<1>5. call' = [call EXCEPT ![k] = d]
  BY <1>1, <1>3 DEF Admit
<1>6. FieldsGood(d)
  BY <1>1, <1>4 DEF CallGood, FieldsGood, StrictPoints, TrustPoints, ApiPoints
<1>7. DeadlineGood(d)
  BY <1>1, <1>4 DEF CallGood, DeadlineGood
<1>8. PolicyGood(d)
  BY <1>1, <1>4 DEF PolicyGood
<1>9. AuthorityGood(d)
  <2>1. CASE d.mode = "workspace"
    <3>1. PICK g \in GrantIds : /\ ActiveGrant(grants[g])
                                /\ grants[g].session = d.session /\ grants[g].env = d.env
      BY <1>1, <1>4, <2>1 DEF TrustHeld, AuthorizeWorkspace
    <3>2. grants[g] # None /\ grants[g].revokedAt = None /\ grants[g].createdAt <= now
      BY <3>1 DEF ActiveGrant, RunIInv, AccessInv
    <3>3. BackedByGrant(d)
      BY <1>4, <3>1, <3>2 DEF BackedByGrant
    <3>4. QED
      BY <1>2, <1>4, <2>1, <3>3 DEF AuthorityGood
  <2>2. CASE d.mode # "workspace" /\ RequireLeases
    <3>1. PICK l \in LeaseIds : /\ ActiveLease(leases[l])
                                /\ leases[l].session = d.session /\ leases[l].env = d.env
                                /\ d.command \in leases[l].commands
      BY <1>1, <1>4, <2>2 DEF LeaseHeld, Authorize
    <3>2. /\ leases[l] # None /\ leases[l].revokedAt = None /\ leases[l].createdAt <= now
          /\ now < leases[l].expiresAt
      BY <3>1 DEF ActiveLease, RunIInv, AccessInv
    <3>3. BackedByLease(d)
      BY <1>4, <3>1, <3>2 DEF BackedByLease
    <3>4. QED
      BY <1>2, <1>4, <2>2, <3>3 DEF AuthorityGood
  <2>3. CASE d.mode # "workspace" /\ ~RequireLeases
    BY <1>2, <1>4, <2>3 DEF AuthorityGood
  <2>4. QED
    BY <2>1, <2>2, <2>3
<1>10. CallGood(d)
  BY <1>6, <1>7, <1>8, <1>9 DEF CallGood
<1>11. QED
  BY <1>5, <1>10, ReadingIsAsking, GoodMove

\* A call that has asked depends on one request more, and waits no longer than it lives.
LEMMA AskGood ==
  ASSUME RunIInv, Asking, NEW c \in CallRecord, CallGood(c), c.authAt = None,
         NEW r \in Request, Fresh(r), r.session = c.session,
         NEW id \in ReqIds, CreateRequest(r, id),
         NEW d \in CallRecord, FieldsGood(d), PolicyGood(d), d.session = c.session,
         d.authAt = None, d.tracked = c.tracked \cup {id},
         d.waitUntil = Earlier(c.waitUntil, requests'[id].expiresAt)
  PROVE  CallGood(d)'
<1> DEFINE lapse == requests'[id].expiresAt
<1>1. /\ AccessInv /\ TypeOK /\ TypeOK' /\ now' = now
      /\ now \in Nat /\ RequestTTL \in Nat
      /\ requests'[id] # None /\ requests'[id].session = r.session
      /\ lapse \in Nat /\ lapse <= now + RequestTTL
  <2>1. AccessInv
    BY DEF RunIInv
  <2>2. QED
    BY <2>1, AskReturns, CreateRequestType, DurationAssumption DEF AccessInv, TypeOK
<1>2. RequestsKept
  BY <1>1, CreateKeeps
<1>3. /\ d.waitUntil \in Nat /\ d.waitUntil # None
      /\ d.waitUntil <= lapse /\ d.waitUntil <= now' + RequestTTL
      /\ c.waitUntil # None => c.waitUntil \in Nat /\ d.waitUntil <= c.waitUntil
  <2>1. c.waitUntil # None => c.waitUntil \in Nat /\ c.waitUntil <= now + RequestTTL
    BY DEF CallRecord, CallGood, DeadlineGood
  <2> HIDE DEF lapse
  <2>2. d.waitUntil = IF c.waitUntil = None \/ lapse < c.waitUntil THEN lapse ELSE c.waitUntil
    BY DEF Earlier, lapse
  <2>3. QED
    BY <1>1, <2>1, <2>2, NoneAssumption
<1>4. ASSUME NEW j \in d.tracked
      PROVE  /\ requests'[j] # None /\ requests'[j].session = d.session
             /\ d.waitUntil <= requests'[j].expiresAt
  <2>1. CASE j = id
    BY <1>1, <1>3, <2>1
  <2>2. CASE j \in c.tracked
    <3>1. /\ j \in ReqIds /\ requests[j] # None /\ requests[j].session = c.session
          /\ c.waitUntil # None /\ c.waitUntil <= requests[j].expiresAt
      BY <2>2 DEF CallRecord, CallGood, DeadlineGood
    <3>2. /\ requests'[j] # None /\ requests'[j].session = requests[j].session
          /\ requests'[j].expiresAt = requests[j].expiresAt
      BY <1>2, <3>1 DEF RequestsKept, MayBecome, SameScope
    <3>3. requests[j].expiresAt \in Nat
      BY <1>1, <3>1 DEF TypeOK, Request, RequestRecord
    <3>4. QED
      BY <1>3, <3>1, <3>2, <3>3
  <2>3. QED
    BY <2>1, <2>2
<1>5. DeadlineGood(d)'
  BY <1>3, <1>4 DEF DeadlineGood
<1>6. FieldsGood(d)' /\ PolicyGood(d)' /\ AuthorityGood(d)'
  BY DEF Asking, FieldsGood, PolicyGood, AuthorityGood
<1>7. QED
  BY <1>5, <1>6 DEF CallGood

-----------------------------------------------------------------------------
(* Every step.                                                             *)

LEMMA GotoSteps ==
  ASSUME RunIInv, NEW k \in Calls,
         \/ KeepPolling(k) \/ LookupPolicy(k) \/ LeaseMissing(k) \/ TrustMissing(k)
         \/ ReviewOpen(k) \/ ApiRefused(k) \/ Poll(k)
         \/ At(k, "secrets") /\ call[k].missing /\ Goto(k, "wait") /\ Reading
         \/ At(k, "retrust") /\ Goto(k, "wait") /\ Reading
  PROVE  RunIInv'
<1>1. PICK c \in CallRecord : c = call[k] /\ CallGood(c)
  BY DEF RunIInv
<1>2. ASSUME NEW p \in Points \ {"idle"}, Goto(k, p), Reading, c.pc # "idle", MayGo(c, p)
      PROVE  RunIInv'
  BY <1>1, <1>2, GotoStep
<1> USE DEF At, MayGo, Points, StrictPoints, TrustPoints, ApiPoints
<1>3. CASE KeepPolling(k)
  BY <1>1, <1>2, <1>3 DEF KeepPolling, CallGood, FieldsGood
<1>4. CASE LookupPolicy(k)
  <2>1. CASE c.command \in policy
    BY <1>1, <1>2, <1>4, <2>1 DEF LookupPolicy, CallGood, FieldsGood
  <2>2. CASE c.command \notin policy
    BY <1>1, <1>2, <1>4, <2>2 DEF LookupPolicy, CallGood, FieldsGood
  <2>3. QED
    BY <2>1, <2>2
<1>5. CASE LeaseMissing(k)
  BY <1>1, <1>2, <1>5 DEF LeaseMissing, CallGood, FieldsGood, PolicyGood
<1>6. CASE TrustMissing(k)
  BY <1>1, <1>2, <1>6 DEF TrustMissing, CallGood, FieldsGood
<1>7. CASE ReviewOpen(k)
  BY <1>1, <1>2, <1>7 DEF ReviewOpen, CallGood, FieldsGood, DeadlineGood
<1>8. CASE ApiRefused(k)
  BY <1>1, <1>2, <1>8 DEF ApiRefused, CallGood, FieldsGood, PolicyGood
<1>9. CASE Poll(k)
  <2>1. CASE c.mode = "strict"
    BY <1>1, <1>2, <1>9, <2>1 DEF Poll, CallGood, FieldsGood
  <2>2. CASE c.mode # "strict"
    BY <1>1, <1>2, <1>9, <2>2 DEF Poll, CallGood, FieldsGood, DeadlineGood
  <2>3. QED
    BY <2>1, <2>2
<1>10. CASE At(k, "secrets") /\ call[k].missing /\ Goto(k, "wait") /\ Reading
  BY <1>1, <1>2, <1>10 DEF CallGood, FieldsGood, DeadlineGood
<1>11. CASE At(k, "retrust") /\ Goto(k, "wait") /\ Reading
  BY <1>1, <1>2, <1>11 DEF CallGood, FieldsGood, DeadlineGood
<1>12. QED
  BY <1>3, <1>4, <1>5, <1>6, <1>7, <1>8, <1>9, <1>10, <1>11

LEMMA EndSteps ==
  ASSUME RunIInv, NEW k \in Calls,
         \/ TrackedRefused(k) \/ DeadlinePassed(k) \/ ProposalGone(k)
         \/ \E x \in Secrets : SecretRequestFails(k, x)
         \/ AskLeaseFails(k) \/ AskTrustFails(k) \/ ReviewRefused(k)
         \/ At(k, "retrust") /\ End(k, "expired") /\ Reading
         \/ Cancel(k) \/ ReadFails(k) \/ Execute(k)
  PROVE  RunIInv'
<1>1. Reading /\ call[k].pc # "idle"
  BY DEF TrackedRefused, DeadlinePassed, ProposalGone, SecretRequestFails, AskLeaseFails,
         AskTrustFails, ReviewRefused, Cancel, ReadFails, Execute, At
<1>2. \E outcome \in Outcomes : End(k, outcome)
  BY DEF TrackedRefused, DeadlinePassed, ProposalGone, SecretRequestFails, AskLeaseFails,
         AskTrustFails, ReviewRefused, Cancel, ReadFails, Execute, Outcomes
<1>3. QED
  BY <1>1, <1>2, EndStep, ReadingIsAsking

LEMMA AdmitSteps ==
  ASSUME RunIInv, NEW k \in Calls,
         \/ At(k, "secrets") /\ LeaseHeld(k) /\ Admit(k) /\ Reading
         \/ TrustReady(k) \/ TrustGranted(k) \/ ApiReady(k)
  PROVE  RunIInv'
<1>1. Reading /\ Admit(k) /\ call[k].pc \notin {"idle", "execute", "done"}
  BY DEF TrustReady, TrustGranted, ApiReady, At
<1>2. CallGood(call[k])
  BY DEF RunIInv
<1>3. /\ call[k].mode # "workspace" => call[k].command \in policy /\ LeaseHeld(k)
      /\ call[k].mode = "workspace" => TrustHeld(k)
  BY <1>2 DEF TrustReady, TrustGranted, ApiReady, At, CallGood, FieldsGood, PolicyGood,
              StrictPoints, TrustPoints, ApiPoints
<1>4. QED
  BY <1>1, <1>3, AdmitStep

\* The requests a call files are as the Create*Request methods build them.
LEMMA AsksAreFresh ==
  ASSUME RunIInv, NEW k \in Calls, call[k].session \in Sessions
  PROVE  /\ call[k].env \in Envs /\ call[k].command \in Commands =>
              /\ \A x \in Secrets : Fresh(SecretAsk(k, x))
              /\ \A ttl \in Nat : Fresh(LeaseAsk(k, ttl))
         /\ call[k].env \in Envs => Fresh(TrustAsk(k))
         /\ \A x \in Secrets : SecretAsk(k, x).session = call[k].session
         /\ \A ttl \in Nat : LeaseAsk(k, ttl).session = call[k].session
         /\ TrustAsk(k).session = call[k].session
<1>1. TypeOK /\ DefaultWorkspaceTTL \in Nat
  BY DurationAssumption DEF RunIInv, AccessInv
<1>2. call[k].command \in Commands => {call[k].command} \in SUBSET Commands
  OBVIOUS
<1>3. call[k].env \in Envs /\ call[k].command \in Commands =>
        /\ \A x \in Secrets : Fresh(SecretAsk(k, x))
        /\ \A ttl \in Nat : Fresh(LeaseAsk(k, ttl))
  BY <1>1, <1>2, CandidateFresh DEF SecretAsk, LeaseAsk
<1>4. call[k].env \in Envs => Fresh(TrustAsk(k))
  BY <1>1, CandidateFresh DEF TrustAsk
<1>5. QED
  BY <1>3, <1>4
  DEF SecretAsk, LeaseAsk, TrustAsk, SecretCandidate, LeaseCandidate, WorkspaceCandidate, NewRequest

\* Filing a request moves nothing but access.json and the call.
LEMMA AskIsStep ==
  ASSUME RunIInv, NEW r, Fresh(r), NEW id \in ReqIds, CreateRequest(r, id)
  PROVE  /\ AccessStep /\ r \in Request
         /\ requests'[id].expiresAt \in Nat
         /\ \A t \in Nat \cup {None} : Earlier(t, requests'[id].expiresAt) \in Nat
<1>1. r \in Request
  BY DEF Fresh
<1>2. AccessStep
  BY <1>1 DEF AccessStep
<1>3. requests'[id].expiresAt \in Nat
  BY <1>1, AskReturns DEF RunIInv
<1>4. QED
  BY <1>1, <1>2, <1>3 DEF Earlier

\* A call that asks for a capability and then waits for it.
LEMMA TrackStep ==
  ASSUME RunIInv, Asking, NEW k \in Calls, NEW r, Fresh(r), r.session = call[k].session,
         NEW id \in ReqIds, CreateRequest(r, id), NEW p \in {"wait", "retrust"}, Track(k, id, p),
         call[k].pc \in {"askLease", "askTrust"}, p = "retrust" => call[k].mode = "workspace"
  PROVE  RunIInv'
<1>1. PICK c \in CallRecord : c = call[k] /\ CallGood(c)
  BY DEF RunIInv
<1>2. PICK wait \in Nat : wait = Earlier(c.waitUntil, requests'[id].expiresAt)
  BY AskIsStep DEF CallRecord
<1>3. PICK d \in CallRecord :
        d = [[[c EXCEPT !.pc = p] EXCEPT !.tracked = c.tracked \cup {id}] EXCEPT !.waitUntil = wait]
  <2>1. p \in Points /\ wait \in Nat \cup {None}
    BY DEF Points
  <2>2. c.tracked \cup {id} \in SUBSET ReqIds
    BY DEF CallRecord
  <2>3. [[[c EXCEPT !.pc = p] EXCEPT !.tracked = c.tracked \cup {id}] EXCEPT !.waitUntil = wait]
          \in CallRecord
    BY <2>1, <2>2 DEF CallRecord
  <2>4. QED
    BY <2>3
<1>4. /\ d.pc = p /\ d.tracked = c.tracked \cup {id} /\ d.waitUntil = wait
      /\ d.mode = c.mode /\ d.session = c.session /\ d.command = c.command /\ d.env = c.env
      /\ d.authAt = c.authAt
  BY <1>3 DEF CallRecord
<1>5. call' = [call EXCEPT ![k] = d]
  <2>1. call' = [call EXCEPT ![k] =
          [[[c EXCEPT !.pc = p] EXCEPT !.tracked = c.tracked \cup {id}] EXCEPT !.waitUntil = wait]]
    BY <1>1, <1>2 DEF Track, CallRecord, RunIInv
  <2>2. QED
    BY <1>3, <2>1
<1>6. FieldsGood(d) /\ PolicyGood(d) /\ c.authAt = None
  BY <1>1, <1>4 DEF CallGood, FieldsGood, PolicyGood, StrictPoints, TrustPoints, ApiPoints
<1>7. AccessStep /\ r \in Request
  BY AskIsStep
<1>8. CallGood(d)'
  BY <1>1, <1>2, <1>4, <1>6, <1>7, AskGood
<1>9. QED
  BY <1>5, <1>7, <1>8, OneCall

\* requestMissingSecrets asks for one secret and goes on to the next.
LEMMA SecretStep ==
  ASSUME RunIInv, NEW k \in Calls, NEW x \in Secrets, NEW id \in ReqIds, SecretMissing(k, x, id)
  PROVE  RunIInv'
<1>1. PICK c \in CallRecord : c = call[k] /\ CallGood(c)
  BY DEF RunIInv
<1>2. c.pc = "secrets" /\ c.session \in Sessions /\ c.env \in Envs /\ c.command \in Commands
  BY <1>1 DEF SecretMissing, At, CallGood, FieldsGood, StrictPoints
<1>3. Fresh(SecretAsk(k, x)) /\ SecretAsk(k, x).session = c.session
  BY <1>1, <1>2, AsksAreFresh
<1>4. AccessStep /\ SecretAsk(k, x) \in Request /\ Asking /\ CreateRequest(SecretAsk(k, x), id)
  BY <1>3, AskIsStep DEF SecretMissing
<1>5. PICK wait \in Nat : wait = Earlier(c.waitUntil, requests'[id].expiresAt)
  BY <1>3, <1>4, AskIsStep DEF CallRecord
<1> DEFINE new == [[[[c EXCEPT !.todo = c.todo \ {x}] EXCEPT !.missing = TRUE]
                       EXCEPT !.tracked = c.tracked \cup {id}] EXCEPT !.waitUntil = wait]
<1>6. PICK d \in CallRecord : d = new
  <2>1. c.tracked \cup {id} \in SUBSET ReqIds /\ c.todo \ {x} \in SUBSET Secrets
    BY DEF CallRecord
  <2>2. new \in CallRecord
    BY <2>1 DEF CallRecord
  <2>3. QED
    BY <2>2
<1>7. /\ d.pc = c.pc /\ d.tracked = c.tracked \cup {id} /\ d.waitUntil = wait
      /\ d.mode = c.mode /\ d.session = c.session /\ d.command = c.command /\ d.env = c.env
      /\ d.authAt = c.authAt
  BY <1>6 DEF CallRecord
<1>8. call' = [call EXCEPT ![k] = d]
  <2>1. call' = [call EXCEPT ![k] = new]
    BY <1>1, <1>5 DEF SecretMissing, CallRecord, RunIInv
  <2>2. QED
    BY <1>6, <2>1
<1> HIDE DEF new
<1>9. FieldsGood(d) /\ PolicyGood(d) /\ c.authAt = None
  BY <1>1, <1>2, <1>7 DEF CallGood, FieldsGood, PolicyGood, StrictPoints, TrustPoints, ApiPoints
<1>10. CallGood(d)'
  BY <1>1, <1>3, <1>4, <1>5, <1>7, <1>9, AskGood
<1>11. QED
  BY <1>4, <1>8, <1>10, OneCall

\* The questions a waiting call asks.
LEMMA AskSteps ==
  ASSUME RunIInv, NEW k \in Calls, NEW id \in ReqIds, AskLease(k, id) \/ AskTrust(k, id)
  PROVE  RunIInv'
<1>1. call[k] \in CallRecord /\ CallGood(call[k]) /\ call[k].session \in Sessions
  BY DEF RunIInv, AskLease, AskTrust, At, CallGood, FieldsGood
<1>2. CASE AskLease(k, id)
  <2>1. /\ call[k].pc = "askLease" /\ call[k].env \in Envs /\ call[k].command \in Commands
    BY <1>1, <1>2 DEF AskLease, At, CallGood, FieldsGood, StrictPoints
  <2>2. Fresh(LeaseAsk(k, DefaultLeaseTTL)) /\ LeaseAsk(k, DefaultLeaseTTL).session = call[k].session
    BY <1>1, <2>1, AsksAreFresh, DurationAssumption
  <2>3. QED
    BY <1>2, <2>1, <2>2, TrackStep DEF AskLease
<1>3. CASE AskTrust(k, id)
  <2>1. call[k].pc = "askTrust" /\ call[k].env \in Envs /\ call[k].mode = "workspace"
    BY <1>1, <1>3 DEF AskTrust, At, CallGood, FieldsGood, TrustPoints
  <2>2. Fresh(TrustAsk(k)) /\ TrustAsk(k).session = call[k].session
    BY <1>1, <2>1, AsksAreFresh
  <2>3. QED
    BY <1>3, <2>1, <2>2, TrackStep DEF AskTrust
<1>4. QED
  BY <1>2, <1>3

\* POST /v1/run asks for a lease and answers at once.
LEMMA ApiAskStep ==
  ASSUME RunIInv, NEW k \in Calls, ApiAsk(k)
  PROVE  RunIInv'
<1>1. CallGood(call[k]) /\ call[k].pc = "apiAsk" /\ End(k, "leaseRequired")
  BY DEF RunIInv, ApiAsk, At
<1>2. call[k].session \in Sessions /\ call[k].env \in Envs /\ call[k].command \in Commands
  BY <1>1 DEF CallGood, FieldsGood, ApiPoints
<1>3. Fresh(LeaseAsk(k, RequestTTL))
  BY <1>2, AsksAreFresh, DurationAssumption
<1>4. AccessStep /\ Asking
  BY <1>3, AskIsStep, ReadingIsAsking DEF ApiAsk
<1>5. QED
  BY <1>1, <1>4, EndStep DEF Outcomes

\* A call begins with what the agent sent, for the environment of that moment.
LEMMA BeginSteps ==
  ASSUME RunIInv, NEW k \in Calls, NEW s \in Sessions, StartCall(k, s)
  PROVE  RunIInv'
<1>1. PICK mode \in {"strict", "workspace", "api"}, c \in Commands \cup {None},
           e \in Envs \cup {None}, pc \in {"check", "trust", "apiCheck"} :
        /\ Begin(k, mode, s, c, e, pc)
        /\ mode \in {"strict", "api"} => c \in Commands
        /\ mode \in {"workspace", "api"} => e \in Envs
        /\ pc = "check" => mode = "strict"
        /\ pc = "trust" => mode = "workspace"
        /\ pc = "apiCheck" => mode = "api" /\ c \in policy
  <2>1. active \in Envs
    BY DEF RunIInv
  <2>2. CASE \E c \in Commands : StartStrict(k, s, c)
    BY <2>2 DEF StartStrict
  <2>3. CASE StartWorkspace(k, s)
    BY <2>1, <2>3 DEF StartWorkspace
  <2>4. ASSUME NEW c \in Commands, NEW e \in Envs \cup {None}, StartApi(k, s, c, e)
        PROVE  \E f \in Envs : Begin(k, "api", s, c, f, "apiCheck") /\ c \in policy
    BY <2>1, <2>4 DEF StartApi
  <2>5. QED
    BY <2>2, <2>3, <2>4 DEF StartCall
<1>2. call[k] = IdleCall /\ Reading
  BY <1>1 DEF Begin, At, RunIInv, CallGood, FieldsGood
<1> DEFINE new == [[[[[IdleCall EXCEPT !.pc = pc] EXCEPT !.mode = mode] EXCEPT !.session = s]
                       EXCEPT !.command = c] EXCEPT !.env = e]
<1>3. /\ new.pc = pc /\ new.mode = mode /\ new.session = s /\ new.command = c /\ new.env = e
      /\ new.tracked = {} /\ new.waitUntil = None /\ ~new.missing /\ new.authAt = None
  BY DEF IdleCall
<1>4. new \in CallRecord
  BY DEF IdleCall, CallRecord, Points, Outcomes
<1>5. call' = [call EXCEPT ![k] = new]
  BY <1>1, <1>2 DEF Begin, IdleCall, RunIInv
<1> HIDE DEF new
<1>6. FieldsGood(new)
  BY <1>1, <1>3, RunAssumption DEF FieldsGood, StrictPoints, TrustPoints, ApiPoints
<1>7. DeadlineGood(new)
  BY <1>1, <1>3 DEF DeadlineGood
<1>8. PolicyGood(new) /\ AuthorityGood(new)
  BY <1>1, <1>3 DEF PolicyGood, AuthorityGood
<1>9. QED
  BY <1>2, <1>4, <1>5, <1>6, <1>7, <1>8, ReadingIsAsking, GoodMove DEF CallGood

\* A call that waits for the review of a proposal gives it RequestTTL.
LEMMA AwaitStep ==
  ASSUME RunIInv, NEW k \in Calls, AwaitProposal(k)
  PROVE  RunIInv'
<1>1. PICK c \in CallRecord : c = call[k] /\ CallGood(c)
  BY DEF RunIInv
<1>2. c.pc = "pending" /\ Reading /\ now \in Nat /\ RequestTTL \in Nat
  BY <1>1, DurationAssumption DEF AwaitProposal, At, RunIInv, AccessInv, TypeOK
<1>3. PICK wait \in Nat : /\ wait = IF c.waitUntil = None THEN now + RequestTTL ELSE c.waitUntil
                          /\ wait <= now + RequestTTL
  BY <1>1, <1>2 DEF CallRecord, CallGood, DeadlineGood
<1> DEFINE new == [[[c EXCEPT !.pc = "wait"] EXCEPT !.proposed = TRUE] EXCEPT !.waitUntil = wait]
<1>4. /\ new.pc = "wait" /\ new.tracked = c.tracked /\ new.waitUntil = wait
      /\ new.mode = c.mode /\ new.session = c.session /\ new.command = c.command
      /\ new.env = c.env /\ new.missing = c.missing /\ new.authAt = c.authAt
  BY DEF CallRecord
<1>5. new \in CallRecord
  BY DEF CallRecord, Points
<1>6. call' = [call EXCEPT ![k] = new]
  BY <1>1, <1>3 DEF AwaitProposal, CallRecord, RunIInv
<1> HIDE DEF new
<1>7. FieldsGood(new)
  BY <1>1, <1>2, <1>4 DEF CallGood, FieldsGood, StrictPoints, TrustPoints, ApiPoints
<1>8. DeadlineGood(new)
  BY <1>1, <1>3, <1>4, NoneAssumption DEF CallGood, DeadlineGood
<1>9. PolicyGood(new) /\ AuthorityGood(new)
  BY <1>1, <1>2, <1>4 DEF CallGood, FieldsGood, PolicyGood, AuthorityGood
<1>10. QED
  BY <1>2, <1>5, <1>6, <1>7, <1>8, <1>9, ReadingIsAsking, GoodMove DEF CallGood

\* Each iteration pins the environment that is active now.
LEMMA ResolveStep ==
  ASSUME RunIInv, NEW k \in Calls, ResolveEnvironment(k)
  PROVE  RunIInv'
<1>1. PICK c \in CallRecord : c = call[k] /\ CallGood(c)
  BY DEF RunIInv
<1>2. c.pc = "env" /\ Reading /\ active \in Envs
  BY <1>1 DEF ResolveEnvironment, At, RunIInv
<1>3. c.mode = "strict" /\ c.command \in Commands /\ Needs[c.command] \in SUBSET Secrets
  BY <1>1, <1>2, RunAssumption DEF CallGood, FieldsGood, StrictPoints
<1> DEFINE new == [[[[c EXCEPT !.pc = "secrets"] EXCEPT !.env = active]
                       EXCEPT !.todo = Needs[c.command]] EXCEPT !.missing = FALSE]
<1>4. /\ new.pc = "secrets" /\ new.tracked = c.tracked /\ new.waitUntil = c.waitUntil
      /\ new.mode = c.mode /\ new.session = c.session /\ new.command = c.command
      /\ new.env = active /\ ~new.missing /\ new.authAt = c.authAt
  BY DEF CallRecord
<1>5. new \in CallRecord
  BY <1>2, <1>3 DEF CallRecord, Points
<1>6. call' = [call EXCEPT ![k] = new]
  BY <1>1 DEF ResolveEnvironment, CallRecord, RunIInv
<1> HIDE DEF new
<1>7. FieldsGood(new)
  BY <1>1, <1>2, <1>3, <1>4 DEF CallGood, FieldsGood, StrictPoints, TrustPoints, ApiPoints
<1>8. DeadlineGood(new)
  BY <1>1, <1>2, <1>4 DEF CallGood, DeadlineGood
<1>9. PolicyGood(new) /\ AuthorityGood(new)
  BY <1>1, <1>2, <1>4 DEF CallGood, FieldsGood, PolicyGood, AuthorityGood
<1>10. QED
  BY <1>2, <1>5, <1>6, <1>7, <1>8, <1>9, ReadingIsAsking, GoodMove DEF CallGood

LEMMA ConfiguredStep ==
  ASSUME RunIInv, NEW k \in Calls, NEW x \in Secrets, SecretConfigured(k, x)
  PROVE  RunIInv'
<1>1. PICK c \in CallRecord : c = call[k] /\ CallGood(c)
  BY DEF RunIInv
<1>2. c.pc = "secrets" /\ Reading
  BY <1>1 DEF SecretConfigured, At
<1>3. PICK d \in CallRecord : d = [c EXCEPT !.todo = c.todo \ {x}]
  BY DEF CallRecord
<1>4. SameBut(c, d) /\ d.pc = c.pc
  BY <1>3 DEF CallRecord, SameBut
<1>5. call' = [call EXCEPT ![k] = d]
  BY <1>1, <1>3 DEF SecretConfigured, CallRecord, RunIInv
<1>6. MayGo(c, d.pc)
  BY <1>1, <1>2, <1>4
  DEF MayGo, CallGood, FieldsGood, PolicyGood, StrictPoints, TrustPoints, ApiPoints
<1>7. CallGood(d)
  BY <1>1, <1>2, <1>4, <1>6, MoveGood
<1>8. QED
  BY <1>2, <1>5, <1>7, ReadingIsAsking, GoodMove

\* Everybody else, and the clock.
LEMMA OtherSteps ==
  ASSUME RunIInv, RunTick \/ Environment
  PROVE  RunIInv'
<1>1. UNCHANGED call
  BY DEF RunTick, Environment, Propose, Promote, DropProposal, UseEnvironment, RemoveSecret,
         Elsewhere, runVars
<1>2. /\ active' \in Envs /\ policy' \subseteq Commands /\ proposals' \subseteq Commands
      /\ policy \subseteq policy'
  BY DEF RunIInv, RunTick, Environment, Propose, Promote, DropProposal, UseEnvironment,
         RemoveSecret, runVars
<1>3. AccessStep
  <2>1. vault \subseteq Envs \X Secrets
    BY DEF RunIInv, AccessInv, TypeOK
  <2>2. CASE RunTick \/ HumanNext
    BY <2>2 DEF RunTick, AccessStep
  <2>3. CASE \E entry \in Envs \X Secrets : RemoveSecret(entry)
    BY <2>1, <2>3 DEF RemoveSecret, AccessStep
  <2>4. CASE UNCHANGED vars
    BY <2>1, <2>4 DEF vars, AccessStep
  <2>5. QED
    BY <2>2, <2>3, <2>4 DEF Environment, Propose, Promote, DropProposal, UseEnvironment
<1>4. QED
  BY <1>1, <1>2, <1>3, OthersStay

LEMMA RunStep == RunIInv /\ [RunNext]_allVars => RunIInv'
<1> SUFFICES ASSUME RunIInv, [RunNext]_allVars PROVE RunIInv'
  OBVIOUS
<1>1. ASSUME NEW k \in Calls, CallStep(k) PROVE RunIInv'
  <2>1. CASE LeaseReady(k)
    BY <2>1, GotoSteps, AdmitSteps DEF LeaseReady
  <2>2. CASE TrustAwaited(k)
    BY <2>2, GotoSteps, EndSteps DEF TrustAwaited
  <2>3. QED
    BY <1>1, <2>1, <2>2, GotoSteps, EndSteps, AdmitSteps, SecretStep, AskSteps, ApiAskStep,
       AwaitStep, ResolveStep, ConfiguredStep
    DEF CallStep
<1>2. ASSUME NEW k \in Calls, Cancel(k) \/ ReadFails(k) PROVE RunIInv'
  BY <1>2, EndSteps
<1>3. CASE UNCHANGED allVars
  <2>1. UNCHANGED <<active, policy, proposals, call>> /\ UNCHANGED vars
    BY <1>3 DEF allVars, runVars
  <2>2. AccessStep
    BY <2>1 DEF vars, AccessStep, RunIInv, AccessInv, TypeOK
  <2>3. QED
    BY <2>1, <2>2, OthersStay DEF RunIInv
<1>4. QED
  BY <1>1, <1>2, <1>3, OtherSteps, BeginSteps DEF RunNext

LEMMA RunStart == RunInit => RunIInv
<1> SUFFICES ASSUME RunInit PROVE RunIInv
  OBVIOUS
<1>1. AccessInv
  BY DEF RunInit, Init, AccessInv, TypeOK
<1>2. IdleCall \in CallRecord
  BY DEF IdleCall, CallRecord, Points, Outcomes
<1>3. CallGood(IdleCall)
  BY RunAssumption DEF IdleCall, CallGood, FieldsGood, DeadlineGood, PolicyGood, AuthorityGood,
         StrictPoints, TrustPoints, ApiPoints
<1>4. \A k \in Calls : call[k] = IdleCall
  BY DEF RunInit
<1>5. call \in [Calls -> CallRecord]
  BY <1>2 DEF RunInit
<1>6. QED
  BY <1>1, <1>3, <1>4, <1>5 DEF RunInit, RunIInv

LEMMA RunInvariant == RunSpec => []RunIInv
BY RunStart, RunStep, PTL DEF RunSpec

-----------------------------------------------------------------------------
(* The access manager under the calls.                                     *)

\* The tools of the server, the local API and the human reach access.json through the
\* access manager only; the rest of a step leaves it alone or removes a value.
LEMMA RunIsAccessStep == RunIInv /\ [RunNext]_allVars => AccessStep
<1> SUFFICES ASSUME RunIInv, [RunNext]_allVars PROVE AccessStep
  OBVIOUS
<1>1. CASE Reading
  BY <1>1, ReadingIsAsking
<1>2. ASSUME NEW k \in Calls, NEW id \in ReqIds,
             \/ \E x \in Secrets : SecretMissing(k, x, id)
             \/ AskLease(k, id) \/ AskTrust(k, id) \/ ApiAsk(k)
      PROVE  AccessStep
  <2>1. CallGood(call[k])
    BY DEF RunIInv
  <2>2. call[k].session \in Sessions /\ call[k].env \in Envs
    BY <1>2, <2>1 DEF SecretMissing, AskLease, AskTrust, ApiAsk, At, CallGood, FieldsGood,
                      StrictPoints, TrustPoints, ApiPoints
  <2>3. call[k].pc \in {"secrets", "askLease", "apiAsk"} => call[k].command \in Commands
    BY <2>1 DEF CallGood, FieldsGood, StrictPoints, ApiPoints
  <2>4. CASE \E x \in Secrets : SecretMissing(k, x, id)
    BY <2>2, <2>3, <2>4, AsksAreFresh, AskIsStep DEF SecretMissing, At
  <2>5. CASE AskLease(k, id)
    BY <2>2, <2>3, <2>5, AsksAreFresh, AskIsStep, DurationAssumption DEF AskLease, At
  <2>6. CASE AskTrust(k, id)
    BY <2>2, <2>6, AsksAreFresh, AskIsStep DEF AskTrust
  <2>7. CASE ApiAsk(k)
    BY <1>1, <2>2, <2>3, <2>7, AsksAreFresh, AskIsStep, DurationAssumption DEF ApiAsk, At
  <2>8. QED
    BY <1>2, <2>4, <2>5, <2>6, <2>7
<1>3. ASSUME NEW k \in Calls, CallStep(k), ~Reading PROVE AccessStep
  <2>1. ApiAsk(k) => \E id \in ReqIds : ApiAsk(k)
    BY <1>3 DEF ApiAsk
  <2>2. QED
    BY <1>2, <1>3, <2>1
    DEF CallStep, TrackedRefused, DeadlinePassed, KeepPolling, LookupPolicy, AwaitProposal,
        ProposalGone, ResolveEnvironment, SecretConfigured, SecretRequestFails, LeaseReady,
        LeaseMissing, AskLeaseFails, TrustReady, TrustMissing, AskTrustFails, ReviewRefused,
        ReviewOpen, TrustGranted, TrustAwaited, ApiReady, ApiRefused, Poll, Execute
<1>4. ASSUME NEW k \in Calls, (\E s \in Sessions : StartCall(k, s)) \/ Cancel(k) \/ ReadFails(k)
      PROVE  Reading
  BY <1>4 DEF StartCall, StartStrict, StartWorkspace, StartApi, Begin, Cancel, ReadFails
<1>5. CASE UNCHANGED vars
  BY <1>5 DEF vars, AccessStep, RunIInv, AccessInv, TypeOK
<1>6. CASE RunTick \/ Environment
  <2>1. \A entry : RemoveSecret(entry) => AccessStep
    BY DEF RemoveSecret, AccessStep, RunIInv, AccessInv, TypeOK
  <2>2. QED
    BY <1>5, <1>6, <2>1
    DEF RunTick, Environment, Propose, Promote, DropProposal, UseEnvironment, AccessStep
<1>7. QED
  BY <1>1, <1>3, <1>4, <1>5, <1>6 DEF RunNext, allVars, runVars

LEMMA AccessUnderRuns == RunSpec => []AccessHolds
<1>1. RunInit => AccessHolds
  BY AccessStart DEF RunInit
<1>2. RunIInv /\ AccessHolds /\ [RunNext]_allVars => AccessHolds'
  BY RunIsAccessStep, AccessContinues
<1>3. QED
  BY <1>1, <1>2, RunInvariant, PTL DEF RunSpec

\* What was resolved or revoked stays so, although every call of every session joins, creates
\* and polls requests in transactions of its own (access.go resolveRequest, Revoke; server.go
\* awaitRunAuthorization, awaitWorkspaceAuthorization).
THEOREM RunsKeepDecisions == RunSpec => DecisionsAreFinal
<1>1. RunIInv /\ [RunNext]_allVars => [ResolvedStays]_vars /\ [RevokedStays]_vars
  BY RunIsAccessStep, DecisionStep DEF RunIInv, AccessInv
<1>2. QED
  BY <1>1, RunInvariant, PTL
  DEF RunSpec, DecisionsAreFinal, ResolutionIsFinal, RevocationIsFinal, ResolvedStays, RevokedStays

\* No sequence of calls gives its session a command or a workspace: that takes the step in
\* which a human approves, resumes or extends (server.go run_sealed, request_workspace).
THEOREM RunsGainNothing == RunSpec => AuthorityIsApproved
<1>1. RunIInv /\ [RunNext]_allVars => [CommandGainIsApproval]_vars /\ [WorkspaceGainIsApproval]_vars
  BY RunIsAccessStep, CommandGainStep, WorkspaceGainStep DEF RunIInv, AccessInv
<1>2. QED
  BY <1>1, RunInvariant, PTL
  DEF RunSpec, AuthorityIsApproved, CommandAuthorityIsApproved, WorkspaceAuthorityIsApproved

-----------------------------------------------------------------------------
(* The calls.                                                              *)

\* Calls keep their types and wait on requests of their own session only, and none but a
\* trusted workspace is admitted beyond the policy file; access.json is as sound under them as
\* it is under its own operations (server.go awaitRunAuthorization, localapi server.go run).
THEOREM CallsAreSound == RunSpec => []RunInv
<1>1. ASSUME RunIInv PROVE RunTypeOK /\ TracksOwnRequests /\ OnlyPolicyCommandsRun
  <2>1. \A k \in Calls : call[k] \in CallRecord /\ CallGood(call[k])
    BY <1>1 DEF RunIInv
  <2>2. RunTypeOK
    BY <1>1, <2>1 DEF RunIInv, AccessInv, RunTypeOK, CallRecord
  <2>3. TracksOwnRequests
    BY <2>1 DEF CallGood, DeadlineGood, TracksOwnRequests
  <2>4. OnlyPolicyCommandsRun
    BY <2>1 DEF CallGood, PolicyGood, OnlyPolicyCommandsRun, Admitted
  <2>5. QED
    BY <2>2, <2>3, <2>4
<1>2. AccessHolds => AccessStaysSound
  BY DEF AccessHolds, AccessStaysSound, IInv
<1>3. QED
  BY <1>1, <1>2, RunInvariant, AccessUnderRuns, PTL DEF RunInv

\* The capability that admitted a run points back at the request it was approved for.
LEMMA CapabilitiesWereReviewed ==
  RunsHoldCapabilities /\ RunIInv /\ AccessHolds => RunsWereReviewed
<1> SUFFICES ASSUME RunsHoldCapabilities, RunIInv, CapabilitiesAreBacked,
                    NEW k \in Calls, Admitted(k), call[k].mode = "workspace" \/ RequireLeases
             PROVE  \E id \in ReqIds :
                      /\ requests[id] # None /\ requests[id].status = "approved"
                      /\ requests[id].session = call[k].session /\ requests[id].env = call[k].env
                      /\ requests[id].createdAt <= call[k].authAt
                      /\ IF call[k].mode = "workspace" THEN requests[id].kind = "workspace"
                         ELSE /\ requests[id].kind = "lease"
                              /\ call[k].command \in requests[id].commands
  BY DEF RunsWereReviewed, AccessHolds, IInv
<1>1. TypeOK /\ call[k].authAt \in Nat
  BY DEF RunIInv, AccessInv, CallRecord, Admitted
<1>2. CASE call[k].mode = "workspace"
  <2>1. PICK g \in GrantIds : /\ grants[g] # None /\ grants[g].createdAt <= call[k].authAt
                              /\ grants[g].session = call[k].session /\ grants[g].env = call[k].env
    BY <1>2 DEF RunsHoldCapabilities
  <2>2. grants[g] \in WorkspaceGrant
    BY <1>1, <2>1 DEF TypeOK
  <2>3. PICK id \in ReqIds : id = grants[g].request
    BY <2>2 DEF WorkspaceGrant
  <2>4. /\ requests[id] # None /\ requests[id].kind = "workspace" /\ requests[id].status = "approved"
        /\ requests[id].session = grants[g].session /\ requests[id].env = grants[g].env
        /\ grants[g].createdAt \in requests[id].createdAt .. requests[id].expiresAt - 1
    BY <2>1, <2>3 DEF CapabilitiesAreBacked, GrantProvenance
  <2>5. requests[id].createdAt \in Nat /\ requests[id].expiresAt \in Nat
    BY <1>1, <2>4 DEF TypeOK, Request, RequestRecord
  <2>6. requests[id].createdAt <= call[k].authAt
    BY <1>1, <2>1, <2>2, <2>4, <2>5 DEF WorkspaceGrant
  <2>7. QED
    BY <1>2, <2>1, <2>4, <2>6
<1>3. CASE call[k].mode # "workspace"
  <2>1. PICK l \in LeaseIds : /\ leases[l] # None /\ leases[l].createdAt <= call[k].authAt
                              /\ leases[l].session = call[k].session /\ leases[l].env = call[k].env
                              /\ call[k].command \in leases[l].commands
    BY <1>3 DEF RunsHoldCapabilities
  <2>2. leases[l] \in Lease
    BY <1>1, <2>1 DEF TypeOK
  <2>3. PICK id \in ReqIds : id = leases[l].request
    BY <2>2 DEF Lease
  <2>4. /\ requests[id] # None /\ requests[id].kind = "lease" /\ requests[id].status = "approved"
        /\ requests[id].session = leases[l].session /\ requests[id].env = leases[l].env
        /\ requests[id].commands = leases[l].commands
        /\ leases[l].createdAt \in requests[id].createdAt .. requests[id].expiresAt - 1
    BY <2>1, <2>3 DEF CapabilitiesAreBacked, LeaseProvenance
  <2>5. requests[id].createdAt \in Nat /\ requests[id].expiresAt \in Nat
    BY <1>1, <2>4 DEF TypeOK, Request, RequestRecord
  <2>6. requests[id].createdAt <= call[k].authAt
    BY <1>1, <2>1, <2>2, <2>4, <2>5 DEF Lease
  <2>7. QED
    BY <1>3, <2>1, <2>4, <2>6
<1>4. QED
  BY <1>2, <1>3

\* An admitted run had, at its last check, a lease or grant for its own session, command and
\* the environment it executes with, whatever moved between the call's reads, and a human had
\* approved the request of that session it stems from (server.go awaitRunAuthorization, awaitWorkspaceAuthorization).
THEOREM RunsAuthorized == RunSpec => []RunsAreAuthorized
<1>1. RunIInv => RunsHoldCapabilities
  BY DEF RunIInv, CallGood, AuthorityGood, BackedByGrant, BackedByLease, RunsHoldCapabilities, Admitted
<1>2. RunsHoldCapabilities /\ RunIInv /\ AccessHolds => RunsWereReviewed
  BY CapabilitiesWereReviewed
<1>3. QED
  BY <1>1, <1>2, RunInvariant, AccessUnderRuns, PTL DEF RunsAreAuthorized

\* A call that sleeps has a deadline no later than that of any request it depends on
\* (server.go awaitRunAuthorization, awaitWorkspaceAuthorization: waitUntil).
THEOREM WaitsBounded == RunSpec => []WaitsAreBounded
<1>1. RunIInv => WaitsAreBounded
  BY DEF RunIInv, CallGood, DeadlineGood, WaitsAreBounded
<1>2. QED
  BY <1>1, RunInvariant, PTL

=============================================================================
