------------------------------ MODULE AgentRun ------------------------------
(***************************************************************************)
(* Run calls of agents, composed with Access: run_sealed with a command id *)
(* (awaitRunAuthorization), run_sealed with an argv                        *)
(* (awaitWorkspaceAuthorization) and POST /v1/run of the local API, from   *)
(* the call to the hand-over to execution with the pinned environment.     *)
(*                                                                         *)
(* A call holds no lock between its reads: policy file, pending proposals, *)
(* active environment, vault and access.json are read by separate steps,   *)
(* and a human, other calls and the clock move in between.  Every          *)
(* access-manager operation is the action of Access it invokes.            *)
(*                                                                         *)
(* The policy is one that uses environment entries (the "default"          *)
(* pseudo-environment of alias policies is one more element of Envs).      *)
(***************************************************************************)
EXTENDS Access

CONSTANTS
  Calls,          \* run calls in flight, one use each
  Modes,          \* subset of {"strict", "workspace", "api"}
  Needs,          \* command -> the secrets it declares
  RequireLeases,  \* require_agent_leases of the policy
  PromptPolls     \* TRUE: the clock does not advance inside a poll iteration

ASSUME RunAssumption ==
  /\ Modes \subseteq {"strict", "workspace", "api"}
  /\ None \notin {"strict", "workspace", "api"}
  /\ Needs \in [Commands -> SUBSET Secrets]
  /\ RequireLeases \in BOOLEAN
  /\ PromptPolls \in BOOLEAN

VARIABLES
  active,     \* the active environment of environments.json
  policy,     \* the command ids in ironrun.yml
  proposals,  \* the command ids in pending.yml
  call        \* call -> its local state

runVars == <<active, policy, proposals, call>>
allVars == <<vars, runVars>>

\* One record for every kind of call; fields a mode does not use keep their default.
IdleCall ==
  [pc |-> "idle", mode |-> None, session |-> None, command |-> None, env |-> None,
   tracked |-> {}, waitUntil |-> None, proposed |-> FALSE, todo |-> {},
   missing |-> FALSE, authAt |-> None, outcome |-> None]

\* Program points at which a call is not in the middle of a poll iteration.
Resting == {"idle", "wait", "execute", "done"}

Goto(k, pc) == call' = [call EXCEPT ![k].pc = pc]

\* The call returns to the agent.
End(k, outcome) == call' = [call EXCEPT ![k].pc = "done", ![k].outcome = outcome]

\* Authorization is complete: hand over to execution with the pinned environment.
Admit(k) == call' = [call EXCEPT ![k].pc = "execute", ![k].authAt = now]

Earlier(deadline, t) == IF deadline = None \/ t < deadline THEN t ELSE deadline

\* Mutant: the deadline of the request is not taken over.
TrackNoDeadline(k, id, pc) ==
  call' = [call EXCEPT ![k].pc = pc, ![k].tracked = @ \cup {id}]

\* Remember a request this call depends on, and wait no longer than it lives.
Track(k, id, pc) ==
  call' = [call EXCEPT ![k].pc = pc,
                       ![k].tracked = @ \cup {id},
                       ![k].waitUntil = Earlier(@, requests'[id].expiresAt)]

At(k, pc) == call[k].pc = pc

DeadlineOver(k) == call[k].waitUntil # None /\ call[k].waitUntil <= now

\* The files a call reads are left alone.
Reading == UNCHANGED <<vars, active, policy, proposals>>
\* Only access.json moves (through an action of Access).
Asking == UNCHANGED <<active, policy, proposals>>

-----------------------------------------------------------------------------
RunInit ==
  /\ Init
  /\ active \in Envs
  /\ policy \in SUBSET Commands
  /\ proposals = {}
  /\ call = [k \in Calls |-> IdleCall]

\* The bound on the clock leaves every call time to reach its deadline.
Begin(k, mode, s, c, e, pc) ==
  /\ now + RequestTTL <= MaxTime
  /\ At(k, "idle") /\ mode \in Modes
  /\ call' = [call EXCEPT ![k].pc = pc, ![k].mode = mode, ![k].session = s,
                          ![k].command = c, ![k].env = e]
  /\ Reading

(***************************************************************************)
(* run_sealed with a command id: awaitRunAuthorization.                    *)
(***************************************************************************)
StartStrict(k, s, c) == Begin(k, "strict", s, c, None, "check")

\* Top of the loop: a tracked request was denied or lapsed ...
TrackedRefused(k) ==
  /\ At(k, "check")
  /\ \E id \in call[k].tracked : RequestStatus(id) \in {"denied", "expired"}
  /\ End(k, "refused")
  /\ Reading

\* ... or the earliest deadline seen so far has passed ...
DeadlinePassed(k) ==
  /\ At(k, "check")
  /\ \A id \in call[k].tracked : RequestStatus(id) \notin {"denied", "expired"}
  /\ DeadlineOver(k)
  /\ End(k, "expired")
  /\ Reading

\* ... or the loop body runs.
KeepPolling(k) ==
  /\ At(k, "check")
  /\ \A id \in call[k].tracked : RequestStatus(id) \notin {"denied", "expired"}
  /\ ~DeadlineOver(k)
  /\ Goto(k, "policy")
  /\ Reading

\* Mutant: a proposed command counts as a policy command.
LookupPolicyOrProposal(k) ==
  /\ At(k, "policy")
  /\ Goto(k, IF call[k].command \in policy \cup proposals THEN "env" ELSE "pending")
  /\ Reading

\* currentPolicy + Lookup.
LookupPolicy(k) ==
  /\ At(k, "policy")
  /\ Goto(k, IF call[k].command \in policy THEN "env" ELSE "pending")
  /\ Reading

\* Mutant: waiting for the review of a proposal sets no deadline.
AwaitProposalForever(k) ==
  /\ At(k, "pending") /\ call[k].command \in proposals
  /\ call' = [call EXCEPT ![k].pc = "wait", ![k].proposed = TRUE]
  /\ Reading

\* pending.Load, after the policy was read: still proposed, so wait for review ...
AwaitProposal(k) ==
  /\ At(k, "pending") /\ call[k].command \in proposals
  /\ call' = [call EXCEPT ![k].pc = "wait", ![k].proposed = TRUE,
                ![k].waitUntil = IF @ = None THEN now + RequestTTL ELSE @]
  /\ Reading

\* ... or gone: reported as rejected when it was there before.
ProposalGone(k) ==
  /\ At(k, "pending") /\ call[k].command \notin proposals
  /\ End(k, IF call[k].proposed THEN "rejected" ELSE "unknown")
  /\ Reading

\* resolveExecutionEnvironment: the environment of this iteration.
ResolveEnvironment(k) ==
  /\ At(k, "env")
  /\ call' = [call EXCEPT ![k].pc = "secrets", ![k].env = active,
                          ![k].todo = Needs[call[k].command], ![k].missing = FALSE]
  /\ Reading

\* requestMissingSecrets, one declared secret at a time.
SecretConfigured(k, x) ==
  /\ At(k, "secrets") /\ x \in call[k].todo
  /\ <<call[k].env, x>> \in vault
  /\ call' = [call EXCEPT ![k].todo = @ \ {x}]
  /\ Reading

SecretAsk(k, x) ==
  SecretCandidate(call[k].session, call[k].env, x, {call[k].command})

SecretMissing(k, x, id) ==
  /\ At(k, "secrets") /\ x \in call[k].todo
  /\ <<call[k].env, x>> \notin vault
  /\ CreateRequest(SecretAsk(k, x), id)
  /\ call' = [call EXCEPT ![k].todo = @ \ {x}, ![k].missing = TRUE,
                ![k].tracked = @ \cup {id},
                ![k].waitUntil = Earlier(@, requests'[id].expiresAt)]
  /\ Asking

SecretRequestFails(k, x) ==
  /\ At(k, "secrets") /\ x \in call[k].todo
  /\ <<call[k].env, x>> \notin vault
  /\ CreateRequestFails(SecretAsk(k, x))
  /\ End(k, "askFailed")
  /\ Reading

\* Mutant: the lease is checked for the active, not for the pinned environment.
LeaseHeldActive(k) ==
  RequireLeases => Authorize(call[k].session, active, call[k].command)

LeaseHeld(k) ==
  RequireLeases => Authorize(call[k].session, call[k].env, call[k].command)

\* Nothing missing and the lease check passes: the run is admitted.
LeaseReady(k) ==
  /\ At(k, "secrets") /\ call[k].todo = {}
  /\ LeaseHeld(k)
  /\ IF call[k].missing THEN Goto(k, "wait") ELSE Admit(k)
  /\ Reading

LeaseMissing(k) ==
  /\ At(k, "secrets") /\ call[k].todo = {}
  /\ ~LeaseHeld(k)
  /\ Goto(k, "askLease")
  /\ Reading

LeaseAsk(k, ttl) ==
  LeaseCandidate(call[k].session, call[k].env, {call[k].command}, ttl)

\* CreateLeaseRequest, a transaction of its own after the failed check.
AskLease(k, id) ==
  /\ At(k, "askLease")
  /\ CreateRequest(LeaseAsk(k, DefaultLeaseTTL), id)
  /\ Track(k, id, "wait")
  /\ Asking

AskLeaseFails(k) ==
  /\ At(k, "askLease")
  /\ CreateRequestFails(LeaseAsk(k, DefaultLeaseTTL))
  /\ End(k, "askFailed")
  /\ Reading

(***************************************************************************)
(* run_sealed with an argv: awaitWorkspaceAuthorization.  The environment  *)
(* is resolved once, before the loop.                                      *)
(***************************************************************************)
StartWorkspace(k, s) == Begin(k, "workspace", s, None, active, "trust")

TrustHeld(k) == AuthorizeWorkspace(call[k].session, call[k].env)

\* An active grant admits the run at once; without one the call asks for it.
TrustReady(k) ==
  /\ At(k, "trust") /\ TrustHeld(k)
  /\ Admit(k)
  /\ Reading

TrustMissing(k) ==
  /\ At(k, "trust") /\ ~TrustHeld(k)
  /\ Goto(k, "askTrust")
  /\ Reading

TrustAsk(k) == WorkspaceCandidate(call[k].session, call[k].env, DefaultWorkspaceTTL)

AskTrust(k, id) ==
  /\ At(k, "askTrust")
  /\ CreateRequest(TrustAsk(k), id)
  /\ Track(k, id, "retrust")
  /\ Asking

AskTrustFails(k) ==
  /\ At(k, "askTrust")
  /\ CreateRequestFails(TrustAsk(k))
  /\ End(k, "askFailed")
  /\ Reading

\* After a poll the request is read again: refused, then authorized, then out of
\* time, in this order.  (The first pass uses the request as it was created.)
ReviewRefused(k) ==
  /\ At(k, "review")
  /\ \E id \in call[k].tracked : RequestStatus(id) \in {"denied", "expired"}
  /\ End(k, "refused")
  /\ Reading

ReviewOpen(k) ==
  /\ At(k, "review")
  /\ \A id \in call[k].tracked : RequestStatus(id) \notin {"denied", "expired"}
  /\ Goto(k, "retrust")
  /\ Reading

TrustGranted(k) ==
  /\ At(k, "retrust") /\ TrustHeld(k)
  /\ Admit(k)
  /\ Reading

TrustAwaited(k) ==
  /\ At(k, "retrust") /\ ~TrustHeld(k)
  /\ IF DeadlineOver(k) THEN End(k, "expired") ELSE Goto(k, "wait")
  /\ Reading

(***************************************************************************)
(* POST /v1/run of the local API: no waiting.                              *)
(***************************************************************************)
\* Policy reload, Lookup and leaseEnvironment; e = None asks for the active set.
StartApi(k, s, c, e) ==
  /\ c \in policy
  /\ Begin(k, "api", s, c, IF e = None THEN active ELSE e, "apiCheck")

ApiReady(k) ==
  /\ At(k, "apiCheck") /\ LeaseHeld(k)
  /\ Admit(k)
  /\ Reading

ApiRefused(k) ==
  /\ At(k, "apiCheck") /\ ~LeaseHeld(k)
  /\ Goto(k, "apiAsk")
  /\ Reading

\* The lease request asks for DefaultRequestTTL; a failure is not reported.
ApiAsk(k) ==
  /\ At(k, "apiAsk")
  /\ \/ (\E id \in ReqIds : CreateRequest(LeaseAsk(k, RequestTTL), id)) /\ Asking
     \/ CreateRequestFails(LeaseAsk(k, RequestTTL)) /\ Reading
  /\ End(k, "leaseRequired")

(***************************************************************************)
(* Waiting, cancellation, execution.                                       *)
(***************************************************************************)
\* waitForChange: 100 ms, then the next iteration.
Poll(k) ==
  /\ At(k, "wait")
  /\ Goto(k, IF call[k].mode = "strict" THEN "check" ELSE "review")
  /\ Reading

\* waitForChange: the host cancelled the tool call.
Cancel(k) ==
  /\ At(k, "wait")
  /\ End(k, "cancelled")
  /\ Reading

\* Some file cannot be read: the call ends.  The workspace loop ignores the error,
\* takes the zero request for the answer and finds it expired.
ReadFails(k) ==
  /\ \/ call[k].pc \in {"policy", "pending", "env", "secrets"} /\ End(k, "unavailable")
     \/ At(k, "review") /\ ~TrustHeld(k) /\ End(k, "expired")
  /\ Reading

\* execution.Run resolves the declared entries of the pinned environment.
Execute(k) ==
  /\ At(k, "execute")
  /\ LET needed == IF call[k].command = None THEN {} ELSE Needs[call[k].command]
     IN End(k, IF \A x \in needed : <<call[k].env, x>> \in vault
               THEN "executed" ELSE "runFailed")
  /\ Reading

CallStep(k) ==
  \/ TrackedRefused(k) \/ DeadlinePassed(k) \/ KeepPolling(k)
  \/ LookupPolicy(k) \/ AwaitProposal(k) \/ ProposalGone(k) \/ ResolveEnvironment(k)
  \/ \E x \in Secrets :
       \/ SecretConfigured(k, x)
       \/ \E id \in ReqIds : SecretMissing(k, x, id)
       \/ SecretRequestFails(k, x)
  \/ LeaseReady(k) \/ LeaseMissing(k) \/ (\E id \in ReqIds : AskLease(k, id)) \/ AskLeaseFails(k)
  \/ TrustReady(k) \/ TrustMissing(k) \/ (\E id \in ReqIds : AskTrust(k, id)) \/ AskTrustFails(k)
  \/ ReviewRefused(k) \/ ReviewOpen(k) \/ TrustGranted(k) \/ TrustAwaited(k)
  \/ ApiReady(k) \/ ApiRefused(k) \/ ApiAsk(k)
  \/ Poll(k) \/ Execute(k)

StartCall(k, s) ==
  \/ \E c \in Commands : StartStrict(k, s, c)
  \/ StartWorkspace(k, s)
  \/ \E c \in Commands, e \in Envs \cup {None} : StartApi(k, s, c, e)

-----------------------------------------------------------------------------
(* The rest of the world.                                                  *)

Elsewhere == UNCHANGED call

\* propose_command: only ids that are not in the policy can be proposed.
Propose(c) ==
  /\ c \notin policy \cup proposals
  /\ proposals' = proposals \cup {c}
  /\ UNCHANGED <<vars, active, policy>> /\ Elsewhere

\* review approve: the policy file is rewritten first ...
Promote(c) ==
  /\ c \in proposals \ policy
  /\ policy' = policy \cup {c}
  /\ UNCHANGED <<vars, active, proposals>> /\ Elsewhere

\* ... then pending.yml is saved without the proposal; review reject does only this.
DropProposal(c) ==
  /\ c \in proposals
  /\ proposals' = proposals \ {c}
  /\ UNCHANGED <<vars, active, policy>> /\ Elsewhere

\* env use NAME.
UseEnvironment(e) ==
  /\ e # active
  /\ active' = e
  /\ UNCHANGED <<vars, policy, proposals>> /\ Elsewhere

\* env unset: a value disappears from the vault.
RemoveSecret(entry) ==
  /\ entry \in vault
  /\ vault' = vault \ {entry}
  /\ UNCHANGED <<now, requests, leases, grants>>
  /\ UNCHANGED <<active, policy, proposals>> /\ Elsewhere

RunTick ==
  /\ PromptPolls => \A k \in Calls : call[k].pc \in Resting
  /\ Tick
  /\ UNCHANGED runVars

Environment ==
  \/ \E c \in Commands : Propose(c) \/ Promote(c) \/ DropProposal(c)
  \/ \E e \in Envs : UseEnvironment(e)
  \/ \E entry \in Envs \X Secrets : RemoveSecret(entry)
  \/ HumanNext /\ UNCHANGED runVars

RunNext ==
  \/ RunTick
  \/ Environment
  \/ \E k \in Calls :
       (\E s \in Sessions : StartCall(k, s)) \/ CallStep(k) \/ Cancel(k) \/ ReadFails(k)

RunSpec == RunInit /\ [][RunNext]_allVars

\* The server keeps polling and time passes; humans and hosts are free not to act.
\* (Strong fairness for the clock: with PromptPolls it pauses during iterations.)
RunFairSpec ==
  RunSpec /\ SF_allVars(RunTick) /\ \A k \in Calls : WF_allVars(CallStep(k))

-----------------------------------------------------------------------------
(* Properties.                                                             *)

RunTypeOK ==
  /\ TypeOK
  /\ active \in Envs
  /\ policy \subseteq Commands
  /\ proposals \subseteq Commands
  /\ \A k \in Calls :
       /\ call[k].session \in Sessions \cup {None}
       /\ call[k].command \in Commands \cup {None}
       /\ call[k].env \in Envs \cup {None}
       /\ call[k].tracked \subseteq ReqIds
       /\ call[k].waitUntil \in Nat \cup {None}
       /\ call[k].authAt \in Nat \cup {None}

Admitted(k) == call[k].authAt # None

\* Whatever happened between the reads of a call (environment switched, lease
\* revoked, request answered by somebody else), a run that was admitted had, at
\* the instant of its last check, a human-approved lease or grant of its own
\* session for the very environment it executes with.
RunsHoldCapabilities ==
  \A k \in Calls : Admitted(k) =>
    IF call[k].mode = "workspace"
    THEN \E g \in GrantIds :
           /\ grants[g] # None
           /\ grants[g].session = call[k].session
           /\ grants[g].env = call[k].env
           /\ grants[g].createdAt <= call[k].authAt
           /\ grants[g].revokedAt = None \/ call[k].authAt <= grants[g].revokedAt
    ELSE RequireLeases =>
         \E l \in LeaseIds :
           /\ leases[l] # None
           /\ leases[l].session = call[k].session
           /\ leases[l].env = call[k].env
           /\ call[k].command \in leases[l].commands
           /\ leases[l].createdAt <= call[k].authAt
           /\ call[k].authAt < leases[l].expiresAt
           /\ leases[l].revokedAt = None \/ call[k].authAt <= leases[l].revokedAt

\* ... and behind it is a request of that session, naming that environment and command,
\* which the human was shown and approved before the run was admitted.
RunsWereReviewed ==
  \A k \in Calls : Admitted(k) /\ (call[k].mode = "workspace" \/ RequireLeases) =>
    \E id \in ReqIds :
      /\ requests[id] # None /\ requests[id].status = "approved"
      /\ requests[id].session = call[k].session /\ requests[id].env = call[k].env
      /\ requests[id].createdAt <= call[k].authAt
      /\ IF call[k].mode = "workspace" THEN requests[id].kind = "workspace"
         ELSE requests[id].kind = "lease" /\ call[k].command \in requests[id].commands

\* What run_sealed lets through was asked for by its session and granted by a human.
RunsAreAuthorized == RunsHoldCapabilities /\ RunsWereReviewed

\* A strict run is never admitted for a command the policy file does not contain.
OnlyPolicyCommandsRun ==
  \A k \in Calls : Admitted(k) /\ call[k].mode # "workspace" => call[k].command \in policy

\* A call that sleeps has a deadline, and it is no later than the deadline of any
\* request the call created or joined: no call outlives the review it waits for.
WaitsAreBounded ==
  \A k \in Calls : call[k].pc = "wait" =>
    /\ call[k].waitUntil # None
    /\ call[k].waitUntil <= now + RequestTTL
    /\ \A id \in call[k].tracked :
         requests[id] # None /\ call[k].waitUntil <= requests[id].expiresAt

\* A call only ever waits on requests of its own session.
TracksOwnRequests ==
  \A k \in Calls : \A id \in call[k].tracked :
    requests[id] # None /\ requests[id].session = call[k].session

\* The access manager keeps its promises to the calls that work through it, each with many
\* transactions of its own, while values come and go in the vault.
AccessStaysSound == CapabilitiesAreBacked /\ BoundedAuthority /\ ReviewQueueBounded

\* What run_sealed may hold at any moment: well-typed calls that wait on requests of their
\* own session, no strict admission beyond the policy file, and a sound access.json.
RunInv == RunTypeOK /\ TracksOwnRequests /\ OnlyPolicyCommandsRun /\ AccessStaysSound

\* Every run call returns: it is admitted and executes, or is told why not.
CallsEnd == \A k \in Calls : call[k].pc = "check" ~> call[k].pc = "done"
TrustCallsEnd == \A k \in Calls : call[k].pc = "trust" ~> call[k].pc = "done"

\* awaitRunAuthorization and awaitWorkspaceAuthorization return, whatever the human does.
EveryRunEnds == CallsEnd /\ TrustCallsEnd

\* server.go:310 reports a proposal that left pending.yml as "rejected or removed
\* before approval": then it must not have been approved.
RejectionIsReal ==
  \A k \in Calls : call[k].outcome = "rejected" => call[k].command \notin policy

=============================================================================
