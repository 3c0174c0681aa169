------------------------------- MODULE Capsules -------------------------------
(***************************************************************************)
(* A secret on its way from a human to the store an agent's run reads: the *)
(* agent asks (request_secret), the human types the value locally, either  *)
(* straight into the store (access fulfill) or into a capsule (share       *)
(* create) that goes through the chat and is claimed by the agent's server *)
(* (claim_capsule).  A typed value is its number.                          *)
(*                                                                         *)
(* The requests are Access'.  A secret of Access is a pair of a policy     *)
(* name and its storage key.  A server keeps the policy of its start and   *)
(* handles several tool calls at once (the worker pool of mcp-go).         *)
(***************************************************************************)
EXTENDS Access, Sequences

CONSTANTS
  Humans,       \* CLI processes
  Workers,      \* of one server: the calls it handles at once
  Names, GoodNames, EntryNames, Files,   \* of Policy
  Default,      \* the environment named in requests when the policy uses none
  Policies,     \* the documents the operator can put in ironrun.yml
  CapsuleTTL, MaxCapsuleTTL, \* DefaultTTL and MaxTTL of capsules
  MaxTyped,     \* bound: values typed
  MaxCalls,     \* bound: commands and claims begun
  MaxFaults     \* bound: saves that fail

INSTANCE Policy

\* What ironrun.yml can hold.
Documents == (Policies \cup {MigrateV1ToV2(f) : f \in Policies}) \ {None}

\* The claims that can be under way: of which session, in which of its server's workers.
Claims == Sessions \X Workers
Procs == Humans \cup Claims

ASSUME CapsuleAssumption ==
  /\ Humans \cap Claims = {} /\ None \notin Humans \cup Claims
  /\ GoodNames \subseteq EntryNames /\ EntryNames \subseteq Names /\ None \notin Names \cup Files \cup Policies
  /\ Default \in Envs /\ MaxCapsuleTTL \in Nat /\ CapsuleTTL \in 1..MaxCapsuleTTL
  /\ MaxTyped \in Nat /\ MaxCalls \in Nat /\ MaxFaults \in Nat

ASSUME DocumentAssumption ==
  \A f \in Policies : \A i \in DOMAIN f.commands : DOMAIN f.commands[i] = {"id", "secrets"}

\* Secrets holds every pair a policy can bind.
ASSUME BindingAssumption ==
  \A f \in Documents, n \in Names : Parses(f) /\ SecretBinding(f, n) # None => <<n, SecretBinding(f, n)>> \in Secrets

VARIABLES
  policy,      \* ironrun.yml
  served,      \* session -> the policy its server has read, or None: not started
  activeEnv,   \* the active environment set
  capsuleKey,  \* the key in the native store: the process that made it, or None
  proc,        \* process -> the call it is in
  pasted,      \* the capsules printed so far
  calls, faults,
  typed,       \* history: the prompts answered, with what the human was shown
  stored       \* history: the values that reached a store

capVars == <<policy, served, activeEnv, capsuleKey, proc, pasted, calls, faults, typed, stored>>

Idle == [pc |-> "idle", op |-> None, req |-> None, shown |-> None, policy |-> None,
         key |-> None, value |-> 0, capsule |-> None, opened |-> 0]

CapInit ==
  /\ Init
  /\ policy \in {f \in Policies : Parses(f)} /\ served = [s \in Sessions |-> None]
  /\ activeEnv \in Envs \ {Default}
  /\ capsuleKey = None /\ proc = [p \in Procs |-> Idle] /\ pasted = {}
  /\ calls = 0 /\ faults = 0 /\ typed = <<>> /\ stored = <<>>

At(p, pc) == proc[p].pc = pc
Goto(p, pc) == proc' = [proc EXCEPT ![p].pc = pc]
Done(p) == proc' = [proc EXCEPT ![p] = Idle]

Called == calls < MaxCalls /\ calls' = calls + 1

-----------------------------------------------------------------------------
(* The policy and the server.                                              *)

\* The operator edits the file; nothing checks it.
EditPolicy(f) ==
  /\ Called /\ policy' = f
  /\ UNCHANGED <<vars, served, activeEnv, capsuleKey, proc, pasted, faults, typed, stored>>

MigratePolicy ==
  /\ Called /\ MigrateV1ToV2(policy) # None /\ policy' = MigrateV1ToV2(policy)
  /\ UNCHANGED <<vars, served, activeEnv, capsuleKey, proc, pasted, faults, typed, stored>>

UseEnv(e) ==
  /\ Called /\ e \notin {activeEnv, Default} /\ activeEnv' = e
  /\ UNCHANGED <<vars, policy, served, capsuleKey, proc, pasted, faults, typed, stored>>

\* ironrun mcp: a policy that does not parse ends it.
StartServer(s) ==
  /\ served[s] = None /\ Parses(policy) /\ served' = [served EXCEPT ![s] = policy]
  /\ UNCHANGED <<vars, policy, activeEnv, capsuleKey, proc, pasted, calls, faults, typed, stored>>

\* executionEnvironment.
RequestEnv(f) == IF Environmental(f) THEN activeEnv ELSE Default

\* request_secret: the binding is the server's, the environment the active one.
RequestSecret(s, name, id) ==
  /\ served[s] # None /\ Called
  /\ LET key == SecretBinding(served[s], name)
     IN key # None /\ CreateSecretRequest(s, RequestEnv(served[s]), <<name, key>>, {}, id)
  /\ UNCHANGED <<policy, served, activeEnv, capsuleKey, proc, pasted, faults, typed, stored>>

-----------------------------------------------------------------------------
(* capsule.Open: the key is read, or made; nothing locks the two steps.    *)

KeyGet(p) ==
  /\ At(p, "key")
  /\ proc' = IF capsuleKey = None THEN [proc EXCEPT ![p].pc = "newKey"]
             ELSE [proc EXCEPT ![p].pc = "keyed", ![p].key = capsuleKey]
  /\ UNCHANGED <<vars, policy, served, activeEnv, capsuleKey, pasted, calls, faults, typed, stored>>

KeyMake(p) ==
  /\ At(p, "newKey") /\ capsuleKey' = p
  /\ proc' = [proc EXCEPT ![p].pc = "keyed", ![p].key = p]
  /\ UNCHANGED <<vars, policy, served, activeEnv, pasted, calls, faults, typed, stored>>

-----------------------------------------------------------------------------
(* The human.                                                              *)

\* Request() answers with a pending secret request.
PendingSecret(id) ==
  requests[id] # None /\ requests[id].kind = "secret" /\ RequestStatus(id) = "pending"

\* What a prompt or a capsule says of the value.
Shown(id) == [req |-> id, session |-> requests[id].session, env |-> requests[id].env,
              secret |-> requests[id].secret]

\* share create: the prompt; the policy is not looked at.
StartCapsule(h, id) ==
  /\ At(h, "idle") /\ Called /\ PendingSecret(id)
  /\ proc' = [proc EXCEPT ![h] = [Idle EXCEPT !.pc = "prompt", !.op = "create", !.shown = Shown(id)]]
  /\ UNCHANGED <<vars, policy, served, activeEnv, capsuleKey, pasted, faults, typed, stored>>

\* access fulfill: the current policy must still bind the request.
StartFulfill(h, id) ==
  /\ At(h, "idle") /\ Called /\ PendingSecret(id) /\ Parses(policy)
  /\ SecretBinding(policy, requests[id].secret[1]) = requests[id].secret[2]
  /\ proc' = [proc EXCEPT ![h] = [Idle EXCEPT !.pc = "prompt", !.op = "fulfill", !.shown = Shown(id),
                                              !.policy = policy]]
  /\ UNCHANGED <<vars, policy, served, activeEnv, capsuleKey, pasted, faults, typed, stored>>

\* readSecret returns; an empty value ends the command.
Type(h) ==
  /\ At(h, "prompt")
  /\ \/ /\ Len(typed) < MaxTyped
        /\ typed' = Append(typed, proc[h].shown)
        /\ proc' = [proc EXCEPT ![h].pc = IF proc[h].op = "create" THEN "key" ELSE "commit",
                                ![h].value = Len(typed) + 1, ![h].req = proc[h].shown.req]
     \/ Done(h) /\ UNCHANGED typed
  /\ UNCHANGED <<vars, policy, served, activeEnv, capsuleKey, pasted, calls, faults, stored>>


\* Seal's lifetime; 0 refuses the call.
SealedTTL(ttl) == IF ttl = 0 THEN CapsuleTTL ELSE IF ttl > MaxCapsuleTTL THEN 0 ELSE ttl

Seal(h, ttl) ==
  /\ At(h, "keyed") /\ proc[h].op = "create"
  /\ pasted' = IF SealedTTL(ttl) = 0 THEN pasted
               ELSE pasted \cup {[shown |-> proc[h].shown, value |-> proc[h].value, key |-> proc[h].key,
                                  sealed |-> now, expires |-> now + SealedTTL(ttl)]}
  /\ Done(h)
  /\ UNCHANGED <<vars, policy, served, activeEnv, capsuleKey, calls, faults, typed, stored>>

-----------------------------------------------------------------------------
(* The claim.                                                              *)

StartClaim(p, c) ==
  /\ served[p[1]] # None /\ At(p, "idle") /\ Called /\ c \in pasted
  /\ proc' = [proc EXCEPT ![p] = [Idle EXCEPT !.pc = "key", !.op = "claim", !.capsule = c,
                                              !.policy = served[p[1]]]]
  /\ UNCHANGED <<vars, policy, served, activeEnv, capsuleKey, pasted, faults, typed, stored>>

\* Mutant: a capsule opens in the moment it expires.
OpensLate(p) == LET c == proc[p].capsule IN c.key = proc[p].key /\ now <= c.expires

\* Manager.Open: the capsule authenticates and has not expired.
Opens(p) == LET c == proc[p].capsule IN c.key = proc[p].key /\ now < c.expires

\* The payload and the pending request agree and belong to this session.
IsFor(s, c) ==
  c.shown.session = s /\ PendingSecret(c.shown.req) /\ Shown(c.shown.req) = c.shown

ClaimCheck(p) ==
  /\ At(p, "keyed") /\ proc[p].op = "claim"
  /\ LET c == proc[p].capsule IN
       IF /\ Opens(p) /\ IsFor(p[1], c)
          /\ SecretBinding(proc[p].policy, c.shown.secret[1]) = c.shown.secret[2]
       THEN proc' = [proc EXCEPT ![p].pc = "commit", ![p].req = c.shown.req, ![p].value = c.value,
                                 ![p].opened = now]
       ELSE Done(p)
  /\ UNCHANGED <<vars, policy, served, activeEnv, capsuleKey, pasted, calls, faults, typed, stored>>

-----------------------------------------------------------------------------
(* FulfillSecretWith and its commit callback.                              *)

\* Mutant: the value goes to the environment that is active now.
PlaceActive(f, r) == IF Environmental(f) THEN <<"env", activeEnv, r.secret[2]>> ELSE <<"store", None, r.secret[1]>>

\* An entry of the request's environment, or the alias in its provider store.
Place(f, r) == IF Environmental(f) THEN <<"env", r.env, r.secret[2]>> ELSE <<"store", None, r.secret[1]>>

Reaches(p, saved) ==
  stored' = Append(stored, [req |-> proc[p].req, value |-> proc[p].value, by |-> p, saved |-> saved,
                            place |-> Place(proc[p].policy, requests[proc[p].req]),
                            capsule |-> proc[p].capsule, opened |-> proc[p].opened])

\* The request is still pending under the lock: the value is stored, then the request saved.
Commit(p) ==
  /\ At(p, "commit") /\ FulfillSecretWith(proc[p].req) /\ Reaches(p, TRUE) /\ Done(p)
  /\ UNCHANGED <<policy, served, activeEnv, capsuleKey, pasted, calls, faults, typed>>

\* The value is stored and then something fails: the store itself, after its commit, or the
\* save of the request.
CommitUnsaved(p) ==
  /\ At(p, "commit") /\ faults < MaxFaults /\ faults' = faults + 1
  /\ FulfillInterrupted(proc[p].req) /\ Reaches(p, FALSE) /\ Done(p)
  /\ UNCHANGED <<policy, served, activeEnv, capsuleKey, pasted, calls, typed>>

\* The request was resolved or has expired since; or the store refuses the value as a whole.
CommitRefused(p) ==
  /\ At(p, "commit") /\ Done(p)
  /\ IF Resolvable(proc[p].req, {"secret"}) THEN faults < MaxFaults /\ faults' = faults + 1
     ELSE UNCHANGED faults
  /\ UNCHANGED <<vars, policy, served, activeEnv, capsuleKey, pasted, calls, typed, stored>>

\* Access' own operations on a secret request.
Reviews ==
  /\ Tick \/ ListRequests \/ \E id \in ReqIds : Deny(id)
  /\ UNCHANGED capVars

CapNext ==
  \/ Reviews \/ MigratePolicy
  \/ \E f \in Policies : EditPolicy(f)
  \/ \E e \in Envs : UseEnv(e)
  \/ \E s \in Sessions :
       \/ StartServer(s)
       \/ \E n \in Names, id \in ReqIds : RequestSecret(s, n, id)
  \/ \E p \in Claims : ClaimCheck(p) \/ \E c \in pasted : StartClaim(p, c)
  \/ \E h \in Humans :
       \/ Type(h)
       \/ \E id \in ReqIds : StartCapsule(h, id) \/ StartFulfill(h, id)
       \/ \E ttl \in TTLs : Seal(h, ttl)
  \/ \E p \in Procs : KeyGet(p) \/ KeyMake(p) \/ Commit(p) \/ CommitUnsaved(p) \/ CommitRefused(p)

CapSpec == CapInit /\ [][CapNext]_<<vars, capVars>>
-----------------------------------------------------------------------------
(* Properties.                                                             *)

CapTypeOK ==
  /\ TypeOK
  /\ policy \in Documents
  /\ capsuleKey \in Procs \cup {None} /\ activeEnv \in Envs
  /\ \A p \in Procs : proc[p].value \in 0 .. Len(typed) /\ proc[p].req \in ReqIds \cup {None}
  /\ \A i \in DOMAIN stored : stored[i].value \in DOMAIN typed

\* capsule.go: "Create chat-safe, one-use encrypted secret capsules": of all the prompts,
\* capsules and claims for a request at most one reaches a store, but for those whose
\* request could not be saved, and none after the one whose was.
OneUse ==
  \A i, j \in DOMAIN stored : i < j /\ stored[i].req = stored[j].req => ~stored[i].saved

\* A value reaches the request, environment and name that its prompt showed, however the
\* policy and the active environment have changed since.
StoredAsShown ==
  \A i \in DOMAIN stored :
    LET v == stored[i]  t == typed[v.value]
    IN /\ t.req = v.req
       /\ v.place \in {<<"env", t.env, t.secret[2]>>, <<"store", None, t.secret[1]>>}

\* capsule.go: a capsule "is bound to one pending secret request, project, MCP session":
\* what is claimed was typed for the session that claims it.
ClaimsAreTheAskers ==
  \A i \in DOMAIN stored : stored[i].by \in Claims => typed[stored[i].value].session = stored[i].by[1]

\* capsule.go: "and short expiry" of at most ten minutes: a claim that succeeds has opened
\* its capsule within the longest lifetime of its sealing.
ClaimsAreFresh ==
  \A i \in DOMAIN stored : stored[i].by \in Claims =>
    /\ stored[i].opened < stored[i].capsule.expires
    /\ stored[i].opened < stored[i].capsule.sealed + MaxCapsuleTTL

\* No value is stored for a request that was denied, has expired or is fulfilled, however
\* long ago its prompt was shown or its claim checked.
StoresWhilePending ==
  [][\A i \in DOMAIN stored' : i > Len(stored) =>
       LET r == requests[stored'[i].req] IN r.status = "pending" /\ now < r.expiresAt]_<<vars, capVars>>

\* Every secret a command of an accepted policy names has a storage key (the runs look
\* them up without a further check).
AcceptedPoliciesBind ==
  \A f \in {policy} \cup {served[s] : s \in Sessions} :
    f # None /\ Parses(f) => \A n \in SecretNames(f) : SecretBinding(f, n) # None

\* policy/migrate.go: the rewrite names, in every command, the keys that the aliases had,
\* and aliases that had values of their own keep entries of their own.
MigrationKeepsBindings ==
  [][policy' = MigrateV1ToV2(policy) =>
       /\ \A i \in DOMAIN policy.commands : \A j \in DOMAIN policy.commands[i].secrets :
            policy'.commands[i].secrets[j] = SecretBinding(policy, policy.commands[i].secrets[j])
       /\ \A a, b \in SecretNames(policy) :
            SecretBinding(policy, a) = SecretBinding(policy, b) => a = b]_<<vars, capVars>>

\* Of the values typed for a request one is stored, while it is pending, where the human
\* was told it would be.
TransfersAreShown == [](OneUse /\ StoredAsShown) /\ StoresWhilePending

\* A claim that succeeds is the asker's, in time.
ClaimsAreGood == ClaimsAreTheAskers /\ ClaimsAreFresh

\* What validation and the rewrite of a policy owe the runs that read it later.
PoliciesBind == []AcceptedPoliciesBind /\ MigrationKeepsBindings
===============================================================================
