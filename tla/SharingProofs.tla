----------------------------- MODULE SharingProofs -----------------------------
(***************************************************************************)
(* Theorems about Sharing, for any number of humans, sessions, requests,   *)
(* policies, typed values, registry commands, servers, home screens and    *)
(* failures: what reaches a store was typed for the request it is stored   *)
(* for; projects.json and what a home screen makes of it; the socket.      *)
(***************************************************************************)
EXTENDS Sharing, AccessProofs, SequenceTheorems

-----------------------------------------------------------------------------
(* The types of the transfer.                                              *)

ShownRecord == [req : ReqIds, session : Sessions, env : Envs, secret : Secrets]

CapsuleRecord ==
  [shown : ShownRecord, value : Nat, key : Procs \cup {None}, sealed : Nat, expires : Nat]

CallRecord ==
  [pc : {"idle", "key", "newKey", "keyed", "prompt", "commit"},
   op : {None, "create", "fulfill", "claim"}, req : ReqIds \cup {None},
   shown : ShownRecord \cup {None}, policy : Documents \cup {None}, key : Procs \cup {None},
   value : Nat, capsule : CapsuleRecord \cup {None}, opened : Nat]

Placement(t) == {<<"env", t.env, t.secret[2]>>, <<"store", None, t.secret[1]>>}

StoredRecord ==
  [req : ReqIds, value : Nat, by : Procs, saved : BOOLEAN,
   place : UNION {Placement(t) : t \in ShownRecord},
   capsule : CapsuleRecord \cup {None}, opened : Nat]

TransferTypes ==
  /\ policy \in Documents /\ served \in [Sessions -> Documents \cup {None}] /\ activeEnv \in Envs
  /\ \A s \in Sessions : served[s] # None => Parses(served[s])
  /\ capsuleKey \in Procs \cup {None} /\ proc \in [Procs -> CallRecord]
  /\ pasted \subseteq CapsuleRecord /\ typed \in Seq(ShownRecord) /\ stored \in Seq(StoredRecord)

-----------------------------------------------------------------------------
(* The inductive invariant.                                                *)

\* What was shown is still what the request asks for.
StillAsked(t) == requests[t.req] # None /\ requests[t.req].kind = "secret" /\ Shown(t.req) = t

\* The value a capsule or call carries was typed at the prompt that showed t.
TypedFor(value, t) == value \in DOMAIN typed /\ typed[value] = t

HumanCall(h) ==
  proc[h].pc # "idle" =>
    /\ proc[h].shown \in ShownRecord /\ StillAsked(proc[h].shown)
    /\ proc[h].pc # "prompt" => TypedFor(proc[h].value, proc[h].shown) /\ proc[h].req = proc[h].shown.req

SessionCall(s) ==
  proc[s].pc # "idle" =>
    /\ proc[s].capsule \in pasted /\ proc[s].pc # "prompt"
    /\ proc[s].pc = "commit" =>
         LET c == proc[s].capsule
         IN /\ proc[s].req = c.shown.req /\ proc[s].value = c.value /\ c.shown.session = s[1]
            /\ proc[s].opened < c.expires

CapsuleGood(c) == TypedFor(c.value, c.shown) /\ c.expires <= c.sealed + MaxCapsuleTTL

\* A stored value, on its own.
EntryGood(v) ==
  /\ v.value \in DOMAIN typed /\ typed[v.value].req = v.req /\ v.place \in Placement(typed[v.value])
  /\ v.saved => requests[v.req] # None /\ requests[v.req].status \in Terminal
  /\ v.by \in Claims =>
       /\ typed[v.value].session = v.by[1]
       /\ v.capsule \in CapsuleRecord /\ v.opened < v.capsule.expires
       /\ v.opened < v.capsule.sealed + MaxCapsuleTTL

CallGood(p) == (p \in Humans => HumanCall(p)) /\ (p \in Claims => SessionCall(p))

TransferInv ==
  /\ TypeOK /\ TransferTypes
  /\ \A i \in DOMAIN typed : StillAsked(typed[i])
  /\ \A p \in Procs : CallGood(p)
  /\ \A c \in pasted : CapsuleGood(c)
  /\ \A i \in DOMAIN stored : EntryGood(stored[i])
  /\ OneUse

-----------------------------------------------------------------------------
(* What a step does to the requests, and what its growth leaves true.      *)

\* A document that the migration accepts is none of its results.
LEMMA MigratedOnce ==
  ASSUME NEW f \in Documents, MigrateV1ToV2(f) # None
  PROVE  MigrateV1ToV2(f) \in Documents
<1>1. ASSUME NEW g \in Policies, f = MigrateV1ToV2(g) PROVE FALSE
  <2>1. f = Rewritten(g)
    BY <1>1 DEF MigrateV1ToV2, Documents
  <2>2. f.version = "2"
    BY <2>1 DEF Rewritten
  <2>3. QED
    BY <2>2 DEF MigrateV1ToV2, Migratable
<1>2. f \in Policies
  BY <1>1 DEF Documents
<1>3. QED
  BY <1>2 DEF Documents

\* A call that is about to store a value has its request.
LEMMA CommitsARequest ==
  ASSUME TransferInv, NEW p \in Procs, At(p, "commit")
  PROVE  /\ proc[p].req \in ReqIds /\ proc[p].value \in DOMAIN typed
         /\ typed[proc[p].value].req = proc[p].req
<1>1. CASE p \in Humans
  <2>1. HumanCall(p)
    BY <1>1 DEF TransferInv, CallGood
  <2>2. QED
    BY <2>1 DEF HumanCall, At, TypedFor, ShownRecord
<1>2. CASE p \in Claims
  <2>1. SessionCall(p) /\ \A c \in pasted : c \in CapsuleRecord /\ CapsuleGood(c)
    BY <1>2 DEF TransferInv, TransferTypes, CallGood
  <2>2. QED
    BY <2>1 DEF SessionCall, At, CapsuleGood, TypedFor, CapsuleRecord, ShownRecord
<1>3. QED
  BY <1>1, <1>2 DEF Procs

\* Every step is one of Access', or leaves access.json alone.
LEMMA IsAccessStep == TransferInv /\ [ShareNext]_shareVars => [Next]_vars
<1> SUFFICES ASSUME TransferInv, [ShareNext]_shareVars PROVE [Next]_vars
  OBVIOUS
<1>1. ListRequests \/ (\E id \in ReqIds : FulfillSecretWith(id) \/ FulfillInterrupted(id) \/ Deny(id))
        => Next
  BY DEF Next, HumanNext
<1>2. ASSUME NEW s \in Sessions, NEW n \in Names, NEW id \in ReqIds, RequestSecret(s, n, id)
      PROVE  Next
  <2> DEFINE key == SecretBinding(served[s], n)
  <2>1. /\ key # None /\ served[s] \in Documents /\ Parses(served[s])
        /\ CreateSecretRequest(s, RequestEnv(served[s]), <<n, key>>, {}, id)
    BY <1>2 DEF RequestSecret, TransferInv, TransferTypes
  <2>2. <<n, key>> \in Secrets
    BY <2>1, BindingAssumption
  <2>3. RequestEnv(served[s]) \in Envs
    BY CapsuleAssumption DEF RequestEnv, TransferInv, TransferTypes
  <2>4. QED
    BY <2>1, <2>2, <2>3 DEF Next, AgentNext, SecretContexts
<1>3. ASSUME NEW p \in Procs, Commit(p) \/ CommitUnsaved(p) PROVE Next
  <2>1. proc[p].req \in ReqIds
    BY <1>3, CommitsARequest DEF Commit, CommitUnsaved
  <2>2. QED
    BY <1>1, <1>3, <2>1 DEF Commit, CommitUnsaved
<1>4. CASE CapNext
  BY <1>1, <1>2, <1>3, <1>4
     DEF CapNext, Reviews, MigratePolicy, EditPolicy, UseEnv, StartServer, ClaimCheck, StartClaim,
         StartCapsule, StartFulfill, Seal, KeyGet, KeyMake, CommitRefused, Type, Next
<1>5. CASE (R!RegNext /\ UNCHANGED <<vars, capVars, home>>) \/ UNCHANGED shareVars
  BY <1>5 DEF shareVars
<1>6. ASSUME NEW h \in Homes, ReadProjects(h) \/ ReadInbox(h) \/ Key(h) \/ Leave(h)
      PROVE  [Next]_vars
  BY <1>1, <1>6 DEF ReadProjects, ReadInbox, Key, Leave
<1>7. ASSUME NEW s \in Servers, DaemonInbox(s) PROVE Next
  BY <1>1, <1>7 DEF DaemonInbox
<1>8. QED
  BY <1>4, <1>5, <1>6, <1>7 DEF ShareNext

\* Values typed and capsules printed are not taken back.
Grows ==
  /\ RequestsKept /\ TypeOK'
  /\ pasted \subseteq pasted'
  /\ \A i \in DOMAIN typed : i \in DOMAIN typed' /\ typed'[i] = typed[i]

LEMMA StillAskedKept ==
  ASSUME TypeOK, Grows, NEW t \in ShownRecord, StillAsked(t)
  PROVE  StillAsked(t)'
<1>1. t.req \in ReqIds
  BY DEF ShownRecord
<1>2. MayBecome(requests[t.req], requests'[t.req])
  BY <1>1 DEF Grows, RequestsKept, StillAsked
<1>3. QED
  BY <1>2 DEF MayBecome, SameScope, StillAsked, Shown

LEMMA CallsKept ==
  ASSUME TransferInv, Grows, NEW p \in Procs, proc'[p] = proc[p]
  PROVE  CallGood(p)'
<1>1. CallGood(p)
  BY DEF TransferInv
<1>2. ASSUME p \in Humans PROVE HumanCall(p)'
  BY <1>1, <1>2, StillAskedKept DEF CallGood, TransferInv, HumanCall, TypedFor, Grows
<1>3. ASSUME p \in Claims PROVE SessionCall(p)'
  BY <1>1, <1>3 DEF CallGood, SessionCall, Grows
<1>4. QED
  BY <1>2, <1>3 DEF CallGood

LEMMA CapsulesKept ==
  ASSUME TransferInv, Grows
  PROVE  \A c \in pasted : CapsuleGood(c)'
<1>1. \A c \in pasted : CapsuleGood(c)
  BY DEF TransferInv
<1>2. QED
  BY <1>1 DEF CapsuleGood, TypedFor, Grows

LEMMA EntriesKept ==
  ASSUME Grows, NEW v \in StoredRecord, EntryGood(v)
  PROVE  EntryGood(v)'
<1>1. v.value \in DOMAIN typed' /\ typed'[v.value] = typed[v.value]
  BY DEF EntryGood, Grows
<1>2. v.saved => requests'[v.req] # None /\ requests'[v.req].status \in Terminal
  BY DEF EntryGood, StoredRecord, Grows, RequestsKept, MayBecome
<1>3. QED
  BY <1>1, <1>2 DEF EntryGood

\* The invariant is lost to nothing but the calls, values and entries that are new.
LEMMA NewIsGood ==
  ASSUME TransferInv, Grows, TransferTypes',
         \A p \in Procs : proc'[p] = proc[p] \/ CallGood(p)',
         \A i \in DOMAIN typed' : i \in DOMAIN typed \/ StillAsked(typed[i])',
         \A c \in pasted' : c \in pasted \/ CapsuleGood(c)',
         \A i \in DOMAIN stored' :
           (i \in DOMAIN stored /\ stored'[i] = stored[i]) \/ EntryGood(stored[i])',
         OneUse'
  PROVE  TransferInv'
<1>1. ASSUME NEW i \in DOMAIN typed' PROVE StillAsked(typed[i])'
  <2>1. CASE i \in DOMAIN typed
    <3>1. typed[i] \in ShownRecord /\ StillAsked(typed[i]) /\ typed'[i] = typed[i]
      BY <2>1, ElementOfSeq, LenProperties DEF TransferInv, TransferTypes, Grows
    <3>2. QED
      BY <3>1, StillAskedKept DEF TransferInv, StillAsked, Shown
  <2>2. QED
    BY <2>1
<1>2. \A p \in Procs : CallGood(p)'
  BY CallsKept
<1>3. \A c \in pasted' : CapsuleGood(c)'
  BY CapsulesKept
<1>4. ASSUME NEW i \in DOMAIN stored' PROVE EntryGood(stored[i])'
  <2>1. CASE i \in DOMAIN stored /\ stored'[i] = stored[i]
    <3>1. stored[i] \in StoredRecord /\ EntryGood(stored[i])
      BY <2>1, ElementOfSeq, LenProperties DEF TransferInv, TransferTypes
    <3>2. QED
      BY <2>1, <3>1, EntriesKept DEF EntryGood
  <2>2. QED
    BY <2>1
<1>5. QED
  BY <1>1, <1>2, <1>3, <1>4 DEF TransferInv, Grows

-----------------------------------------------------------------------------
(* The steps, by what they change.                                         *)

\* Policies, servers, environments and requests.
LEMMA QuietStep ==
  ASSUME TransferInv, RequestsKept, TypeOK',
         \/ UNCHANGED capVars
         \/ Reviews \/ MigratePolicy
         \/ \E f \in Policies : EditPolicy(f)
         \/ \E e \in Envs : UseEnv(e)
         \/ \E s \in Sessions : StartServer(s)
         \/ \E s \in Sessions, n \in Names, id \in ReqIds : RequestSecret(s, n, id)
  PROVE  TransferInv'
<1>1. UNCHANGED <<capsuleKey, proc, pasted, typed, stored>>
  BY DEF capVars, Reviews, MigratePolicy, EditPolicy, UseEnv, StartServer, RequestSecret
<1>2. policy' \in Documents
  BY CapsuleAssumption, MigratedOnce
     DEF TransferInv, TransferTypes, Documents, capVars, Reviews, MigratePolicy, EditPolicy,
         UseEnv, StartServer, RequestSecret
<1>3. /\ served' \in [Sessions -> Documents \cup {None}] /\ activeEnv' \in Envs
      /\ \A s \in Sessions : served'[s] # None => Parses(served'[s])
  BY DEF TransferInv, TransferTypes, capVars, Reviews, MigratePolicy, EditPolicy, UseEnv,
         StartServer, RequestSecret
<1>4. Grows /\ TransferTypes' /\ OneUse'
  BY <1>1, <1>2, <1>3 DEF Grows, TransferTypes, TransferInv, OneUse
<1>5. QED
  BY <1>1, <1>4, NewIsGood

\* The call of one process moves on.
LEMMA CallStep ==
  ASSUME TransferInv, RequestsKept, TypeOK',
         UNCHANGED <<policy, served, activeEnv, pasted, typed, stored>>,
         capsuleKey' \in Procs \cup {None},
         NEW p \in Procs, NEW x \in CallRecord, proc' = [proc EXCEPT ![p] = x],
         CallGood(p)'
  PROVE  TransferInv'
<1>1. \A q \in Procs : q # p => proc'[q] = proc[q]
  BY DEF TransferInv, TransferTypes
<1>2. Grows /\ TransferTypes' /\ OneUse'
  BY DEF Grows, TransferTypes, TransferInv, OneUse
<1>3. QED
  BY <1>1, <1>2, NewIsGood

LEMMA IdleCall == Idle \in CallRecord
BY DEF Idle, CallRecord

LEMMA KeyStep ==
  ASSUME TransferInv, RequestsKept, TypeOK', NEW p \in Procs, KeyGet(p) \/ KeyMake(p)
  PROVE  TransferInv'
<1> DEFINE x == IF KeyGet(p) /\ capsuleKey = None THEN [proc[p] EXCEPT !.pc = "newKey"]
                ELSE [proc[p] EXCEPT !.pc = "keyed", !.key = IF KeyGet(p) THEN capsuleKey ELSE p]
<1>1. proc[p] \in CallRecord /\ capsuleKey \in Procs \cup {None} /\ proc \in [Procs -> CallRecord]
  BY DEF TransferInv, TransferTypes
<1>2. proc[p].pc \in {"key", "newKey"} /\ CallGood(p)
  BY DEF KeyGet, KeyMake, At, TransferInv
<1>3. x \in CallRecord
  BY <1>1, ZenonT(60) DEF CallRecord
<1>4. proc' = [proc EXCEPT ![p] = x]
  BY <1>1 DEF KeyGet, KeyMake, At
<1>5. /\ UNCHANGED <<policy, served, activeEnv, pasted, typed, stored>>
      /\ capsuleKey' \in Procs \cup {None}
  BY <1>1 DEF KeyGet, KeyMake
<1>6. /\ proc'[p].pc \in {"newKey", "keyed"} /\ proc'[p].shown = proc[p].shown
      /\ proc'[p].req = proc[p].req /\ proc'[p].value = proc[p].value
      /\ proc'[p].capsule = proc[p].capsule
  BY <1>1, <1>4 DEF CallRecord
<1>7. CallGood(p)'
  <2>1. ASSUME p \in Humans PROVE HumanCall(p)'
    BY <1>2, <1>5, <1>6, <2>1, StillAskedKept DEF CallGood, HumanCall, TypedFor, TransferInv, Grows
  <2>2. ASSUME p \in Claims PROVE SessionCall(p)'
    BY <1>2, <1>5, <1>6, <2>2 DEF CallGood, SessionCall
  <2>3. QED
    BY <2>1, <2>2 DEF CallGood
<1> HIDE DEF x
<1>8. QED
  BY <1>3, <1>4, <1>5, <1>7, CallStep

\* A prompt shows what its request asks for.
LEMMA PromptStep ==
  ASSUME TransferInv, RequestsKept, TypeOK', NEW h \in Humans, NEW id \in ReqIds,
         StartCapsule(h, id) \/ StartFulfill(h, id)
  PROVE  TransferInv'
<1>1. /\ UNCHANGED <<vars, policy, served, activeEnv, capsuleKey, pasted, typed, stored>>
      /\ capsuleKey' \in Procs \cup {None} /\ h \in Procs
  BY DEF StartCapsule, StartFulfill, TransferInv, TransferTypes, Procs
<1>2. Shown(id) \in ShownRecord /\ StillAsked(Shown(id)) /\ requests' = requests
  BY <1>1 DEF StartCapsule, StartFulfill, PendingSecret, Shown, ShownRecord, StillAsked, TransferInv,
              TypeOK, Request, RequestRecord, vars
<1>3. PICK x \in CallRecord :
        x.pc = "prompt" /\ x.shown = Shown(id) /\ proc' = [proc EXCEPT ![h] = x]
  <2>1. CASE StartCapsule(h, id)
    <3> DEFINE x == [Idle EXCEPT !.pc = "prompt", !.op = "create", !.shown = Shown(id)]
    <3>1. proc' = [proc EXCEPT ![h] = x]
      BY <2>1 DEF StartCapsule
    <3>2. x \in CallRecord /\ x.pc = "prompt" /\ x.shown = Shown(id)
      BY <1>2 DEF CallRecord, Idle
    <3>3. QED
      BY <3>1, <3>2
  <2>2. CASE StartFulfill(h, id)
    <3> DEFINE x == [Idle EXCEPT !.pc = "prompt", !.op = "fulfill", !.shown = Shown(id), !.policy = policy]
    <3>1. proc' = [proc EXCEPT ![h] = x]
      BY <2>2 DEF StartFulfill
    <3>2. x \in CallRecord /\ x.pc = "prompt" /\ x.shown = Shown(id)
      BY <1>2 DEF CallRecord, Idle, TransferInv, TransferTypes
    <3>3. QED
      BY <3>1, <3>2
  <2>3. QED
    BY <2>1, <2>2
<1>4. proc'[h].pc = "prompt" /\ proc'[h].shown = Shown(id)
  BY <1>1, <1>3 DEF TransferInv, TransferTypes
<1>5. HumanCall(h)' /\ h \notin Claims
  BY <1>2, <1>4, CapsuleAssumption DEF HumanCall, StillAsked, Shown
<1>6. QED
  BY <1>1, <1>3, <1>5, CallStep DEF CallGood

\* A claim is of a capsule that was printed.
LEMMA ClaimStep ==
  ASSUME TransferInv, RequestsKept, TypeOK', NEW s \in Claims, NEW c \in pasted, StartClaim(s, c)
  PROVE  TransferInv'
<1> DEFINE x == [Idle EXCEPT !.pc = "key", !.op = "claim", !.capsule = c, !.policy = served[s[1]]]
<1>1. /\ UNCHANGED <<policy, served, activeEnv, capsuleKey, pasted, typed, stored>>
      /\ capsuleKey' \in Procs \cup {None} /\ s \in Procs /\ proc' = [proc EXCEPT ![s] = x]
  BY DEF StartClaim, TransferInv, TransferTypes, Procs
<1>2. x \in CallRecord
  <2>1. s[1] \in Sessions
    BY DEF Claims
  <2>2. QED
    BY <2>1 DEF CallRecord, Idle, TransferInv, TransferTypes
<1>3. proc'[s].pc = "key" /\ proc'[s].capsule = c
  BY <1>1 DEF Idle, TransferInv, TransferTypes
<1>4. SessionCall(s)' /\ s \notin Humans
  BY <1>1, <1>3, CapsuleAssumption DEF SessionCall
<1> HIDE DEF x
<1>5. QED
  BY <1>1, <1>2, <1>4, CallStep DEF CallGood

\* A call that ends.
LEMMA EndStep ==
  ASSUME TransferInv, RequestsKept, TypeOK', NEW p \in Procs, Done(p),
         UNCHANGED <<policy, served, activeEnv, capsuleKey, pasted, typed, stored>>
  PROVE  TransferInv'
<1>1. proc' = [proc EXCEPT ![p] = Idle] /\ capsuleKey' \in Procs \cup {None}
  BY DEF Done, TransferInv, TransferTypes
<1>2. CallGood(p)'
  BY <1>1 DEF CallGood, HumanCall, SessionCall, Idle, TransferInv, TransferTypes
<1>3. QED
  BY <1>1, <1>2, IdleCall, CallStep

\* A claim goes on with a capsule that is this session's and has not expired.
LEMMA CheckStep ==
  ASSUME TransferInv, RequestsKept, TypeOK', NEW s \in Claims, ClaimCheck(s)
  PROVE  TransferInv'
<1>1. s \in Procs /\ s \notin Humans
  BY CapsuleAssumption DEF Procs
<1>2. CASE Done(s)
  BY <1>1, <1>2, EndStep DEF ClaimCheck
<1>3. CASE ~Done(s)
  <2> DEFINE c == proc[s].capsule
             x == [proc[s] EXCEPT !.pc = "commit", !.req = c.shown.req, !.value = c.value, !.opened = now]
  <2>1. /\ UNCHANGED <<policy, served, activeEnv, capsuleKey, pasted, typed, stored>>
        /\ capsuleKey' \in Procs \cup {None} /\ proc' = [proc EXCEPT ![s] = x]
        /\ Opens(s) /\ IsFor(s[1], c) /\ At(s, "keyed")
    BY <1>3 DEF ClaimCheck, TransferInv, TransferTypes
  <2>2. c \in pasted /\ c \in CapsuleRecord /\ proc[s] \in CallRecord /\ now \in Nat
    <3>1. SessionCall(s) /\ proc[s].pc # "idle" /\ proc[s] \in CallRecord /\ now \in Nat
      BY <1>1, <2>1 DEF TransferInv, TransferTypes, TypeOK, CallGood, At
    <3>2. c \in pasted
      BY <3>1 DEF SessionCall
    <3>3. QED
      BY <3>1, <3>2 DEF TransferInv, TransferTypes
  <2>3. x \in CallRecord
    BY <2>2, ZenonT(60) DEF CallRecord, CapsuleRecord, ShownRecord
  <2>4. /\ proc'[s].capsule = c /\ proc'[s].req = c.shown.req /\ proc'[s].value = c.value
        /\ proc'[s].opened = now /\ proc'[s].pc = "commit"
    BY <1>1, <2>1, <2>2 DEF CallRecord, TransferInv, TransferTypes
  <2>5. SessionCall(s)'
    <3>1. c.shown.session = s[1] /\ now < c.expires /\ pasted' = pasted
      BY <2>1 DEF Opens, IsFor
    <3>2. QED
      BY <2>2, <2>4, <3>1 DEF SessionCall
  <2> HIDE DEF x
  <2>6. QED
    BY <1>1, <2>1, <2>3, <2>5, CallStep DEF CallGood
<1>4. QED
  BY <1>2, <1>3

\* A typed value is a new number, typed for what its prompt showed.
LEMMA TypingStep ==
  ASSUME TransferInv, RequestsKept, TypeOK', NEW h \in Humans, Type(h)
  PROVE  TransferInv'
<1>1. h \in Procs /\ h \notin Claims
  BY CapsuleAssumption DEF Procs
<1>2. CASE Done(h) /\ UNCHANGED typed
  BY <1>1, <1>2, EndStep DEF Type
<1>3. CASE ~(Done(h) /\ UNCHANGED typed)
  <2>1. PICK t \in ShownRecord : t = proc[h].shown /\ StillAsked(t) /\ At(h, "prompt")
    BY <1>1, <1>3 DEF TransferInv, CallGood, HumanCall, At, Type
  <2> DEFINE x == [proc[h] EXCEPT !.pc = IF proc[h].op = "create" THEN "key" ELSE "commit",
                                  !.value = Len(typed) + 1, !.req = t.req]
  <2>2. /\ UNCHANGED <<policy, served, activeEnv, capsuleKey, pasted, stored>>
        /\ typed' = Append(typed, t) /\ proc' = [proc EXCEPT ![h] = x]
        /\ proc[h] \in CallRecord /\ typed \in Seq(ShownRecord)
    BY <1>1, <1>3, <2>1 DEF Type, TransferInv, TransferTypes
  <2>3. /\ typed' \in Seq(ShownRecord) /\ Len(typed) \in Nat /\ DOMAIN typed = 1 .. Len(typed)
        /\ DOMAIN typed' = 1 .. Len(typed) + 1 /\ typed'[Len(typed) + 1] = t
        /\ \A i \in DOMAIN typed : typed'[i] = typed[i]
    BY <2>2, AppendProperties, LenProperties
  <2>4. x \in CallRecord
    <3>1. t.req \in ReqIds /\ Len(typed) + 1 \in Nat
      BY <2>3 DEF ShownRecord
    <3>2. QED
      BY <2>2, <3>1, ZenonT(60) DEF CallRecord
  <2> HIDE DEF x
  <2>5. Grows /\ TransferTypes' /\ OneUse'
    <3>1. Grows /\ OneUse'
      BY <2>2, <2>3 DEF Grows, TransferInv, OneUse
    <3>2. TransferTypes'
      BY <2>2, <2>3, <2>4 DEF TransferInv, TransferTypes
    <3>3. QED
      BY <3>1, <3>2
  <2> USE DEF x
  <2>6. StillAsked(t)'
    BY <2>1, <2>5, StillAskedKept DEF TransferInv
  <2>7. \A i \in DOMAIN typed' : i \in DOMAIN typed \/ StillAsked(typed[i])'
    BY <2>3, <2>6 DEF StillAsked, Shown
  <2>8. /\ proc'[h].pc # "prompt" /\ proc'[h].shown = t /\ proc'[h].value = Len(typed) + 1
        /\ proc'[h].req = t.req /\ \A p \in Procs : p # h => proc'[p] = proc[p]
    BY <1>1, <2>1, <2>2 DEF CallRecord, TransferInv, TransferTypes
  <2>9. HumanCall(h)'
    BY <2>3, <2>6, <2>8 DEF HumanCall, TypedFor, StillAsked, Shown
  <2> HIDE DEF x
  <2>10. QED
    BY <1>1, <2>2, <2>5, <2>7, <2>8, <2>9, NewIsGood DEF CallGood
<1>4. QED
  BY <1>2, <1>3

\* A capsule holds what was typed at its prompt, for as long as a capsule may live.
LEMMA SealingStep ==
  ASSUME TransferInv, RequestsKept, TypeOK', NEW h \in Humans, NEW ttl \in TTLs, Seal(h, ttl)
  PROVE  TransferInv'
<1>1. h \in Procs /\ h \notin Claims
  BY CapsuleAssumption DEF Procs
<1>2. CASE pasted' = pasted
  BY <1>1, <1>2, EndStep DEF Seal
<1>3. CASE pasted' # pasted
  <2> DEFINE c == [shown |-> proc[h].shown, value |-> proc[h].value, key |-> proc[h].key,
                   sealed |-> now, expires |-> now + SealedTTL(ttl)]
  <2>1. /\ UNCHANGED <<policy, served, activeEnv, capsuleKey, typed, stored>>
        /\ pasted' = pasted \cup {c} /\ proc' = [proc EXCEPT ![h] = Idle] /\ At(h, "keyed")
    BY <1>3 DEF Seal, Done
  <2>2. SealedTTL(ttl) \in 0 .. MaxCapsuleTTL /\ MaxCapsuleTTL \in Nat /\ now \in Nat
    BY CapsuleAssumption, DurationAssumption DEF SealedTTL, TransferInv, TypeOK
  <2>3. /\ proc[h] \in CallRecord /\ proc[h].shown \in ShownRecord
        /\ TypedFor(proc[h].value, proc[h].shown)
    BY <1>1, <2>1 DEF TransferInv, TransferTypes, CallGood, HumanCall, At
  <2>4. c \in CapsuleRecord
    BY <2>2, <2>3 DEF CallRecord, CapsuleRecord
  <2>5. c.value = proc[h].value /\ c.shown = proc[h].shown /\ c.expires <= c.sealed + MaxCapsuleTTL
    BY <2>2
  <2> HIDE DEF c
  <2>6. Grows /\ TransferTypes' /\ OneUse'
    BY <2>1, <2>4, IdleCall DEF Grows, TransferTypes, TransferInv, OneUse
  <2>7. \A d \in pasted' : d \in pasted \/ CapsuleGood(d)'
    BY <2>1, <2>3, <2>5 DEF CapsuleGood, TypedFor
  <2>8. /\ \A p \in Procs : p # h => proc'[p] = proc[p]
        /\ HumanCall(h)'
    BY <1>1, <2>1 DEF HumanCall, Idle, TransferInv, TransferTypes
  <2>9. QED
    BY <1>1, <2>1, <2>6, <2>7, <2>8, NewIsGood DEF CallGood
<1>4. QED
  BY <1>2, <1>3

\* What Commit and CommitUnsaved append to the stored values.
EntryOf(p, saved) ==
  [req |-> proc[p].req, value |-> proc[p].value, by |-> p, saved |-> saved,
   place |-> Place(proc[p].policy, requests[proc[p].req]),
   capsule |-> proc[p].capsule, opened |-> proc[p].opened]

\* The entry is what its call carries, and the request it is for was pending.
LEMMA EntryIsGood ==
  ASSUME TransferInv, Grows, NEW p \in Procs, NEW saved \in BOOLEAN, NEW v,
         v = EntryOf(p, saved), At(p, "commit"),
         saved => requests'[proc[p].req] # None /\ requests'[proc[p].req].status \in Terminal
  PROVE  v \in StoredRecord /\ EntryGood(v)'
<1> DEFINE n == proc[p].value
<1>1. PICK t \in ShownRecord : t = typed[n] /\ n \in DOMAIN typed /\ t.req = proc[p].req /\ StillAsked(t)
  <2>1. n \in DOMAIN typed /\ typed[n].req = proc[p].req
    BY CommitsARequest
  <2>2. typed[n] \in ShownRecord /\ StillAsked(typed[n])
    BY <2>1, ElementOfSeq, LenProperties DEF TransferInv, TransferTypes
  <2>3. QED
    BY <2>1, <2>2
<1>2. Place(proc[p].policy, requests[proc[p].req]) \in Placement(t)
  BY <1>1 DEF StillAsked, Shown, Place, Placement
<1>3. proc[p] \in CallRecord /\ proc[p].req \in ReqIds /\ n \in Nat
  BY <1>1 DEF TransferInv, TransferTypes, CallRecord, ShownRecord
<1>4. v \in StoredRecord
  BY <1>2, <1>3 DEF EntryOf, StoredRecord, CallRecord
<1>5. n \in DOMAIN typed' /\ typed'[n] = t
  BY <1>1 DEF Grows
<1>6. ASSUME p \in Claims
      PROVE  /\ t.session = p[1] /\ proc[p].capsule \in CapsuleRecord
             /\ proc[p].opened < proc[p].capsule.expires
             /\ proc[p].opened < proc[p].capsule.sealed + MaxCapsuleTTL
  <2>1. SessionCall(p) /\ \A c \in pasted : c \in CapsuleRecord /\ CapsuleGood(c)
    BY <1>6 DEF TransferInv, TransferTypes, CallGood
  <2>2. PICK c \in CapsuleRecord : c = proc[p].capsule /\ CapsuleGood(c)
    BY <2>1 DEF SessionCall, At
  <2>3. proc[p].value = c.value /\ c.shown.session = p[1] /\ proc[p].opened < c.expires
    BY <2>1, <2>2 DEF SessionCall, At
  <2>4. /\ c.shown = t /\ c.expires <= c.sealed + MaxCapsuleTTL
        /\ c.expires \in Nat /\ c.sealed \in Nat /\ MaxCapsuleTTL \in Nat /\ proc[p].opened \in Nat
    BY <1>1, <1>3, <2>2, <2>3, CapsuleAssumption DEF CapsuleGood, TypedFor, CapsuleRecord, CallRecord
  <2>5. QED
    BY <2>2, <2>3, <2>4
<1>7. EntryGood(v)'
  BY <1>1, <1>2, <1>5, <1>6 DEF EntryGood, EntryOf
<1>8. QED
  BY <1>4, <1>7

\* FulfillSecretWith's callback stores one more value for a request that is pending.
LEMMA StoringStep ==
  ASSUME TransferInv, RequestsKept, TypeOK', NEW p \in Procs, Commit(p) \/ CommitUnsaved(p)
  PROVE  /\ TransferInv'
         /\ \A i \in DOMAIN stored' : i > Len(stored) =>
              LET r == requests[stored'[i].req] IN r.status = "pending" /\ now < r.expiresAt
<1>0. PICK saved \in BOOLEAN :
        stored' = Append(stored, EntryOf(p, saved)) /\ (saved => Commit(p))
  BY DEF Commit, CommitUnsaved, Reaches, EntryOf
<1>1. PICK v : v = EntryOf(p, saved) /\ stored' = Append(stored, v) /\ (saved => Commit(p))
  BY <1>0
<1>2. /\ At(p, "commit") /\ proc[p].req \in ReqIds /\ Resolvable(proc[p].req, {"secret"})
      /\ proc' = [proc EXCEPT ![p] = Idle]
      /\ UNCHANGED <<policy, served, activeEnv, capsuleKey, pasted, typed>>
  BY CommitsARequest DEF Commit, CommitUnsaved, Done, FulfillSecretWith, FulfillInterrupted
<1>3. Grows
  BY <1>2 DEF Grows
<1>4. saved => requests'[proc[p].req] # None /\ requests'[proc[p].req].status \in Terminal
  <2> SUFFICES ASSUME saved
               PROVE  requests'[proc[p].req] # None /\ requests'[proc[p].req].status \in Terminal
    OBVIOUS
  <2>1. LivePending(proc[p].req) /\ Resolve(proc[p].req, "fulfilled", None)
    BY <1>1 DEF Commit, FulfillSecretWith, Resolvable
  <2>2. /\ requests[proc[p].req] \in Request
        /\ requests'[proc[p].req] = [requests[proc[p].req] EXCEPT !.status = "fulfilled", !.result = None]
    BY <1>2, <2>1, ResolveType, ZenonT(60) DEF TransferInv, Status
  <2>3. [requests[proc[p].req] EXCEPT !.status = "fulfilled", !.result = None] \in Request
    BY <2>2 DEF Request, RequestRecord, Status
  <2>4. QED
    BY <2>2, <2>3, NoneAssumption, ZenonT(60) DEF Request, RequestRecord, Terminal, Status
<1>5. v \in StoredRecord /\ EntryGood(v)'
  BY <1>1, <1>2, <1>3, <1>4, EntryIsGood
<1>6. /\ stored' \in Seq(StoredRecord) /\ Len(stored) \in Nat /\ DOMAIN stored = 1 .. Len(stored)
      /\ DOMAIN stored' = 1 .. Len(stored) + 1 /\ stored'[Len(stored) + 1] = v
      /\ \A i \in DOMAIN stored : stored'[i] = stored[i]
  BY <1>1, <1>5, AppendProperties, LenProperties DEF TransferInv, TransferTypes
<1>7. v.req = proc[p].req
  BY <1>1 DEF EntryOf
<1>8. requests[v.req].status = "pending" /\ now < requests[v.req].expiresAt
  BY <1>2, <1>7 DEF Resolvable, LivePending, IsPending
<1>9. OneUse'
  <2> SUFFICES ASSUME NEW i \in DOMAIN stored', NEW j \in DOMAIN stored', i < j,
                      stored'[i].req = stored'[j].req
               PROVE  ~stored'[i].saved
    BY DEF OneUse
  <2>1. CASE j \in DOMAIN stored
    BY <1>6, <2>1 DEF TransferInv, OneUse
  <2>2. CASE j = Len(stored) + 1
    <3>1. i \in DOMAIN stored /\ stored'[i] = stored[i] /\ stored[i].req = v.req
      BY <1>6, <2>2
    <3>2. stored[i].saved => requests[v.req].status \in Terminal
      BY <3>1 DEF TransferInv, EntryGood
    <3>3. stored[i].saved \in BOOLEAN
      <4>1. stored[i] \in StoredRecord
        BY <3>1, ElementOfSeq, LenProperties DEF TransferInv, TransferTypes
      <4>2. QED
        BY <4>1 DEF StoredRecord
    <3>4. QED
      BY <1>8, <3>1, <3>2, <3>3 DEF Terminal
  <2>3. QED
    BY <1>6, <2>1, <2>2
<1>10. \A i \in DOMAIN stored' :
         (i \in DOMAIN stored /\ stored'[i] = stored[i]) \/ EntryGood(stored[i])'
  BY <1>5, <1>6 DEF EntryGood
<1>11. \A q \in Procs : proc'[q] = proc[q] \/ CallGood(q)'
  BY <1>2 DEF CallGood, HumanCall, SessionCall, Idle, TransferInv, TransferTypes
<1>12. TransferTypes'
  BY <1>2, <1>6, IdleCall DEF TransferInv, TransferTypes
<1>13. TransferInv'
  BY <1>2, <1>3, <1>9, <1>10, <1>11, <1>12, NewIsGood
<1>14. QED
  BY <1>6, <1>8, <1>13

-----------------------------------------------------------------------------
(* The theorems.                                                           *)

\* Every step but the last one of a transfer leaves the stored values alone.
LEMMA OtherStep ==
  ASSUME TransferInv, [ShareNext]_shareVars, \A p \in Procs : ~Commit(p) /\ ~CommitUnsaved(p)
  PROVE  TransferInv' /\ stored' = stored
<1>1. RequestsKept /\ TypeOK'
  BY IsAccessStep, RequestStep, TypeStep DEF TransferInv
<1>2. CASE \/ Reviews \/ MigratePolicy
           \/ \E f \in Policies : EditPolicy(f)
           \/ \E e \in Envs : UseEnv(e)
           \/ \E s \in Sessions : StartServer(s)
           \/ \E s \in Sessions, n \in Names, id \in ReqIds : RequestSecret(s, n, id)
  <2>1. stored' = stored
    BY <1>2 DEF capVars, Reviews, MigratePolicy, EditPolicy, UseEnv, StartServer, RequestSecret
  <2>2. QED
    BY <1>1, <1>2, <2>1, QuietStep
<1>3. CASE UNCHANGED capVars
  BY <1>1, <1>3, QuietStep DEF capVars
<1>4. ASSUME NEW s \in Claims, ClaimCheck(s) \/ \E c \in pasted : StartClaim(s, c)
      PROVE  TransferInv' /\ stored' = stored
  BY <1>1, <1>4, CheckStep, ClaimStep DEF ClaimCheck, StartClaim
<1>5. ASSUME NEW h \in Humans,
             \/ Type(h)
             \/ \E id \in ReqIds : StartCapsule(h, id) \/ StartFulfill(h, id)
             \/ \E ttl \in TTLs : Seal(h, ttl)
      PROVE  TransferInv' /\ stored' = stored
  <2>1. stored' = stored
    BY <1>5 DEF Type, StartCapsule, StartFulfill, Seal
  <2>2. QED
    BY <1>1, <1>5, <2>1, TypingStep, PromptStep, SealingStep
<1>6. ASSUME NEW p \in Procs, KeyGet(p) \/ KeyMake(p) PROVE TransferInv' /\ stored' = stored
  BY <1>1, <1>6, KeyStep DEF KeyGet, KeyMake
<1>7. ASSUME NEW p \in Procs, CommitRefused(p) PROVE TransferInv' /\ stored' = stored
  BY <1>1, <1>7, EndStep DEF CommitRefused
<1>8. CASE CapNext
  BY <1>2, <1>4, <1>5, <1>6, <1>7, <1>8 DEF CapNext
<1>9. CASE ~CapNext
  BY <1>3, <1>9 DEF ShareNext, shareVars, ReadProjects, ReadInbox, Key, Leave, DaemonInbox
<1>10. QED
  BY <1>8, <1>9

LEMMA TransferSteps ==
  ASSUME TransferInv, [ShareNext]_shareVars
  PROVE  /\ TransferInv'
         /\ \A i \in DOMAIN stored' : i > Len(stored) =>
              LET r == requests[stored'[i].req] IN r.status = "pending" /\ now < r.expiresAt
<1>1. RequestsKept /\ TypeOK'
  BY IsAccessStep, RequestStep, TypeStep DEF TransferInv
<1>2. CASE \E p \in Procs : Commit(p) \/ CommitUnsaved(p)
  BY <1>1, <1>2, StoringStep
<1>3. CASE \A p \in Procs : ~Commit(p) /\ ~CommitUnsaved(p)
  <2>1. TransferInv' /\ stored' = stored
    BY <1>3, OtherStep
  <2>2. \A i \in DOMAIN stored : ~(i > Len(stored))
    BY LenProperties DEF TransferInv, TransferTypes
  <2>3. QED
    BY <2>1, <2>2
<1>4. QED
  BY <1>2, <1>3

LEMMA TransferStart == ShareInit => TransferInv
<1> SUFFICES ASSUME CapInit PROVE TransferInv
  BY DEF ShareInit
<1>1. TypeOK
  BY DEF CapInit, Init, TypeOK
<1>2. TransferTypes
  BY CapsuleAssumption, IdleCall DEF CapInit, TransferTypes, Documents
<1>3. \A p \in Procs : CallGood(p)
  BY DEF CapInit, CallGood, HumanCall, SessionCall, Idle
<1>4. QED
  BY <1>1, <1>2, <1>3 DEF CapInit, TransferInv, OneUse

\* Whatever agents, prompts, claims, home screens and inboxes do together, access.json moves
\* as the access manager alone would move it (server.go request_secret, capsule.go, access.go
\* FulfillSecretWith, home.go, daemon): the whole implements Access, and its theorems hold of it.
THEOREM SharingImplementsAccess == ShareSpec => Spec
<1>1. ShareInit => Init
  BY DEF ShareInit, CapInit
<1>2. TransferInv /\ [ShareNext]_shareVars => TransferInv' /\ [Next]_vars
  BY TransferSteps, IsAccessStep
<1>3. QED
  BY <1>1, <1>2, TransferStart, PTL DEF ShareSpec, Spec

\* The registry and the home screens take no part in a transfer: what they do to it is to
\* sweep the requests, as Reviews may at any time (home.go, daemon inbox).
THEOREM SharingImplementsCapsules == ShareSpec => CapSpec
<1>1. ShareInit => CapInit
  BY DEF ShareInit
<1>2. [ShareNext]_shareVars => [CapNext]_<<vars, capVars>>
  <2> SUFFICES ASSUME [ShareNext]_shareVars, ~UNCHANGED <<vars, capVars>> PROVE CapNext
    OBVIOUS
  <2>1. ASSUME ListRequests, UNCHANGED capVars PROVE CapNext
    BY <2>1 DEF CapNext, Reviews
  <2>2. CASE \E h \in Homes : ReadProjects(h) \/ ReadInbox(h) \/ Key(h) \/ Leave(h)
    BY <2>1, <2>2 DEF ReadProjects, ReadInbox, Key, Leave
  <2>3. CASE \E s \in Servers : DaemonInbox(s)
    BY <2>1, <2>3 DEF DaemonInbox
  <2>4. QED
    BY <2>2, <2>3 DEF ShareNext, shareVars
<1>3. QED
  BY <1>1, <1>2, PTL DEF ShareSpec, CapSpec

\* Of the prompts, capsules and claims for one request at most one puts a value where runs
\* find it (and none after it), at the place its prompt showed, while the request is pending
\* (access.go FulfillSecretWith, capsule.go Seal and Open).
THEOREM TransfersShown == ShareSpec => TransfersAreShown
<1>1. TransferInv => OneUse /\ StoredAsShown
  <2> SUFFICES ASSUME TransferInv, NEW i \in DOMAIN stored
               PROVE  LET v == stored[i]  t == typed[v.value]
                      IN /\ t.req = v.req
                         /\ v.place \in {<<"env", t.env, t.secret[2]>>, <<"store", None, t.secret[1]>>}
    BY DEF StoredAsShown, TransferInv
  <2>1. EntryGood(stored[i])
    BY DEF TransferInv
  <2>2. QED
    BY <2>1 DEF EntryGood, Placement
<1>2. TransferInv /\ [ShareNext]_shareVars
        => [\A i \in DOMAIN stored' : i > Len(stored) =>
              LET r == requests[stored'[i].req] IN r.status = "pending" /\ now < r.expiresAt]_<<vars, capVars>>
  BY TransferSteps
<1>3. TransferInv /\ [ShareNext]_shareVars => TransferInv'
  BY TransferSteps
<1>4. QED
  BY <1>1, <1>2, <1>3, TransferStart, PTL DEF ShareSpec, TransfersAreShown, StoresWhilePending

\* A capsule delivers only to the session that asked, and only in its short life
\* (capsule.go Open, mcp/server.go claim_capsule).
THEOREM ClaimsGood == ShareSpec => []ClaimsAreGood
<1>1. TransferInv => ClaimsAreGood
  BY DEF TransferInv, EntryGood, ClaimsAreGood, ClaimsAreTheAskers, ClaimsAreFresh
<1>2. TransferInv /\ [ShareNext]_shareVars => TransferInv'
  BY TransferSteps
<1>3. QED
  BY <1>1, <1>2, TransferStart, PTL DEF ShareSpec

-----------------------------------------------------------------------------
(* The policy.                                                             *)

\* What Parse accepts binds every name a command uses.
LEMMA ParsedBinds ==
  ASSUME NEW f, Parses(f), NEW n \in SecretNames(f)
  PROVE  SecretBinding(f, n) # None
<1>1. PICK i \in DOMAIN f.commands : \E j \in DOMAIN f.commands[i].secrets : n = f.commands[i].secrets[j]
  BY DEF SecretNames
<1>2. MayUse(f, f.commands[i], n)
  BY <1>1 DEF Parses
<1>3. CASE f.version = "2"
  BY <1>2, <1>3, CapsuleAssumption DEF MayUse, SecretBinding, UsesEnvironmentEntries
<1>4. CASE f.version # "2"
  <2>1. n \in Aliases(f) /\ f.secrets[n].env \in GoodNames
    BY <1>2, <1>4 DEF MayUse, Parses, ValidSecrets
  <2>2. QED
    BY <1>4, <2>1, CapsuleAssumption DEF SecretBinding, UsesEnvironmentEntries
<1>5. QED
  BY <1>3, <1>4

\* The rewrite gives every command the keys its aliases had.
LEMMA RewriteBinds ==
  ASSUME NEW f \in Documents, MigrateV1ToV2(f) # None
  PROVE  /\ \A i \in DOMAIN f.commands : \A j \in DOMAIN f.commands[i].secrets :
              MigrateV1ToV2(f).commands[i].secrets[j] = SecretBinding(f, f.commands[i].secrets[j])
         /\ \A a, b \in SecretNames(f) : SecretBinding(f, a) = SecretBinding(f, b) => a = b
<1>1. Migratable(f) /\ MigrateV1ToV2(f) = Rewritten(f) /\ f.version = "1" /\ Parses(f)
  BY DEF MigrateV1ToV2, Migratable
<1>2. ASSUME NEW n \in SecretNames(f)
      PROVE  n \in Aliases(f) /\ SecretBinding(f, n) = f.secrets[n].env
  <2>1. PICK i \in DOMAIN f.commands : \E j \in DOMAIN f.commands[i].secrets : n = f.commands[i].secrets[j]
    BY <1>2 DEF SecretNames
  <2>2. MayUse(f, f.commands[i], n)
    BY <1>1, <2>1 DEF Parses
  <2>3. QED
    BY <1>1, <2>2 DEF MayUse, SecretBinding, UsesEnvironmentEntries
<1>3. f \in Policies
  <2>1. ASSUME NEW g \in Policies, f = MigrateV1ToV2(g) PROVE FALSE
    <3>1. f = Rewritten(g)
      BY <2>1 DEF MigrateV1ToV2, Documents
    <3>2. QED
      BY <1>1, <3>1 DEF Rewritten
  <2>2. QED
    BY <2>1 DEF Documents
<1>4. ASSUME NEW i \in DOMAIN f.commands, NEW j \in DOMAIN f.commands[i].secrets
      PROVE  Rewritten(f).commands[i].secrets[j] = SecretBinding(f, f.commands[i].secrets[j])
  <2> DEFINE n == f.commands[i].secrets[j]
             c == [f.commands[i] EXCEPT !.secrets =
                     [k \in DOMAIN @ |-> IF @[k] \in Aliases(f) THEN f.secrets[@[k]].env ELSE @[k]]]
  <2>1. n \in SecretNames(f)
    BY DEF SecretNames
  <2>2. Rewritten(f).commands[i] = c
    BY DEF Rewritten
  <2>3. c.secrets[j] = IF n \in Aliases(f) THEN f.secrets[n].env ELSE n
    BY <1>3, DocumentAssumption
  <2>4. QED
    BY <1>2, <2>1, <2>2, <2>3
<1>5. QED
  BY <1>1, <1>2, <1>4 DEF Migratable

\* Whatever the operator writes, the servers read and the migration rewrites, a name that
\* a command of an accepted policy uses has a storage key, and the same one after the
\* rewrite (policy.go Parse, SecretBinding; policy/migrate.go).
THEOREM PoliciesDoBind == ShareSpec => PoliciesBind
<1>1. TransferInv => AcceptedPoliciesBind
  BY ParsedBinds DEF AcceptedPoliciesBind
<1>2. TransferInv /\ [ShareNext]_shareVars =>
        [policy' = MigrateV1ToV2(policy) =>
           /\ \A i \in DOMAIN policy.commands : \A j \in DOMAIN policy.commands[i].secrets :
                policy'.commands[i].secrets[j] = SecretBinding(policy, policy.commands[i].secrets[j])
           /\ \A a, b \in SecretNames(policy) :
                SecretBinding(policy, a) = SecretBinding(policy, b) => a = b]_<<vars, capVars>>
  <2> SUFFICES ASSUME TransferInv, [ShareNext]_shareVars, policy' = MigrateV1ToV2(policy)
               PROVE  /\ \A i \in DOMAIN policy.commands : \A j \in DOMAIN policy.commands[i].secrets :
                           policy'.commands[i].secrets[j]
                             = SecretBinding(policy, policy.commands[i].secrets[j])
                      /\ \A a, b \in SecretNames(policy) :
                           SecretBinding(policy, a) = SecretBinding(policy, b) => a = b
    OBVIOUS
  <2>1. TransferInv'
    BY TransferSteps
  <2>2. policy \in Documents /\ policy' \in Documents
    BY <2>1 DEF TransferInv, TransferTypes
  <2>3. MigrateV1ToV2(policy) # None
    BY <2>2 DEF Documents
  <2>4. QED
    BY <2>2, <2>3, RewriteBinds
<1>3. TransferInv /\ [ShareNext]_shareVars => TransferInv'
  BY TransferSteps
<1>4. QED
  BY <1>1, <1>2, <1>3, TransferStart, PTL DEF ShareSpec, PoliciesBind, MigrationKeepsBindings

-----------------------------------------------------------------------------
(* projects.json.                                                          *)

\* Every id in the file, and in a copy that may replace it, has been drawn.
Drawn == \A x \in file \cup UNION {user[u].copy : u \in Users} : x.id <= nextId

Entries == [id : Nat \ {0}, path : Paths]

\* What the entries are, and what a command that has loaded the file works with.
RegistryTypes ==
  /\ nextId \in Nat
  /\ file \in SUBSET Entries
  /\ user \in [Users -> [op : {"none", "register", "repair", "remove"}, pc : {"idle", "loaded"},
                         id : Nat, path : Paths \cup {None}, copy : SUBSET Entries]]
  /\ \A u \in Users : user[u].op \in {"register", "repair"} => user[u].path \in Paths

\* The inductive strengthening of ProjectsAreDistinct: an id that is drawn is in no copy.
RegistryInv == RegistryTypes /\ Drawn /\ R!ProjectsAreDistinct

\* A step of one command: it puts one set of entries into the file and forgets its copy.
LEMMA FinishStep ==
  ASSUME RegistryInv, NEW u \in Users, NEW entries \in SUBSET Entries, R!Finish(u, entries),
         nextId' \in Nat, nextId <= nextId', R!Distinct(entries), \A x \in entries : x.id <= nextId'
  PROVE  RegistryInv'
<1>1. user'[u] = R!NoCommand /\ \A w \in Users \ {u} : user'[w] = user[w]
  BY DEF R!Finish, RegistryInv, RegistryTypes
<1>2. RegistryTypes'
  <2>1. R!NoCommand \in [op : {"none", "register", "repair", "remove"}, pc : {"idle", "loaded"},
                       id : Nat, path : Paths \cup {None}, copy : SUBSET Entries]
    BY DEF R!NoCommand
  <2>2. R!NoCommand.op = "none"
    BY DEF R!NoCommand
  <2>3. QED
    BY <1>1, <2>1, <2>2 DEF R!Finish, RegistryInv, RegistryTypes
<1>3. Drawn'
  BY <1>1 DEF R!Finish, RegistryInv, RegistryTypes, Drawn, R!NoCommand, Entries
<1>4. R!ProjectsAreDistinct'
  BY <1>1 DEF R!Finish, RegistryInv, R!ProjectsAreDistinct, R!Distinct, R!NoCommand
<1>5. QED
  BY <1>2, <1>3, <1>4 DEF RegistryInv

\* A step that neither touches the file nor a command, and draws no id.
LEMMA RegistryIdle ==
  ASSUME RegistryInv, UNCHANGED <<file, user, nextId>>
  PROVE  RegistryInv'
BY DEF RegistryInv, RegistryTypes, Drawn, R!ProjectsAreDistinct, Entries

LEMMA LoadStep ==
  ASSUME RegistryInv, NEW u \in Users, NEW op \in {"register", "repair", "remove"},
         NEW id \in Nat, NEW path \in Paths \cup {None},
         op \in {"register", "repair"} => path \in Paths, R!Load(u, op, id, path)
  PROVE  RegistryInv'
<1> DEFINE loaded == [op |-> op, pc |-> "loaded", id |-> id, path |-> path, copy |-> file]
<1>1. /\ file' = file /\ nextId' = nextId
      /\ user'[u] = loaded /\ \A w \in Users \ {u} : user'[w] = user[w]
  BY DEF R!Load, RegistryInv, RegistryTypes
<1>2. RegistryTypes'
  BY <1>1 DEF R!Load, RegistryInv, RegistryTypes
<1>3. Drawn'
  BY <1>1 DEF RegistryInv, RegistryTypes, Drawn, Entries
<1>4. R!ProjectsAreDistinct'
  BY <1>1 DEF RegistryInv, R!ProjectsAreDistinct
<1>5. QED
  BY <1>2, <1>3, <1>4 DEF RegistryInv

\* Register: the new entry has a path and an id that the copy does not have.
LEMMA RegisterStep ==
  ASSUME RegistryInv, NEW u \in Users, R!Register(u)
  PROVE  RegistryInv'
<1> DEFINE copy == user[u].copy
           new == [id |-> nextId + 1, path |-> user[u].path]
<1>1. /\ copy \in SUBSET Entries /\ R!Distinct(copy) /\ nextId \in Nat
      /\ \A x \in copy : x.id <= nextId
  BY DEF RegistryInv, RegistryTypes, Drawn, R!ProjectsAreDistinct
<1>2. CASE R!Known(u)
  <2>1. R!Finish(u, copy) /\ nextId' = nextId
    BY <1>2 DEF R!Register
  <2>2. QED
    BY <1>1, <2>1, FinishStep
<1>3. CASE ~R!Known(u)
  <2>1. R!Finish(u, copy \cup {new}) /\ nextId' = nextId + 1
    BY <1>3 DEF R!Register
  <2>2. new \in Entries
    BY <1>1 DEF R!Register, RegistryInv, RegistryTypes, Entries
  <2>3. \A x \in copy : x.path # new.path /\ x.id # new.id
    BY <1>1, <1>3 DEF R!Known, Entries
  <2>4. R!Distinct(copy \cup {new})
    BY <1>1, <2>3 DEF R!Distinct
  <2>5. \A x \in copy \cup {new} : x.id <= nextId'
    BY <1>1, <2>1 DEF Entries
  <2>6. copy \cup {new} \in SUBSET Entries
    BY <1>1, <2>2
  <2> HIDE DEF copy, new
  <2>7. QED
    BY <1>1, <2>1, <2>4, <2>5, <2>6, FinishStep
<1>4. QED
  BY <1>2, <1>3

\* Repair: the id was registered, and the path belongs to no other project.
LEMMA RepairStep ==
  ASSUME RegistryInv, NEW u \in Users, R!Repair(u)
  PROVE  RegistryInv'
<1> DEFINE c == user[u]
           rest == {x \in c.copy : x.id # c.id}
           new == [id |-> c.id, path |-> c.path]
<1>1. /\ c.copy \in SUBSET Entries /\ R!Distinct(c.copy) /\ nextId \in Nat
      /\ c.id \in Nat /\ \A x \in c.copy : x.id <= nextId
  BY DEF RegistryInv, RegistryTypes, Drawn, R!ProjectsAreDistinct
<1>2. R!Finish(u, rest \cup {new}) /\ R!Repairable(c) /\ nextId' = nextId
  BY DEF R!Repair
<1>3. new \in Entries
  <2>1. c.id \in Nat \ {0}
    BY <1>1, <1>2 DEF R!Repairable, Entries
  <2>2. QED
    BY <2>1 DEF R!Repair, RegistryInv, RegistryTypes, Entries
<1>4. \A x \in rest : x.path # new.path /\ x.id # new.id
  BY <1>2 DEF R!Repairable
<1>5. R!Distinct(rest \cup {new})
  BY <1>1, <1>4 DEF R!Distinct
<1>6. \A x \in rest \cup {new} : x.id <= nextId
  BY <1>1, <1>2 DEF R!Repairable
<1>7. rest \cup {new} \in SUBSET Entries
  BY <1>1, <1>3
<1> HIDE DEF rest, new
<1>8. QED
  BY <1>1, <1>2, <1>5, <1>6, <1>7, FinishStep

LEMMA RemoveStep ==
  ASSUME RegistryInv, NEW u \in Users, R!Remove(u)
  PROVE  RegistryInv'
<1> DEFINE rest == {x \in user[u].copy : x.id # user[u].id}
<1>1. /\ rest \in SUBSET Entries /\ R!Distinct(rest) /\ nextId \in Nat
      /\ \A x \in rest : x.id <= nextId
  BY DEF RegistryInv, RegistryTypes, Drawn, R!ProjectsAreDistinct, R!Distinct
<1>2. R!Finish(u, rest) /\ nextId' = nextId
  BY DEF R!Remove
<1> HIDE DEF rest
<1>3. QED
  BY <1>1, <1>2, FinishStep

LEMMA CommandFailsStep ==
  ASSUME RegistryInv, NEW u \in Users, R!CommandFails(u)
  PROVE  RegistryInv'
<1>1. /\ file \in SUBSET Entries /\ R!Distinct(file) /\ nextId \in Nat
      /\ \A x \in file : x.id <= nextId
  BY DEF RegistryInv, RegistryTypes, Drawn, R!ProjectsAreDistinct
<1>2. R!Finish(u, file) /\ nextId' = nextId
  BY DEF R!CommandFails
<1>3. QED
  BY <1>1, <1>2, FinishStep

\* The instance counts as the module does.
LEMMA SameCount == \A S : R!Cardinality(S) = Cardinality(S)
BY DEF R!Cardinality, Cardinality, R!IsFiniteSet, IsFiniteSet

\* The projects registered at the start have the ids drawn so far.
LEMMA RegistryStart ==
  ASSUME R!RegInit
  PROVE  RegistryInv
<1> DEFINE n == Cardinality(Paths)
<1>1. n \in Nat
  BY FS_CardinalityType, SharingAssumption
<1>2. /\ file \in SUBSET [id : 1..n, path : Paths] /\ R!Distinct(file)
      /\ nextId = n /\ user = [u \in Users |-> R!NoCommand]
  BY SameCount DEF R!RegInit
<1> HIDE DEF n
<1>3. RegistryTypes
  BY <1>1, <1>2 DEF RegistryTypes, Entries, R!NoCommand
<1>4. Drawn
  BY <1>1, <1>2 DEF Drawn, R!NoCommand
<1>5. R!ProjectsAreDistinct
  BY <1>2 DEF R!ProjectsAreDistinct, R!Distinct, R!NoCommand
<1>6. QED
  BY <1>3, <1>4, <1>5 DEF RegistryInv

LEMMA RegistryStep == RegistryInv /\ (R!RegNext \/ UNCHANGED R!regVars) => RegistryInv'
<1> SUFFICES ASSUME RegistryInv, (R!RegNext \/ UNCHANGED R!regVars) PROVE RegistryInv'
  OBVIOUS
<1>1. ASSUME NEW u \in Users, NEW path \in Paths,
             R!Load(u, "register", 0, path) \/ \E id \in 1..nextId : R!Load(u, "repair", id, path)
      PROVE  RegistryInv'
  BY <1>1, LoadStep DEF RegistryInv, RegistryTypes
<1>2. ASSUME NEW u \in Users, NEW id \in 1..nextId, R!Load(u, "remove", id, None)
      PROVE  RegistryInv'
  BY <1>2, LoadStep DEF RegistryInv, RegistryTypes
<1>3. ASSUME NEW u \in Users, R!Register(u) \/ R!Repair(u) \/ R!Remove(u) \/ R!CommandFails(u)
      PROVE  RegistryInv'
  BY <1>3, RegisterStep, RepairStep, RemoveStep, CommandFailsStep
<1>4. ASSUME NEW path \in Paths, R!MoveCheckout(path)
      PROVE  RegistryInv'
  BY <1>4, RegistryIdle DEF R!MoveCheckout
<1>5. ASSUME NEW s \in Servers,
             R!PrepareSocket(s) \/ R!Listen(s) \/ R!Secure(s) \/ R!Stop(s) \/ R!Die(s)
      PROVE  RegistryInv'
  BY <1>5, RegistryIdle DEF R!PrepareSocket, R!Listen, R!Secure, R!Stop, R!Die
<1>6. CASE R!ForeignFile
  BY <1>6, RegistryIdle DEF R!ForeignFile
<1>7. CASE UNCHANGED R!regVars
  BY <1>7, RegistryIdle DEF R!regVars
<1>8. QED
  BY <1>1, <1>2, <1>3, <1>4, <1>5, <1>6, <1>7 DEF R!RegNext

-----------------------------------------------------------------------------
(* The socket of the daemon and of the local API.                          *)

SocketTypes ==
  /\ server \in [Servers -> {"off", "prepared", "inUse", "bound", "serving"}]
  /\ socket \in [what : {"none", "socket", "file"}, owner : Servers \cup {None},
                 mode : {None, "owner", "wide"}]
  /\ private \in BOOLEAN /\ raced \subseteq Servers

\* A prepared server that finds something at the path has been raced; a daemon has closed
\* the directory before it binds.
SocketInv ==
  /\ SocketTypes
  /\ R!SocketIsOwners
  /\ \A s \in Servers :
       /\ server[s] = "inUse" => s \in raced
       /\ server[s] = "prepared" /\ socket.what # "none" => s \in raced
       /\ server[s] # "off" /\ ServerKind[s] = "daemon" => private

\* A step of the servers, or one that leaves them and the path alone.
LEMMA SocketStep ==
  ASSUME SocketInv, R!RegNext \/ UNCHANGED <<socket, private, server, raced>>
  PROVE  SocketInv'
<1> USE SharingAssumption DEF SocketInv, SocketTypes, R!SocketIsOwners
<1>1. ASSUME NEW s \in Servers, R!PrepareSocket(s) PROVE SocketInv'
  <2>1. private' \in BOOLEAN /\ (private => private') /\ (ServerKind[s] = "daemon" => private')
    BY <1>1 DEF R!PrepareSocket
  <2>2. CASE socket.what = "file"
    BY <1>1, <2>1, <2>2 DEF R!PrepareSocket
  <2>3. CASE socket.what # "file"
    <3>1. /\ socket' = R!NoSocket /\ server' = [server EXCEPT ![s] = "prepared"]
          /\ raced' = raced \ {s}
      BY <1>1, <2>3 DEF R!PrepareSocket, R!Goto, R!Cleared
    <3>2. QED
      BY <2>1, <3>1 DEF R!NoSocket
  <2>4. QED
    BY <2>2, <2>3
<1>2. ASSUME NEW s \in Servers, R!Listen(s) PROVE SocketInv'
  <2>1. CASE socket.what # "none"
    BY <1>2, <2>1 DEF R!Listen, R!Goto
  <2>2. CASE socket.what = "none"
    BY <1>2, <2>2 DEF R!Listen, R!Goto, R!BoundMode
  <2>3. QED
    BY <2>1, <2>2
<1>3. ASSUME NEW s \in Servers, R!Secure(s) PROVE SocketInv'
  BY <1>3 DEF R!Secure, R!Goto
<1>4. ASSUME NEW s \in Servers, R!Stop(s) \/ R!Die(s) PROVE SocketInv'
  BY <1>4 DEF R!Stop, R!Die, R!Goto, R!NoSocket
<1>5. CASE R!ForeignFile
  BY <1>5 DEF R!ForeignFile, R!NoSocket
<1>6. CASE UNCHANGED <<socket, private, server, raced>>
  BY <1>6
<1>7. QED
  BY <1>1, <1>2, <1>3, <1>4, <1>5, <1>6
     DEF R!RegNext, R!MoveCheckout, R!Load, R!Register, R!Repair, R!Remove, R!CommandFails

LEMMA SocketStart == ShareInit => SocketInv
<1> SUFFICES ASSUME R!RegInit PROVE SocketInv
  BY DEF ShareInit
<1>1. socket = R!NoSocket /\ private \in BOOLEAN /\ server = [s \in Servers |-> "off"] /\ raced = {}
  BY DEF R!RegInit
<1>2. SocketTypes
  BY <1>1 DEF R!NoSocket, SocketTypes
<1>3. QED
  BY <1>1, <1>2 DEF R!NoSocket, SocketInv, R!SocketIsOwners

LEMMA SocketSteps == SocketInv /\ [ShareNext]_shareVars => SocketInv'
<1> SUFFICES ASSUME [ShareNext]_shareVars
             PROVE  R!RegNext \/ UNCHANGED <<socket, private, server, raced>>
  BY SocketStep
<1>1. CASE \E h \in Homes : ReadProjects(h) \/ ReadInbox(h) \/ Key(h) \/ Leave(h)
  BY <1>1 DEF ReadProjects, ReadInbox, Key, Leave, homeVars
<1>2. CASE \E s \in Servers : DaemonInbox(s)
  BY <1>2 DEF DaemonInbox, homeVars
<1>3. CASE CapNext /\ UNCHANGED <<homeVars, home>>
  BY <1>3 DEF homeVars
<1>4. CASE UNCHANGED shareVars
  BY <1>4 DEF shareVars, homeVars
<1>5. QED
  BY <1>1, <1>2, <1>3, <1>4 DEF ShareNext

\* What a killed server leaves behind never keeps the next one from starting, and no socket
\* of a server is open to other users, whichever servers start, stop and die meanwhile
\* (daemon/server_unix.go prepareSocket, localapi/server.go).
THEOREM SocketSafe == ShareSpec => []SocketIsSafe
<1>1. SocketInv => SocketIsSafe
  BY DEF SocketInv, SocketIsSafe, R!StaleSocketIsNoObstacle
<1>2. QED
  BY <1>1, SocketStart, SocketSteps, PTL DEF ShareSpec

-----------------------------------------------------------------------------
(* The home screen.                                                        *)

HomeRecord ==
  [pc : {"closed", "listed", "shown"}, tab : {"projects", "inbox"},
   projects : SUBSET Entries, inbox : SUBSET ReqIds, cursor : Nat]

\* What a home screen shows was in the files, and its cursor is on it.
HomesGood ==
  /\ home \in [Homes -> HomeRecord]
  /\ \A h \in Homes :
       /\ R!Distinct(home[h].projects)
       /\ \A x \in home[h].projects : x.id <= nextId
  /\ CursorIsOnAnItem

\* The bounds of the model, and what else the type invariant says of the registry.
RegistryBounds ==
  /\ checkouts \subseteq Paths /\ nextId <= MaxIds /\ starts \in 0..MaxStarts
  /\ socket.owner \in Servers \cup {None}

\* A call carries no value, or one that has been typed.
CallValues == \A p \in Procs : proc[p].value \in 0 .. Len(typed)

HomeInv == TransferInv /\ CallValues /\ RegistryInv /\ RegistryBounds /\ HomesGood

\* Entries of different paths are no more than there are paths.
LEMMA FewProjects ==
  ASSUME NEW entries \in SUBSET Entries, R!Distinct(entries)
  PROVE  IsFiniteSet(entries)
<1> DEFINE at == [x \in entries |-> x.path]
<1>1. at \in Injection(entries, Paths)
  BY DEF Injection, IsInjective, Entries, R!Distinct
<1>2. QED
  BY <1>1, FS_Injection, SharingAssumption

LEMMA CountType ==
  ASSUME NEW h \in HomeRecord, R!Distinct(h.projects)
  PROVE  ItemCount(h) \in Nat
<1>1. IsFiniteSet(h.projects)
  BY FewProjects DEF HomeRecord
<1>2. IsFiniteSet(h.inbox)
  BY FS_Subset, IdAssumption DEF HomeRecord
<1>3. QED
  BY <1>1, <1>2, FS_CardinalityType DEF ItemCount

\* A reloaded list keeps the cursor if it can, and else moves it to its last item.
LEMMA ClampedCursor ==
  ASSUME NEW h \in HomeRecord, ItemCount(h) \in Nat
  PROVE  /\ CursorWithin(h) \in Nat
         /\ CursorWithin(h) < ItemCount(h) \/ (CursorWithin(h) = 0 /\ ItemCount(h) = 0)
BY DEF CursorWithin, HomeRecord

\* A step of one home screen.
LEMMA OneHome ==
  ASSUME HomesGood, nextId' = nextId, NEW h \in Homes, NEW new \in HomeRecord,
         home' = [home EXCEPT ![h] = new], R!Distinct(new.projects),
         \A x \in new.projects : x.id <= nextId,
         new.pc = "shown" =>
           new.cursor < ItemCount(new) \/ (new.cursor = 0 /\ ItemCount(new) = 0)
  PROVE  HomesGood'
<1>1. home'[h] = new /\ \A g \in Homes : g # h => home'[g] = home[g]
  BY DEF HomesGood
<1>2. home' \in [Homes -> HomeRecord]
  BY DEF HomesGood
<1>3. ASSUME NEW g \in Homes
      PROVE  /\ R!Distinct(home'[g].projects)
             /\ \A x \in home'[g].projects : x.id <= nextId'
             /\ home'[g].pc = "shown" =>
                  home'[g].cursor < ItemCount(home'[g])
                    \/ (home'[g].cursor = 0 /\ ItemCount(home'[g]) = 0)
  <2>1. CASE g = h
    BY <1>1, <2>1
  <2>2. CASE g # h
    BY <1>1, <2>2 DEF HomesGood, CursorIsOnAnItem
  <2>3. QED
    BY <2>1, <2>2
<1>4. CursorIsOnAnItem'
  BY <1>3 DEF CursorIsOnAnItem, ItemCount
<1>5. QED
  BY <1>2, <1>3, <1>4 DEF HomesGood

LEMMA ReadProjectsStep ==
  ASSUME HomeInv, NEW h \in Homes, ReadProjects(h)
  PROVE  HomesGood'
<1> DEFINE new == [home[h] EXCEPT !.pc = "listed", !.projects = file]
<1>1. file \in SUBSET Entries /\ R!Distinct(file) /\ \A x \in file : x.id <= nextId
  BY DEF HomeInv, RegistryInv, RegistryTypes, Drawn, R!ProjectsAreDistinct
<1>2. home[h] \in HomeRecord
  BY DEF HomeInv, HomesGood
<1>3. new \in HomeRecord /\ new.pc # "shown" /\ new.projects = file
  BY <1>1, <1>2 DEF HomeRecord
<1>4. home' = [home EXCEPT ![h] = new] /\ nextId' = nextId
  BY <1>2 DEF ReadProjects, HomeRecord
<1> HIDE DEF new
<1>5. QED
  BY <1>1, <1>3, <1>4, OneHome DEF HomeInv

LEMMA ReadInboxStep ==
  ASSUME HomeInv, NEW h \in Homes, ReadInbox(h)
  PROVE  HomesGood'
<1>0. PICK items \in {Inbox(home[h].projects), {}} :
        home' = [home EXCEPT ![h] =
          LET read == [home[h] EXCEPT !.pc = "shown", !.inbox = items]
          IN [read EXCEPT !.cursor = CursorWithin(read)]]
  BY DEF ReadInbox
<1> DEFINE read == [home[h] EXCEPT !.pc = "shown", !.inbox = items]
           new == [read EXCEPT !.cursor = CursorWithin(read)]
<1>1. home[h] \in HomeRecord /\ R!Distinct(home[h].projects)
      /\ \A x \in home[h].projects : x.id <= nextId
  BY DEF HomeInv, HomesGood
<1>2. items \subseteq ReqIds
  BY <1>0 DEF Inbox
<1>3. read \in HomeRecord /\ read.projects = home[h].projects
  BY <1>1, <1>2 DEF HomeRecord
<1>4. home' = [home EXCEPT ![h] = new] /\ nextId' = nextId
  BY <1>0 DEF ReadInbox, homeVars
<1> HIDE DEF read
<1>5. ItemCount(read) \in Nat
  BY <1>1, <1>3, CountType
<1>6. /\ CursorWithin(read) \in Nat
      /\ CursorWithin(read) < ItemCount(read) \/ (CursorWithin(read) = 0 /\ ItemCount(read) = 0)
  BY <1>3, <1>5, ClampedCursor
<1>7. /\ new \in HomeRecord /\ new.cursor = CursorWithin(read)
      /\ new.projects = read.projects /\ ItemCount(new) = ItemCount(read)
  BY <1>3, <1>6 DEF HomeRecord, ItemCount
<1> HIDE DEF new
<1>8. QED
  BY <1>1, <1>3, <1>4, <1>6, <1>7, OneHome DEF HomeInv

LEMMA KeyPressStep ==
  ASSUME HomeInv, NEW h \in Homes, Key(h)
  PROVE  HomesGood'
<1>1. home[h] \in HomeRecord /\ R!Distinct(home[h].projects)
      /\ (\A x \in home[h].projects : x.id <= nextId)
      /\ home[h].pc = "shown" /\ home[h].cursor \in Nat
  BY DEF HomeInv, HomesGood, Key, HomeRecord
<1>2. nextId' = nextId
  BY DEF Key, homeVars
<1>3. ItemCount(home[h]) \in Nat
  BY <1>1, CountType
<1>4. home[h].cursor < ItemCount(home[h]) \/ (home[h].cursor = 0 /\ ItemCount(home[h]) = 0)
  BY <1>1 DEF HomeInv, HomesGood, CursorIsOnAnItem
<1>5. ASSUME NEW tab \in {"projects", "inbox"}, NEW cursor \in Nat,
             home' = [home EXCEPT ![h].tab = tab, ![h].cursor = cursor],
             \/ cursor = 0
             \/ tab = home[h].tab /\ cursor < ItemCount(home[h])
      PROVE  HomesGood'
  <2> DEFINE new == [home[h] EXCEPT !.tab = tab, !.cursor = cursor]
  <2>1. /\ new \in HomeRecord /\ new.projects = home[h].projects /\ new.cursor = cursor
        /\ tab = home[h].tab => ItemCount(new) = ItemCount(home[h])
    BY <1>1 DEF HomeRecord, ItemCount
  <2>2. home' = [home EXCEPT ![h] = new]
    BY <1>1, <1>5 DEF HomeInv, HomesGood, HomeRecord
  <2> HIDE DEF new
  <2>3. ItemCount(new) \in Nat
    BY <1>1, <2>1, CountType
  <2>4. new.cursor < ItemCount(new) \/ (new.cursor = 0 /\ ItemCount(new) = 0)
    BY <1>5, <2>1, <2>3
  <2>5. QED
    BY <1>1, <1>2, <2>1, <2>2, <2>4, OneHome DEF HomeInv
<1>6. CASE home' = [home EXCEPT ![h].tab = IF @ = "inbox" THEN "projects" ELSE "inbox", ![h].cursor = 0]
  BY <1>5, <1>6
<1>7. ASSUME NEW cursor \in Nat, home' = [home EXCEPT ![h].cursor = cursor],
             cursor < ItemCount(home[h]) \/ cursor = 0
      PROVE  HomesGood'
  <2>1. home' = [home EXCEPT ![h].tab = home[h].tab, ![h].cursor = cursor]
    BY <1>1, <1>7 DEF HomeInv, HomesGood, HomeRecord
  <2>2. home[h].tab \in {"projects", "inbox"}
    BY <1>1 DEF HomeRecord
  <2>3. QED
    BY <1>5, <1>7, <2>1, <2>2
<1>8. CASE home[h].cursor > 0 /\ home' = [home EXCEPT ![h].cursor = @ - 1]
  <2>1. home[h].cursor - 1 \in Nat /\ home[h].cursor - 1 < ItemCount(home[h])
    BY <1>1, <1>3, <1>4, <1>8
  <2>2. QED
    BY <1>7, <1>8, <2>1
<1>9. CASE home[h].cursor + 1 < ItemCount(home[h]) /\ home' = [home EXCEPT ![h].cursor = @ + 1]
  <2>1. home[h].cursor + 1 \in Nat
    BY <1>1
  <2>2. QED
    BY <1>7, <1>9, <2>1
<1>10. QED
  BY <1>6, <1>8, <1>9 DEF Key

LEMMA LeaveStep ==
  ASSUME HomeInv, NEW h \in Homes, Leave(h)
  PROVE  HomesGood'
<1>1. Closed \in HomeRecord /\ Closed.projects = {} /\ Closed.pc # "shown"
  BY DEF Closed, HomeRecord
<1>2. home' = [home EXCEPT ![h] = Closed] /\ nextId' = nextId
  BY DEF Leave, homeVars
<1>3. QED
  BY <1>1, <1>2, OneHome DEF HomeInv, R!Distinct

\* Screens that are left alone stay good while ids are only drawn.
LEMMA HomesKept ==
  ASSUME HomesGood, home' = home, nextId \in Nat, nextId' \in Nat, nextId <= nextId'
  PROVE  HomesGood'
<1>1. ASSUME NEW h \in Homes, NEW x \in home[h].projects PROVE x.id <= nextId'
  BY <1>1 DEF HomesGood, HomeRecord, Entries
<1>2. CursorIsOnAnItem'
  BY DEF HomesGood, CursorIsOnAnItem, ItemCount
<1>3. QED
  BY <1>1, <1>2 DEF HomesGood

-----------------------------------------------------------------------------
(* The registry and the calls, as far as the type invariant needs them.    *)

\* A registry step stays within the bounds, and draws at most one id.
LEMMA BoundsStep ==
  ASSUME RegistryInv, RegistryBounds, SocketTypes, R!RegNext
  PROVE  RegistryBounds' /\ nextId <= nextId'
<1> USE SharingAssumption DEF RegistryBounds, RegistryInv, RegistryTypes
<1>1. ASSUME NEW path \in Paths, R!MoveCheckout(path)
      PROVE  RegistryBounds' /\ nextId <= nextId'
  BY <1>1 DEF R!MoveCheckout, R!Started
<1>2. ASSUME NEW u \in Users, NEW op, NEW id, NEW path, R!Load(u, op, id, path)
      PROVE  RegistryBounds' /\ nextId <= nextId'
  BY <1>2 DEF R!Load, R!Started
<1>3. ASSUME NEW u \in Users, R!Register(u)
      PROVE  RegistryBounds' /\ nextId <= nextId'
  BY <1>3 DEF R!Register
<1>4. ASSUME NEW u \in Users, R!Repair(u) \/ R!Remove(u) \/ R!CommandFails(u)
      PROVE  RegistryBounds' /\ nextId <= nextId'
  BY <1>4 DEF R!Repair, R!Remove, R!CommandFails
<1>5. ASSUME NEW s \in Servers, R!PrepareSocket(s)
      PROVE  RegistryBounds' /\ nextId <= nextId'
  BY <1>5 DEF R!PrepareSocket, R!Started, R!Cleared, R!NoSocket
<1>6. ASSUME NEW s \in Servers, R!Listen(s)
      PROVE  RegistryBounds' /\ nextId <= nextId'
  BY <1>6 DEF R!Listen
<1>7. ASSUME NEW s \in Servers, R!Secure(s) \/ R!Stop(s) \/ R!Die(s)
      PROVE  RegistryBounds' /\ nextId <= nextId'
  BY <1>7 DEF R!Secure, R!Stop, R!Die, R!NoSocket, SocketTypes
<1>8. CASE R!ForeignFile
  BY <1>8 DEF R!ForeignFile, R!Started, R!NoSocket
<1>9. QED
  BY <1>1, <1>2, <1>3, <1>4, <1>5, <1>6, <1>7, <1>8 DEF R!RegNext

\* A call takes a value from the prompt or from a capsule.
LEMMA ValuesStep ==
  ASSUME TransferInv, CallValues, CapNext \/ UNCHANGED capVars
  PROVE  CallValues'
<1>1. /\ proc \in [Procs -> CallRecord] /\ typed \in Seq(ShownRecord)
      /\ Len(typed) \in Nat /\ DOMAIN typed = 1 .. Len(typed)
  BY LenProperties DEF TransferInv, TransferTypes
<1>2. CASE typed' = typed /\ \A p \in Procs : proc'[p].value \in {0, proc[p].value}
  BY <1>1, <1>2 DEF CallValues
<1>3. ASSUME NEW h \in Humans, Type(h) PROVE CallValues'
  <2>1. CASE Done(h) /\ UNCHANGED typed
    BY <1>1, <1>2, <2>1 DEF Done, Idle
  <2>2. CASE typed' = Append(typed, proc[h].shown) /\ proc[h].shown \in ShownRecord
    <3>1. Len(typed') = Len(typed) + 1
      BY <1>1, <2>2, AppendProperties
    <3>2. ASSUME NEW p \in Procs PROVE proc'[p].value \in {proc[p].value, Len(typed) + 1}
      <4>0. Len(typed) + 1 \in Nat /\ typed' # typed
        BY <1>1, <3>1
      <4>1. proc' = [proc EXCEPT ![h].pc = IF proc[h].op = "create" THEN "key" ELSE "commit",
                                    ![h].value = Len(typed) + 1, ![h].req = proc[h].shown.req]
        BY <1>3, <4>0 DEF Type
      <4>2. proc[h] \in CallRecord
        BY <1>1 DEF Procs
      <4>3. QED
        BY <1>1, <4>0, <4>1, <4>2 DEF CallRecord
    <3>3. QED
      BY <1>1, <3>1, <3>2 DEF CallValues
  <2>3. HumanCall(h) /\ proc[h].pc = "prompt"
    BY <1>3 DEF TransferInv, CallGood, Procs, Type, At
  <2>4. proc[h].shown \in ShownRecord
    BY <2>3 DEF HumanCall
  <2>5. QED
    BY <1>3, <2>1, <2>2, <2>4 DEF Type
<1>4. ASSUME NEW s \in Claims, ClaimCheck(s) PROVE CallValues'
  <2> DEFINE c == proc[s].capsule
  <2>1. c \in pasted /\ CapsuleGood(c)
    BY <1>4 DEF TransferInv, CallGood, SessionCall, Procs, ClaimCheck, At
  <2>2. c.value \in 1 .. Len(typed)
    BY <1>1, <2>1 DEF CapsuleGood, TypedFor
  <2>3. typed' = typed /\ \A p \in Procs : proc'[p].value \in {0, c.value, proc[p].value}
    BY <1>1, <1>4 DEF ClaimCheck, Done, Idle, CallRecord
  <2>4. QED
    BY <1>1, <2>2, <2>3 DEF CallValues
<1>5. ASSUME NEW h \in Humans, NEW id \in ReqIds, StartCapsule(h, id) \/ StartFulfill(h, id)
      PROVE  CallValues'
  BY <1>1, <1>2, <1>5 DEF StartCapsule, StartFulfill, Idle
<1>6. ASSUME NEW h \in Humans, NEW ttl, Seal(h, ttl) PROVE CallValues'
  BY <1>1, <1>2, <1>6 DEF Seal, Done, Idle
<1>7. ASSUME NEW s \in Claims, NEW c \in pasted, StartClaim(s, c) PROVE CallValues'
  BY <1>1, <1>2, <1>7 DEF StartClaim, Idle
<1>8. ASSUME NEW p \in Procs, KeyGet(p) \/ KeyMake(p) PROVE CallValues'
  <2>1. /\ typed' = typed
        /\ \A q \in Procs : q # p => proc'[q] = proc[q]
        /\ proc'[p].value = proc[p].value
    BY <1>1, <1>8 DEF KeyGet, KeyMake, CallRecord
  <2>2. QED
    BY <1>2, <2>1
<1>9. ASSUME NEW p \in Procs, Commit(p) \/ CommitUnsaved(p) \/ CommitRefused(p)
      PROVE  CallValues'
  <2>1. proc' = [proc EXCEPT ![p] = Idle] /\ typed' = typed
    BY <1>9 DEF Commit, CommitUnsaved, CommitRefused, Done
  <2>2. QED
    BY <1>1, <1>2, <2>1 DEF Idle
<1>10. CASE UNCHANGED <<proc, typed>>
  BY <1>2, <1>10
<1>11. QED
  <2>1. CASE CapNext
    BY <1>3, <1>4, <1>5, <1>6, <1>7, <1>8, <1>9, <1>10, <2>1
    DEF CapNext, Reviews, MigratePolicy, EditPolicy, UseEnv, StartServer, RequestSecret, capVars
  <2>2. QED
    BY <1>10, <2>1 DEF capVars

\* The home screens over all steps.
LEMMA HomeStep ==
  ASSUME HomeInv, SocketInv, [ShareNext]_shareVars
  PROVE  HomeInv'
<1>1. TransferInv'
  BY TransferSteps DEF HomeInv
<1>2. CASE CapNext /\ UNCHANGED <<homeVars, home>>
  <2>1. CallValues'
    BY <1>2, ValuesStep DEF HomeInv
  <2>2. RegistryInv' /\ RegistryBounds'
    BY <1>2, RegistryIdle DEF HomeInv, homeVars, RegistryBounds
  <2>3. HomesGood'
    BY <1>2, HomesKept DEF HomeInv, homeVars, RegistryInv, RegistryTypes
  <2>4. QED
    BY <1>1, <2>1, <2>2, <2>3 DEF HomeInv
<1>3. CASE R!RegNext /\ UNCHANGED <<vars, capVars, home>>
  <2>1. CallValues'
    BY <1>3, ValuesStep DEF HomeInv
  <2>2. RegistryInv' /\ RegistryBounds' /\ nextId <= nextId'
    BY <1>3, RegistryStep, BoundsStep DEF HomeInv, SocketInv
  <2>3. HomesGood'
    BY <1>3, <2>2, HomesKept DEF HomeInv, RegistryInv, RegistryTypes
  <2>4. QED
    BY <1>1, <2>1, <2>2, <2>3 DEF HomeInv
<1>4. ASSUME NEW h \in Homes, ReadProjects(h) \/ ReadInbox(h) \/ Key(h) \/ Leave(h)
      PROVE  HomeInv'
  <2>1. CallValues'
    <3>1. UNCHANGED capVars
      BY <1>4 DEF ReadProjects, ReadInbox, Key, Leave
    <3>2. QED
      BY <3>1, ValuesStep DEF HomeInv
  <2>2. RegistryInv'
    BY <1>4, RegistryIdle DEF HomeInv, ReadProjects, ReadInbox, Key, Leave, homeVars
  <2>3. RegistryBounds'
    <3>1. starts' = starts \/ R!Started
      BY <1>4 DEF ReadProjects, ReadInbox, Key, Leave, homeVars
    <3>2. starts' \in 0..MaxStarts
      BY <3>1, SharingAssumption DEF HomeInv, RegistryBounds, R!Started
    <3>3. UNCHANGED <<checkouts, nextId, socket>>
      BY <1>4 DEF ReadProjects, ReadInbox, Key, Leave, homeVars
    <3>4. QED
      BY <3>2, <3>3 DEF HomeInv, RegistryBounds
  <2>4. HomesGood'
    BY <1>4, ReadProjectsStep, ReadInboxStep, KeyPressStep, LeaveStep
  <2>5. QED
    BY <1>1, <2>1, <2>2, <2>3, <2>4 DEF HomeInv
<1>5. CASE (\E s \in Servers : DaemonInbox(s)) \/ UNCHANGED shareVars
  <2>1. UNCHANGED <<capVars, homeVars, home>>
    BY <1>5 DEF DaemonInbox, shareVars
  <2>2. CallValues'
    BY <2>1, ValuesStep DEF HomeInv
  <2>3. RegistryInv' /\ RegistryBounds'
    BY <2>1, RegistryIdle DEF HomeInv, homeVars, RegistryBounds
  <2>4. HomesGood'
    BY <2>1, HomesKept DEF HomeInv, homeVars, RegistryInv, RegistryTypes
  <2>5. QED
    BY <1>1, <2>2, <2>3, <2>4 DEF HomeInv
<1>6. QED
  BY <1>2, <1>3, <1>4, <1>5 DEF ShareNext

LEMMA HomeStart == ShareInit => HomeInv
<1> SUFFICES ASSUME ShareInit PROVE HomeInv
  OBVIOUS
<1>1. TransferInv /\ RegistryInv
  BY TransferStart, RegistryStart DEF ShareInit
<1>2. CallValues
  BY DEF ShareInit, CapInit, CallValues, Idle
<1>3. RegistryBounds
  <2>1. Cardinality(Paths) \in Nat /\ nextId = Cardinality(Paths)
    BY FS_CardinalityType, SameCount, SharingAssumption DEF ShareInit, R!RegInit
  <2>2. QED
    BY <2>1, SharingAssumption DEF ShareInit, R!RegInit, R!NoSocket, RegistryBounds
<1>4. HomesGood
  BY DEF ShareInit, HomesGood, HomeRecord, Closed, CursorIsOnAnItem, R!Distinct
<1>5. QED
  BY <1>1, <1>2, <1>3, <1>4 DEF HomeInv

\* The registry and every home screen are sound, whatever the commands of several processes,
\* the sweeps and the reloads do: the types, one project per path and id, and a cursor on
\* an item of its list (registry.go Register, Repair; home.go).
THEOREM HomeSound == ShareSpec => []HomeIsSound
<1>1. HomeInv => HomeIsSound
  <2> SUFFICES ASSUME HomeInv PROVE HomeIsSound
    OBVIOUS
  <2>1. R!ProjectsAreDistinct /\ CursorIsOnAnItem
    BY DEF HomeInv, RegistryInv, HomesGood
  <2>2. CapTypeOK
    <3>1. \A p \in Procs : proc[p].req \in ReqIds \cup {None} /\ proc[p].value \in 0 .. Len(typed)
      BY DEF HomeInv, TransferInv, TransferTypes, CallRecord, CallValues
    <3>2. \A i \in DOMAIN stored : stored[i].value \in DOMAIN typed
      BY DEF HomeInv, TransferInv, EntryGood
    <3>3. QED
      BY <3>1, <3>2 DEF HomeInv, TransferInv, TransferTypes, CapTypeOK
  <2>3. R!RegTypeOK
    <3>1. nextId \in 0 .. MaxIds /\ MaxIds \in Nat
      BY SharingAssumption DEF HomeInv, RegistryInv, RegistryTypes, RegistryBounds
    <3>2. ASSUME NEW x \in file \cup UNION {user[u].copy : u \in Users}
          PROVE  x \in [id : 1..nextId, path : Paths]
      BY <3>1, <3>2 DEF HomeInv, RegistryInv, RegistryTypes, Drawn, Entries
    <3>3. file \subseteq [id : 1..MaxIds, path : Paths]
      <4> SUFFICES ASSUME NEW x \in file PROVE x \in [id : 1..MaxIds, path : Paths]
        OBVIOUS
      <4>1. x \in [id : 1..nextId, path : Paths]
        BY <3>2
      <4>2. QED
        BY <3>1, <4>1
    <3>4. \A u \in Users : user[u].copy \subseteq [id : 1..nextId, path : Paths]
      BY <3>2
    <3>5. QED
      BY <3>1, <3>3, <3>4 DEF HomeInv, RegistryBounds, R!RegTypeOK
  <2>4. ASSUME NEW h \in Homes
        PROVE  /\ home[h].inbox \subseteq ReqIds
               /\ home[h].projects \subseteq [id : 1..nextId, path : Paths]
    <3>1. nextId \in Nat /\ home[h] \in HomeRecord /\ \A x \in home[h].projects : x.id <= nextId
      BY DEF HomeInv, HomesGood, RegistryInv, RegistryTypes
    <3>2. QED
      BY <3>1 DEF HomeRecord, Entries
  <2>5. QED
    BY <2>1, <2>2, <2>3, <2>4 DEF HomeIsSound, ShareTypeOK
<1>2. HomeInv /\ SocketInv /\ [ShareNext]_shareVars => HomeInv' /\ SocketInv'
  BY HomeStep, SocketSteps
<1>3. QED
  BY <1>1, <1>2, HomeStart, SocketStart, PTL DEF ShareSpec

=============================================================================
