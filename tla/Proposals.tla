------------------------------ MODULE Proposals ------------------------------
(***************************************************************************)
(* Agent-proposed commands: propose_command stages a proposal in           *)
(* pending.yml, ironrun approve promotes it into ironrun.yml, ironrun      *)
(* reject drops it.                                                        *)
(*                                                                         *)
(* pending.yml changes only in locked transactions (pending.Update; the    *)
(* lock is never stolen, see LockedStore), so propose and reject are one   *)
(* step each.  Approval is not: inside its transaction it rewrites         *)
(* ironrun.yml in place, checks that the result parses, rolls back if not, *)
(* and only then saves pending.yml.  Its human prompt comes before the     *)
(* lock.  Nobody who reads ironrun.yml takes a lock.                       *)
(***************************************************************************)
EXTENDS Naturals, Sequences, SequencesExt

CONSTANTS
  Ids,         \* command ids
  Contents,    \* what a human reviews: argv, secret bindings and reason
  Proposers,   \* propose_command calls in flight
  Reviewers,   \* ironrun approve processes
  MaxTime,     \* bound: the clock (proposed_at, in seconds) stops here
  MaxFaults,   \* bound: crashes, write errors
  None

ASSUME ProposalAssumption ==
  /\ MaxTime \in Nat /\ MaxFaults \in Nat
  /\ None \notin [content : Contents, at : Nat]
  /\ None \notin [id : Ids, proposal : [content : Contents, at : Nat]]
  /\ None \notin Reviewers \cup Ids

VARIABLES
  now,
  policy,      \* the commands of ironrun.yml, in file order
  torn,        \* ironrun.yml is cut off: a rewrite is under way or died
  pending,     \* id -> the proposal in pending.yml, or None
  lock,        \* pending.yml.lock: None or the approval that created it
  draft,       \* propose call -> what it is about to create, or None
  rev,         \* approve process -> its local state
  confirmed,   \* history: the commands a human said yes to
  reported,    \* history: the approvals reported as done
  spoiled,     \* history: some rewrite of ironrun.yml never finished
  faults

propVars == <<now, policy, torn, pending, lock, draft, rev, confirmed, reported, spoiled, faults>>

Entry == [id : Ids, content : Contents]
Proposal == [content : Contents, at : 0 .. MaxTime]

IdleReview == [pc |-> "idle", id |-> None, shown |-> None, orig |-> <<>>]

Locked == {"append", "write", "check", "restore", "save"}

\* Past the human's answer.
Active == {"exec", "begin"} \cup Locked

ReviewState ==
  [pc : {"idle", "prompt"} \cup Active, id : Ids \cup {None},
   shown : Proposal \cup {None}, orig : Seq(Entry)]

\* policy.Parse refuses duplicate command ids.
Parses(text) == \A i, j \in DOMAIN text : text[i].id = text[j].id => i = j

Defines(text, id) == \E i \in DOMAIN text : text[i].id = id

\* What ReviewDigest covers of the proposal under review, as a policy command.
EntryOf(r) == [id |-> rev[r].id, content |-> rev[r].shown.content]

\* The human wrote the commands the policy starts with.
PropInit ==
  /\ now = 0
  /\ policy \in {<<>>} \cup {<<e>> : e \in Entry} /\ torn = FALSE
  /\ pending = [i \in Ids |-> None]
  /\ lock = None
  /\ draft = [a \in Proposers |-> None]
  /\ rev = [r \in Reviewers |-> IdleReview]
  /\ confirmed = Range(policy) /\ reported = Range(policy)
  /\ spoiled = FALSE /\ faults = 0

At(r, pc) == rev[r].pc = pc
Goto(r, pc) == rev' = [rev EXCEPT ![r].pc = pc]
Finish(r) == rev' = [rev EXCEPT ![r] = IdleReview]

\* Only the process itself moves.
Private == UNCHANGED <<now, policy, torn, pending, lock, draft, spoiled, faults>>
\* ... or the policy file with it.
Rewriting == UNCHANGED <<now, pending, lock, draft, confirmed, reported, spoiled, faults>>

PropTick ==
  /\ now < MaxTime
  /\ now' = now + 1
  /\ UNCHANGED <<policy, torn, pending, lock, draft, rev, confirmed, reported, spoiled, faults>>

-----------------------------------------------------------------------------
(* propose_command.                                                        *)

\* The policy is read first: known ids are refused.  The time is the server's.
ProposeLookup(a, id, c) ==
  /\ draft[a] = None
  /\ Parses(policy) /\ ~Defines(policy, id)
  /\ draft' = [draft EXCEPT ![a] = [id |-> id, proposal |-> [content |-> c, at |-> now]]]
  /\ UNCHANGED <<now, policy, torn, pending, lock, rev, confirmed, reported, spoiled, faults>>

\* Mutant: a repeated id replaces the pending proposal.
StagedUpsert(old, new) == new

\* pending.Create: an id is immutable while it is pending.  An identical repeat keeps
\* the original, other content is a conflict; neither changes the file.
Staged(old, new) == IF old = None THEN new ELSE old

ProposeCreate(a) ==
  /\ draft[a] # None /\ lock = None
  /\ pending' = [pending EXCEPT ![draft[a].id] = Staged(@, draft[a].proposal)]
  /\ draft' = [draft EXCEPT ![a] = None]
  /\ UNCHANGED <<now, policy, torn, lock, rev, confirmed, reported, spoiled, faults>>

\* "could not save the proposal": the lock stays busy for 5 s.
ProposeFails(a) ==
  /\ draft[a] # None /\ lock # None
  /\ draft' = [draft EXCEPT ![a] = None]
  /\ UNCHANGED <<now, policy, torn, pending, lock, rev, confirmed, reported, spoiled, faults>>

\* ironrun reject: one locked transaction, ironrun.yml is not touched.
Reject(id) ==
  /\ pending[id] # None /\ lock = None
  /\ pending' = [pending EXCEPT ![id] = None]
  /\ UNCHANGED <<now, policy, torn, lock, draft, rev, confirmed, reported, spoiled, faults>>

-----------------------------------------------------------------------------
(* ironrun approve.                                                        *)

\* Unlocked reads of pending.yml and ironrun.yml; the proposal is printed.
Approvable(id) == pending[id] # None /\ Parses(policy) /\ ~Defines(policy, id)

Review(r, id) ==
  /\ At(r, "idle") /\ Approvable(id)
  /\ rev' = [rev EXCEPT ![r].pc = "prompt", ![r].id = id, ![r].shown = pending[id]]
  /\ Private /\ UNCHANGED <<confirmed, reported>>

\* The human answers the prompt.
Answer(r) ==
  /\ At(r, "prompt")
  /\ \/ Goto(r, "begin") /\ confirmed' = confirmed \cup {EntryOf(r)}
     \/ Finish(r) /\ UNCHANGED confirmed
  /\ Private /\ UNCHANGED reported

\* approve --yes --expected-digest, started by the dashboard on what it showed: the
\* proposal is loaded anew and must still have the digest of the reviewed one.
StartExpecting(r) ==
  /\ At(r, "exec")
  /\ LET id == rev[r].id IN
       \/ Approvable(id) /\ pending[id] = rev[r].shown /\ Goto(r, "begin")
       \/ ~(Approvable(id) /\ pending[id] = rev[r].shown) /\ Finish(r)
  /\ Private /\ UNCHANGED <<confirmed, reported>>

\* Mutant: the digest is compared before the lock only.
StillPending(r) == pending[rev[r].id] # None

\* Inside the lock: the proposal is still the one that was shown.
Unchanged(r) == pending[rev[r].id] = rev[r].shown

\* The transaction starts with the proposal as it is in the file now; ironrun.yml is
\* read again and must parse.
Lock(r) ==
  /\ At(r, "begin") /\ lock = None
  /\ Unchanged(r) /\ Parses(policy)
  /\ lock' = r
  /\ rev' = [rev EXCEPT ![r].pc = "append", ![r].orig = policy,
                        ![r].shown = pending[rev[r].id]]
  /\ UNCHANGED <<now, policy, torn, pending, draft, confirmed, reported, spoiled, faults>>

\* "changed since review", an unreadable policy, or a busy lock: nothing happens.
LockRefused(r) ==
  /\ At(r, "begin")
  /\ lock # None \/ ~Unchanged(r) \/ ~Parses(policy)
  /\ Finish(r)
  /\ Private /\ UNCHANGED <<confirmed, reported>>

Merged(r) == Append(rev[r].orig, EntryOf(r))

\* os.WriteFile truncates the file and fills it again.
CutOff(text) ==
  /\ \E n \in 0 .. Len(text) : policy' = SubSeq(text, 1, n)
  /\ torn' = TRUE

Fill(text) == policy' = text /\ torn' = FALSE

AppendCommand(r) ==
  /\ At(r, "append")
  /\ CutOff(Merged(r))
  /\ Goto(r, "write")
  /\ Rewriting

AppendDone(r) ==
  /\ At(r, "write")
  /\ Fill(Merged(r))
  /\ Goto(r, "check")
  /\ Rewriting

\* The write fails: the error is returned and the file stays as it is.
AppendFails(r) ==
  /\ At(r, "write") /\ faults < MaxFaults
  /\ Finish(r)
  /\ lock' = None /\ spoiled' = TRUE /\ faults' = faults + 1
  /\ UNCHANGED <<now, policy, torn, pending, draft, confirmed, reported>>

\* Mutant: the merged file is not parsed.
AcceptMerged(r) == TRUE

\* policy.Load of the merged file.
MergedParses(r) == Parses(policy)

CheckPasses(r) ==
  /\ At(r, "check") /\ MergedParses(r)
  /\ Goto(r, "save")
  /\ UNCHANGED <<policy, torn>> /\ Rewriting

\* Roll back, again in place.
RollBack(r) ==
  /\ At(r, "check") /\ ~MergedParses(r)
  /\ CutOff(rev[r].orig)
  /\ Goto(r, "restore")
  /\ Rewriting

RolledBack(r) ==
  /\ At(r, "restore")
  /\ Fill(rev[r].orig)
  /\ Finish(r)
  /\ lock' = None
  /\ UNCHANGED <<now, pending, draft, confirmed, reported, spoiled, faults>>

\* pending.yml is saved without the proposal, the lock goes, success is reported.
SavePending(r) ==
  /\ At(r, "save")
  /\ pending' = [pending EXCEPT ![rev[r].id] = None]
  /\ reported' = reported \cup {EntryOf(r)}
  /\ Finish(r)
  /\ lock' = None
  /\ UNCHANGED <<now, policy, torn, draft, confirmed, spoiled, faults>>

\* The save fails: an error is reported although the command is in the policy.
SavePendingFails(r) ==
  /\ At(r, "save") /\ faults < MaxFaults
  /\ Finish(r)
  /\ lock' = None /\ faults' = faults + 1
  /\ UNCHANGED <<now, policy, torn, pending, draft, confirmed, reported, spoiled>>

\* The process dies; inside the transaction it leaves the lock and the file behind.
Crash(r) ==
  /\ ~At(r, "idle") /\ faults < MaxFaults
  /\ Finish(r)
  /\ spoiled' = (spoiled \/ (lock = r /\ (torn \/ ~Parses(policy))))
  /\ faults' = faults + 1
  /\ UNCHANGED <<now, policy, torn, pending, lock, draft, confirmed, reported>>

\* The operator removes an abandoned lock once its owner has exited.
RemoveLock ==
  /\ lock # None /\ rev[lock].pc \notin Locked
  /\ lock' = None
  /\ UNCHANGED <<now, policy, torn, pending, draft, rev, confirmed, reported, spoiled, faults>>

\* The steps of an approve process that do not wait for a human.
ApproveStep(r) ==
  \/ StartExpecting(r) \/ Lock(r) \/ LockRefused(r)
  \/ AppendCommand(r) \/ AppendDone(r) \/ AppendFails(r) \/ CheckPasses(r)
  \/ RollBack(r) \/ RolledBack(r) \/ SavePending(r) \/ SavePendingFails(r)

PropNext ==
  \/ PropTick
  \/ \E a \in Proposers :
       (\E id \in Ids, c \in Contents : ProposeLookup(a, id, c)) \/ ProposeCreate(a) \/ ProposeFails(a)
  \/ \E id \in Ids : Reject(id) \/ \E r \in Reviewers : Review(r, id)
  \/ \E r \in Reviewers : Answer(r) \/ ApproveStep(r) \/ Crash(r)
  \/ RemoveLock

PropSpec == PropInit /\ [][PropNext]_propVars

-----------------------------------------------------------------------------
(* Properties.                                                             *)

PropTypeOK ==
  /\ now \in 0 .. MaxTime
  /\ policy \in Seq(Entry) /\ torn \in BOOLEAN
  /\ pending \in [Ids -> Proposal \cup {None}]
  /\ lock \in Reviewers \cup {None}
  /\ draft \in [Proposers -> [id : Ids, proposal : Proposal] \cup {None}]
  /\ rev \in [Reviewers -> ReviewState]
  /\ confirmed \subseteq Entry /\ reported \subseteq confirmed
  /\ spoiled \in BOOLEAN /\ faults \in 0 .. MaxFaults

\* Whatever is proposed, rejected and proposed again under the same id while a human
\* thinks, ironrun.yml only ever holds commands a human was shown in full and confirmed.
PolicyIsReviewed == Range(policy) \subseteq confirmed

\* SECURITY.md: pending ids are immutable until approved or rejected, so that nothing
\* is swapped under a human's review.
PendingIsImmutable ==
  [][\A id \in Ids : pending[id] # None /\ pending'[id] # None => pending'[id] = pending[id]]_propVars

\* A second approval of an id that is already in the policy (possible after a crash
\* between the two writes) is rolled back: outside transactions the policy parses,
\* unless a rewrite of it never finished.
PolicyStaysReadable == lock = None /\ ~spoiled => ~torn /\ Parses(policy)

\* An approval that was reported stays in force: later approvals, roll-backs and
\* crashes do not drop it, unless a rewrite of the policy never finished.
ReportedStays == ~torn /\ ~spoiled => reported \subseteq Range(policy)

\* The policy file survives its in-place rewrites, with what was approved in it.
PolicyHolds == PolicyStaysReadable /\ ReportedStays

=============================================================================
