----------------------------- MODULE LockedStore -----------------------------
(***************************************************************************)
(* The lock-directory transaction that guards access.json, the vault file, *)
(* environments.json and pending.yml: mkdir to acquire, poll while the     *)
(* directory exists, give up after a deadline, remove on return.           *)
(*                                                                         *)
(* There are two kinds of lock.  The "stealing" one (access.withLock and   *)
(* vault.WithLock, which envset uses) removes a lock directory older than  *)
(* StaleAfter and tries again; the "kept" one (pending.Update) never does. *)
(* Neither records an owner: both the stale removal and the deferred       *)
(* removal delete whatever directory is there at that moment, and neither  *)
(* looks at whether the removal worked.                                    *)
(*                                                                         *)
(* Nothing limits how long a holder stays in its transaction (a keychain   *)
(* prompt may be open inside it) or how many calls wait.  A stealing lock  *)
(* is therefore no lock any more once a live holder is older than          *)
(* StaleAfter, or two calls have judged the same directory stale: the      *)
(* history variable spoiled says that this has happened.                   *)
(*                                                                         *)
(* Each process makes one call.  Calls in Claimers resolve the same        *)
(* pending request; the others each add an entry of their own.             *)
(***************************************************************************)
EXTENDS Naturals, FiniteSets

CONSTANTS
  Procs,        \* processes (CLI, TUI, MCP server, local API), one call each
  Claimers,     \* the calls that resolve the one contended request
  Kinds,        \* the kinds of lock under study: subset of {"stealing", "kept"}
  StaleAfter,   \* 30 s
  WaitFor,      \* 5 s
  MaxTime,      \* bound: the clock stops here
  MaxMishaps,    \* bound: processes that die mid-call, and the directory getting stuck
  Free

ASSUME LockAssumption ==
  /\ Claimers \subseteq Procs /\ IsFiniteSet(Procs)
  /\ Kinds \subseteq {"stealing", "kept"}
  /\ StaleAfter \in Nat /\ WaitFor \in Nat
  /\ MaxTime \in Nat /\ MaxMishaps \in Nat
  /\ Free \notin [owner : Procs, mtime : Nat]

VARIABLES
  kind,      \* the kind of this lock; never changes
  now,
  lock,      \* the lock directory: Free, or its creation time (and, as a
             \* history value no step reads, the process that created it)
  pc,        \* where each call is
  deadline,  \* per call: when it gives up waiting
  copy,      \* per call: the file content it loaded
  file,      \* the committed file: the calls whose change it contains
  outcome,   \* what each call has come to
  mishaps,    \* how many of them there were
  jammed,    \* the lock directory cannot be removed any more (it is not empty, it is immutable)
  spoiled    \* history: a live holder outlived StaleAfter, or one directory was judged stale twice

vars == <<kind, now, lock, pc, deadline, copy, file, outcome, mishaps, jammed, spoiled>>

Waiting == {"mkdir", "stat", "steal"}
Critical == {"load", "apply", "save", "unlock"}
PC == {"idle", "done"} \cup Waiting \cup Critical

-----------------------------------------------------------------------------
Init ==
  /\ kind \in Kinds
  /\ now = 0
  /\ lock = Free
  /\ pc = [p \in Procs |-> "idle"]
  /\ deadline = [p \in Procs |-> 0]
  /\ copy = [p \in Procs |-> {}]
  /\ file = {}
  /\ outcome = [p \in Procs |-> "none"]
  /\ mishaps = 0
  /\ jammed = FALSE /\ spoiled = FALSE

Advance(p, from, to) ==
  /\ pc[p] = from
  /\ pc' = [pc EXCEPT ![p] = to]

\* A live holder may still be inside when its directory is stale.
Overstayed ==
  /\ kind = "stealing" /\ lock # Free
  /\ pc[lock.owner] \in Critical /\ now + 1 > lock.mtime + StaleAfter

Tick ==
  /\ now < MaxTime
  /\ now' = now + 1
  /\ spoiled' = (spoiled \/ Overstayed)
  /\ UNCHANGED <<kind, lock, pc, deadline, copy, file, outcome, mishaps, jammed>>

\* From some moment on os.Remove of the lock directory fails.
Jam ==
  /\ lock # Free /\ ~jammed /\ mishaps < MaxMishaps
  /\ jammed' = TRUE /\ mishaps' = mishaps + 1
  /\ UNCHANGED <<kind, now, lock, pc, deadline, copy, file, outcome, spoiled>>

\* The deadline of every call lies within the modelled time.
StartCall(p) ==
  /\ now + WaitFor < MaxTime
  /\ Advance(p, "idle", "mkdir")
  /\ deadline' = [deadline EXCEPT ![p] = now + WaitFor]
  /\ UNCHANGED <<kind, now, lock, copy, file, outcome, mishaps, jammed, spoiled>>

\* Mutant: os.MkdirAll, which succeeds on an existing directory.
AcquireAnyway(p) ==
  /\ Advance(p, "mkdir", "load")
  /\ lock' = [owner |-> p, mtime |-> now]
  /\ UNCHANGED <<kind, now, deadline, copy, file, outcome, mishaps, jammed, spoiled>>

\* os.Mkdir: atomic test-and-set on the directory entry.
Acquire(p) ==
  /\ lock = Free
  /\ Advance(p, "mkdir", "load")
  /\ lock' = [owner |-> p, mtime |-> now]
  /\ deadline' = [deadline EXCEPT ![p] = 0]
  /\ UNCHANGED <<kind, now, copy, file, outcome, mishaps, jammed, spoiled>>

Blocked(p) ==
  /\ lock # Free
  /\ Advance(p, "mkdir", "stat")
  /\ UNCHANGED <<kind, now, lock, deadline, copy, file, outcome, mishaps, jammed, spoiled>>

\* Mkdir fails for another reason than an existing directory.
AcquireFails(p) ==
  /\ lock = Free
  /\ Advance(p, "mkdir", "done")
  /\ outcome' = [outcome EXCEPT ![p] = "failed"]
  /\ UNCHANGED <<kind, now, lock, deadline, copy, file, mishaps, jammed, spoiled>>

\* os.Stat + ModTime: the age is judged here, the removal is a later system call.
IsStale == kind = "stealing" /\ lock # Free /\ now > lock.mtime + StaleAfter

JudgeStale(p) ==
  /\ IsStale
  /\ Advance(p, "stat", "steal")
  /\ spoiled' = (spoiled \/ \E q \in Procs : pc[q] = "steal")
  /\ UNCHANGED <<kind, now, lock, deadline, copy, file, outcome, mishaps, jammed>>

\* `_ = os.Remove(path)`, done by p or another: it works or it is ignored.
RemoveLock == lock' = IF jammed THEN lock ELSE Free

\* Mutant: the stale directory is not removed.
StealNothing(p) ==
  /\ Advance(p, "steal", "mkdir")
  /\ UNCHANGED <<kind, now, lock, deadline, copy, file, outcome, mishaps, jammed, spoiled>>

\* Removed or not, the loop starts again without a look at the deadline.
Steal(p) ==
  /\ Advance(p, "steal", "mkdir")
  /\ RemoveLock
  /\ UNCHANGED <<kind, now, deadline, copy, file, outcome, mishaps, jammed, spoiled>>

\* Mutant: no deadline in the acquisition loop.
RetryForever(p) ==
  /\ ~IsStale
  /\ Advance(p, "stat", "mkdir")
  /\ UNCHANGED <<kind, now, lock, deadline, copy, file, outcome, mishaps, jammed, spoiled>>

\* Sleep 10 ms and try again.
Retry(p) ==
  /\ ~IsStale
  /\ now <= deadline[p]
  /\ Advance(p, "stat", "mkdir")
  /\ UNCHANGED <<kind, now, lock, deadline, copy, file, outcome, mishaps, jammed, spoiled>>

TimeOut(p) ==
  /\ ~IsStale
  /\ now >= deadline[p]
  /\ Advance(p, "stat", "done")
  /\ outcome' = [outcome EXCEPT ![p] = "failed"]
  /\ UNCHANGED <<kind, now, lock, deadline, copy, file, mishaps, jammed, spoiled>>

Load(p) ==
  /\ Advance(p, "load", "apply")
  /\ copy' = [copy EXCEPT ![p] = file]
  /\ UNCHANGED <<kind, now, lock, deadline, file, outcome, mishaps, jammed, spoiled>>

\* The file cannot be read or parsed, or the body returns an error: nothing is written.
BodyFails(p) ==
  /\ Advance(p, "load", "unlock") \/ Advance(p, "apply", "unlock")
  /\ outcome' = [outcome EXCEPT ![p] = "failed"]
  /\ UNCHANGED <<kind, now, lock, deadline, copy, file, mishaps, jammed, spoiled>>

\* The transaction body on the loaded copy: a claim passes its pending check ...
Apply(p) ==
  /\ p \in Claimers => copy[p] \cap Claimers = {}
  /\ Advance(p, "apply", "save")
  /\ UNCHANGED <<kind, now, lock, deadline, copy, file, outcome, mishaps, jammed, spoiled>>

\* ... or finds the request resolved (ErrNotPending) and saves nothing.
Refuse(p) ==
  /\ p \in Claimers /\ copy[p] \cap Claimers # {}
  /\ Advance(p, "apply", "unlock")
  /\ outcome' = [outcome EXCEPT ![p] = "refused"]
  /\ UNCHANGED <<kind, now, lock, deadline, copy, file, mishaps, jammed, spoiled>>

\* Temp file + rename: the whole new content replaces the file in one step.
Save(p) ==
  /\ Advance(p, "save", "unlock")
  /\ file' = copy[p] \cup {p}
  /\ outcome' = [outcome EXCEPT ![p] = "ok"]
  /\ UNCHANGED <<kind, now, lock, deadline, copy, mishaps, jammed, spoiled>>

\* Mutant: the file is truncated and rewritten in place.
SaveFailsInPlace(p) ==
  /\ Advance(p, "save", "unlock")
  /\ file' = {}
  /\ outcome' = [outcome EXCEPT ![p] = "failed"]
  /\ UNCHANGED <<kind, now, lock, deadline, copy, mishaps, jammed, spoiled>>

\* Disk full, permission: the temp file is dropped and the old content stays; or the chmod after
\* the rename fails, and the new content is there although an error is returned.
SaveFails(p) ==
  /\ Advance(p, "save", "unlock")
  /\ file' \in {file, copy[p] \cup {p}}
  /\ outcome' = [outcome EXCEPT ![p] = "failed"]
  /\ UNCHANGED <<kind, now, lock, deadline, copy, mishaps, jammed, spoiled>>

\* The deferred os.Remove, whoever the directory belongs to by now.
Unlock(p) ==
  /\ Advance(p, "unlock", "done")
  /\ RemoveLock
  /\ copy' = [copy EXCEPT ![p] = {}]
  /\ UNCHANGED <<kind, now, deadline, file, outcome, mishaps, jammed, spoiled>>

\* The process dies; a directory it created stays behind.
Crash(p) ==
  /\ pc[p] \in Waiting \cup Critical
  /\ mishaps < MaxMishaps
  /\ mishaps' = mishaps + 1
  /\ pc' = [pc EXCEPT ![p] = "done"]
  /\ copy' = [copy EXCEPT ![p] = {}]
  /\ outcome' = IF outcome[p] = "none" THEN [outcome EXCEPT ![p] = "failed"] ELSE outcome
  /\ UNCHANGED <<kind, now, lock, deadline, file, jammed, spoiled>>

\* The steps a running call takes by itself.
Step(p) ==
  \/ Acquire(p) \/ AcquireFails(p) \/ Blocked(p) \/ JudgeStale(p) \/ Steal(p)
  \/ Retry(p) \/ TimeOut(p) \/ Load(p) \/ BodyFails(p) \/ Apply(p) \/ Refuse(p)
  \/ Save(p) \/ SaveFails(p) \/ Unlock(p)

Next == Tick \/ Jam \/ \E p \in Procs : StartCall(p) \/ Step(p) \/ Crash(p)

Spec == Init /\ [][Next]_vars

\* A running process is scheduled and time passes; crashing and calling are free.
Fairness == WF_vars(Tick) /\ \A p \in Procs : WF_vars(Step(p))

FairSpec == Spec /\ Fairness

-----------------------------------------------------------------------------
(* Properties.                                                             *)

TypeOK ==
  /\ kind \in Kinds
  /\ now \in Nat
  /\ lock \in [owner : Procs, mtime : Nat] \cup {Free}
  /\ pc \in [Procs -> PC]
  /\ deadline \in [Procs -> Nat]
  /\ copy \in [Procs -> SUBSET Procs]
  /\ file \in SUBSET Procs
  /\ outcome \in [Procs -> {"none", "ok", "refused", "failed"}]
  /\ mishaps \in Nat
  /\ jammed \in BOOLEAN /\ spoiled \in BOOLEAN

\* Two calls are never inside the transaction of withLock / Update together.
MutualExclusion ==
  \A p, q \in Procs : pc[p] \in Critical /\ pc[q] \in Critical => p = q

\* A call that reported success is in the committed file: concurrent CLI, TUI and
\* MCP writers do not drop each other's entries.
NoLostUpdate ==
  \A p \in Procs : outcome[p] = "ok" => p \in file

\* Of all calls that resolve one pending request, at most one succeeds.
OneClaimSucceeds ==
  Cardinality({p \in Claimers : outcome[p] = "ok"}) <= 1

\* What a lock promises its callers as long as nothing has spoiled it: no two are inside their
\* transaction at once, a reported change stays in the file, and one pending request is resolved
\* by one call only.  pending.Update, which never steals, promises it always.
LockInv ==
  /\ TypeOK
  /\ ~spoiled => MutualExclusion /\ NoLostUpdate /\ OneClaimSucceeds
  /\ kind = "kept" => ~spoiled

\* The refinement mapping: the committed file is the abstract file, a call's outcome the
\* abstract outcome; lock, clocks and the callers' copies have no abstract counterpart.
Abstract == INSTANCE AtomicStore WITH
  Procs <- Procs, Claimers <- Claimers, file <- file, outcome <- outcome, broken <- spoiled

\* The locked read-modify-write is atomic for its callers until the lock is spoiled, and even
\* then a save writes no change but those of calls that have come to their own save.
ImplementsAtomicStore == Abstract!Spec

\* No caller hangs in the acquisition loop of withLock, WithLock and Update, whatever becomes of
\* the holder, unless a directory it takes for stale cannot be removed.
EveryCallEnds ==
  \A p \in Procs : pc[p] = "mkdir" ~> pc[p] = "done" \/ (jammed /\ kind = "stealing")

\* A lock directory left behind by a dead process does not outlive the calls that wait for it: once
\* it is stale and one of them looks at it, it goes away, if it can be removed and they live on.
AbandonedLockIsBroken ==
  \A q \in Procs :
    (lock # Free /\ lock.owner = q /\ pc[q] = "done" /\ IsStale /\ \E p \in Procs : pc[p] = "stat")
      ~> \/ ~(lock # Free /\ lock.owner = q)
         \/ jammed \/ \A p \in Procs : pc[p] \notin Waiting

=============================================================================
