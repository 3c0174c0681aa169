# Formal verification of ironrun

TLA+ models of ironrun, the TLC instances that check them, and TLAPS proofs about
them. `PROJECT.json` maps every definition to the source lines it models.

## The system

ironrun lets coding agents run commands that need secrets without seeing the
secrets. Several processes of one user work on one project directory: the CLI, the
dashboard, one MCP server per agent host, the local API server, git hooks. They share
no memory. They meet in files under `.ironrun/`, in a per-user home, and in the OS
keychain.

| Component | State it keeps | Operations | Hard behaviour | Correct when |
|---|---|---|---|---|
| Access manager (`internal/access`) | `access.json`: requests, leases, workspace grants | create, fulfil, approve, deny, revoke, pause, extend | several humans and agents on one request, expiry, lifetimes | a capability stems from one approved request and never returns after revocation |
| Store lock (`internal/access`, `vault`, `pending`) | a lock directory next to each store | mkdir, poll, steal when stale, remove | crashes, slow holders, stat/remove races | load/modify/save is atomic while no holder outlives the stale timeout; no caller hangs |
| MCP server (`mcp`) | per call: tracked requests, deadline | `run_sealed`, `request_*`, `propose_command`, `claim_capsule` | long polls over files that others change | a run is authorized for the environment it runs with; every call returns |
| Local API (`internal/localapi`) | one session id, a socket | `/v1/run`, deny, revoke | a check and a run with an environment switch in between | as above; the socket is its owner's |
| Proposals (`internal/pending`, `cmd/ironrun/review.go`) | `pending.yml`, `ironrun.yml` | propose, approve, reject | two files written in sequence, reviewed against committed content | only reviewed commands enter the policy |
| Dashboard (`internal/tui`) | lists, cursor, prompt, snapshot | reload, watch, open a prompt, answer | files change during a reload and under a prompt | an answer goes to what was shown |
| Environment sets (`internal/envset`) | `environments.json`, values in the vault | create, use, put, delete, remove, prune, get | metadata and values are two stores; cached metadata; read-through migration | listed entries have values, values have entries |
| Vault (`internal/vault`) | one sealed file per project, root key in the keychain | first open, set, get, delete, replace | two first opens, lost key or file | the key in the keychain opens the vault |
| Remote sync (`cmd/ironrun/env.go`, `internal/remote`) | a copy of the sealed vault | push, pull | old and foreign copies | no silent roll-back |
| Store migration (`internal/migration`) | policy version, manifest, provider aliases | apply, roll back, clean up | each write may fail or be the last; the human edits and removes values meanwhile | a failed apply is undone, no step but a deletion takes a last copy |
| Git hooks (`internal/githooks`, `gitcmd.go`) | two hook files, `.gitignore` | install, uninstall, check-staged, check-push | stale tracking refs, foreign hooks, half installations | no value is published past the hook |
| Runner, execution (`internal/runner`, `execution`) | a process tree, a run directory | resolve, run, time out, sweep, clean up | processes that leave the group, crash leftovers, pid reuse | the files of a live run stay, every run ends |
| Audit log (`internal/audit`) | a hash-chained file | open, append, verify | concurrent processes, torn records | the chain verifies and records tell the outcome |
| Redactor (`internal/redact`) | a stream buffer | write, flush, add a secret | values across chunk borders, fragments | no value is written, however the stream is cut |
| Secret stores (`internal/secrets`, `provider`) | a sealed file per alias, the keychain | set, rotate, delete, get | a kill between truncation and write; mixed stores | what was stored is what a run gets |
| Capsules (`internal/capsule`) | a key, sealed text in the chat | seal, open, claim | one request, many answers | one use, to the asker, in time, where the prompt said |
| Policy file (`internal/policy`) | `ironrun.yml` | parse, bind, migrate | aliases that fall on one name | names keep their storage keys |
| Registry and daemon (`internal/project`, `daemon`, `tui/home.go`) | `projects.json`, a socket, the home screen | register, repair, remove; listen, stop | unlocked read-modify-write; umask and stale sockets | projects stay distinct, the socket private |

The host integration (matchers over shell history, transcripts and settings files, the
sandbox profile) keeps no state beyond one command and is not modelled.

## Modules

    AtomicStore  <-- refined by --  LockedStore
    Access       <-- AgentRun
    Access, Policy  <-- Capsules  <-- Sharing  (with an instance of Registry)
    Proposals    <-- Dashboard
    Environments
    Migration    <-- LeakGuard
    AuditLog     <-- Execution
    Redactor     <-- Injection
    AccessProofs, RunProofs, ProposalProofs, StoreProofs, EnvironmentProofs,
    ExecutionProofs, InjectionProofs, SharingProofs    theorems
    MCAccess, MCLockedStore, MCAgentRun, MCDashboard, MCEnvironments, MCLeakGuard,
    MCExecution, MCInjection, MCSharing                TLC instances

**Access** is `access.Manager`. Its variables are the three lists of `access.json` as
functions from ids to records (`None`: not there), the clock every method reads, and
which vault entries hold a value (the side effect of `FulfillSecretWith`). A method
that returns an error saves nothing, so each mutating method is one action whose guard
is its success condition; the sweep `expire()` that precedes every request mutation is
part of those actions. `FulfillInterrupted` is the one partial outcome: the storage
commit done, the save not. `AgentNext` is what an agent can reach through MCP,
`HumanNext` what the CLI, the dashboard and the local API offer. Ids are drawn from
finite sets and never reused, as `randomID` does with overwhelming probability.

**LockedStore** opens up what Access takes for granted: that a mutation is atomic. A
call runs mkdir, stat, remove, load, apply, save and remove as separate steps of a
process that may be slow or die. The content of a file is the set of calls whose
change it holds; `Claimers` are calls that resolve the same request. `kind` selects
the lock that steals (`access`, `vault`, `envset`) or the one that does not
(`pending`). Nothing bounds how long a holder stays or how many calls wait. A removal of
the directory may come to fail for good (`jammed`), which the code does not look at, and
a save that reports an error may have renamed its file already (the last `os.Chmod`).
`spoiled` is a history variable: a live holder has outlived the stale timeout, or two
calls have judged one directory stale. **AtomicStore** is the promise to callers:
commit, refuse or fail, each in one step; once `broken`, a commit may also put back an
older file. `ImplementsAtomicStore` states the refinement.

**AgentRun** composes Access with the calls that wait for it: `run_sealed` with a
command id, `run_sealed` with an argv, and `POST /v1/run`. Every read of the policy,
of `pending.yml`, of the active environment, of the vault and of `access.json` is a
step of its own, every access-manager operation is the action of Access it invokes,
and human actions, other calls and the clock interleave between them. The policy is
one that uses environment entries; the policy file only grows while calls are in
flight (approved proposals), and the statuses of all tracked requests are read in one
step.

**Proposals** is the life of a command an agent proposes. `pending.yml` changes in
locked transactions that LockedStore covers, so propose and reject are one step.
`ironrun approve` is taken apart: unlocked review and digest, prompt, lock and second
digest check, truncation and rewriting of `ironrun.yml` in place, the parse check with
its roll-back, the save of `pending.yml`; a process may die at each point, and the two
writes may fail. The policy is the sequence of its commands; a cut-off file holds a
prefix of the new text. A digest stands for the whole proposal including its creation
time. `confirmed`, `reported` and `spoiled` are history variables.

**Dashboard** composes Proposals with the terminal dashboard. The event loop handles
one message at a time, `phase` says where; a reload reads the policy and the
proposals, then the requests, then the rest, clamps the cursor and takes the snapshot,
and other processes write in between. It may break off at each read, and keeps what it
has assigned by then. The snapshots are abstracted to whether the files changed since.
Confirming a proposal runs an approve process with `--expected-digest` (slot `Dash`) in
the foreground. History variables: `subject`, the request the open prompt was opened on;
`missed`, the snapshot covers a change the lists do not show; `halfway`, the last
reload broke off with new requests under an old cursor.

**Environments** is `envset.Manager` over the sealed vault, the root key and the
entries older versions left in the keychain. A process opens a manager, which caches
the metadata; a mutation takes `environments.json.lock`, reloads the metadata (or goes
on from its cache where `environments.json` is gone), changes the vault and commits the
metadata; nothing puts the vault back when that fails. A read uses the cache and takes
no lock. A write or deletion that reports an error may have happened. A look-up of the
root key that fails is taken for a missing key, as the native stores report it, and a
first open then makes a new one. First opens run under the initialization lock. A vault operation is
one step (LockedStore), a call several, and a process may die at each. `push` and
`pull` move the sealed file; the remote (external) answers with any copy it ever got
or with a stranger's. Ciphers are abstracted to "sealed under this key, of this
revision". History variables: `latest`, the value stored last; `lost` and `keyLost`, the
vault file and the key have disappeared once; `misread`, a look-up of an existing key
has failed; `fromCache`, a mutation has gone on from its cache.

**Migration** is `ironrun migrate`: plan, apply with its copy, verify and roll-back
loops, rollback and cleanup, a store call or file write at a time, each of which may
fail or be the last. Meanwhile the human sets, unsets and removes values in either store,
and sets expire. One migration command runs at a time. `stranded` records that
putting version 1 back has failed, `edited` and `cleaned` the aliases that the human and
an unfinished cleanup have touched. **LeakGuard** adds a git clone (commits as sets of
values, branches, two remotes, tracking refs that may be stale), install-hooks and
uninstall-hooks one hook file at a time, and the two hooks over the values that the
migration fills and empties; like the code they look for the values of unexpired sets
(`Sought`), not of all (`Managed`), and install-hooks takes a hook it cannot read for
none. A git command with the hook it runs is one step. How a value is found in a diff is
abstracted to set membership. When an entry cannot be read the hook warns and goes on
(`scanned` is then FALSE).

**Execution** is the path of a run: policy and CI gates, resolution, the run directory
with its sweep of stale ones, the supervised process group with deadline,
cancellation, broken consumers and WaitDelay, the clean-up, and the record, with the
exit code and the reason the context gives after the clean-up, that **AuditLog** appends under the file lock in two halves. ironrun processes die at any
moment; their pids may be given away.

**Redactor** is the streaming writer as the code has it: needles, fragments, spans,
held back bytes, flush, and the byte cap behind it, over byte sequences. Its reference
is the scan of the whole output in one piece. **Injection** puts the stores
before it: `ironrun secrets` commands write the sealed files (truncate, then write)
and the keychain, a run resolves its aliases from them or its entries from an
environment, into variables that two aliases may share, and what it holds is what the
redactor is given.

**Policy** has the acceptance of a document, the binding of a name to a storage key,
and the rewrite from version 1 to 2, as operators. **Capsules** is a secret's way from
a human to a store: `request_secret`, `access fulfill` and `share create` with their
prompts, `claim_capsule` in the workers of each server, the capsule key that nothing
locks, and `FulfillSecretWith`, which may fail before or after the value is stored,
while the operator edits or migrates the policy and switches environments. A typed
value is its number; `typed` and `stored` are histories. **Registry** is
`projects.json` under commands that load and replace it without a lock between
processes, and the life of a server socket over directory mode, umask and leftovers of
dead servers. **Sharing** puts both together with the home screen and the inbox that
read them. The daemon and the local API have sockets of their own; the model gives
them one path variable, so that a stale socket of either kind meets either server.

Definitions introduced by a comment `Mutant:` are deliberately wrong variants of the
definition that follows; no specification uses them. They exist to show that each
property can fail.

## Runs

Small parts are checked together: a property of a `.cfg` is often the conjunction of
several named ones, given in brackets.

| Run | Checks | Shows |
|---|---|---|
| `access` | `TypeOK`, `CapabilitiesAreBacked` (`LeaseProvenance`, `GrantProvenance`, `ApprovalIsBacked`), `BoundedAuthority`, `ReviewQueueBounded`, `DecisionsAreFinal` (`ResolutionIsFinal`, `RevocationIsFinal`), `AuthorityIsApproved` | capabilities come from exactly one live request each, live no longer than allowed, and do not come back |
| `lock` | `LockInv` (`TypeOK`, `MutualExclusion`, `NoLostUpdate`, `OneClaimSucceeds`), `EveryCallEnds`, `AbandonedLockIsBroken`, `ImplementsAtomicStore` | the locked transaction implements AtomicStore, a stealing one until it is spoiled; no caller hangs unless the directory cannot be removed |
| `one_use` | `OneClaimSucceeds` (violated) | two claims of one request succeed when the first outlives the stale timeout |
| `run` | `RunInv` (`RunTypeOK`, `TracksOwnRequests`, `OnlyPolicyCommandsRun`, `AccessStaysSound`), `RunsAreAuthorized` (`RunsHoldCapabilities`, `RunsWereReviewed`), `WaitsAreBounded` | a run that was admitted had its session's lease or trust for the environment it runs with, and a human approved a request for just that before it, through environment switches and revocations; the calls leave access.json as sound as its own operations do; no call waits longer than the review it depends on |
| `run_ends` | `EveryRunEnds` (`CallsEnd`, `TrustCallsEnd`) | every call returns although the human may never answer |
| `review` | `DashInv` (`DashTypeOK`, `ConfirmationIsCurrent`), `StaysUp`, `StaleIsNoticed`, `PolicyIsReviewed`, `PolicyHolds` (`PolicyStaysReadable`, `ReportedStays`), `PendingIsImmutable` | what enters the policy was shown and confirmed, although proposals are replaced during review; a double approval after a crash is rolled back; stale lists are about to be reloaded, but for changes that come between the reads and the snapshot; the cursor leaves the list only where a reload broke off |
| `dashboard_shift` | `AnswersTheReviewed` (violated) | an answer can go to a request that arrived after the prompt was opened |
| `environments` | `KeyOpensVault`, `EnvInv` (`EnvTypeOK`, `ActiveIsASet`, `NoOrphans`), `ListedAfterStored`, `ValuesStay` (`MigrationKeepsACopy`, `PullKeepsNewer`) | one root key through two first opens, while no look-up of it fails; an entry is listed after its value is stored; metadata and vault agree while nothing has failed; no interruption and no pull takes a value back |
| `migration` | `GuardInv` (`GuardTypeOK`, `InstalledIsGuarded`, `MigInv`, `FailedApplyIsUndone`), `OnlyRollbackLoses`, `PublishedIsScanned` | under a version 2 policy some environment holds every value the human left alone, wherever a migration stops; a failed apply is undone; only a rollback after an unfinished cleanup takes a last copy; what a push past the hook publishes is scanned for the values of all unexpired sets |
| `execution` | `ExecInv` (`ExecTypeOK`, `LiveRunsKeepTheirFiles`, `ForksGetNoSecrets`), `OutcomesAreTrue` (`ResultsAreClean`, `RecordsTellTheOutcome`, `ChainHolds`, `OneRecordEach`), `NothingNeededGoes` (`FilesOutliveReaders`, `RecordsStay`), `RunsEnd` | a sweep spares live runs; a record names the reason a run was ended for and, where it names none, its exit status; it comes once and stays as written; every run ends |
| `redact` | `StoresHold` (types, `StoredIsReadable`), `ChunkingIsInvisible`, `NoSecretLeaves` (with `NoValueIsWritten`), `RunsGetTheirOwn` | a run gets its own values, and what it holds is not written, however its output is cut |
| `sharing` | `HomeIsSound` (`ShareTypeOK`, `ProjectsAreDistinct`, `CursorIsOnAnItem`), `SocketIsSafe` (`StaleSocketIsNoObstacle`, `SocketIsOwners`), `ClaimsAreGood` (`ClaimsAreTheAskers`, `ClaimsAreFresh`), `TransfersAreShown` (`OneUse`, `StoredAsShown`, `StoresWhilePending`), `PoliciesBind` (`AcceptedPoliciesBind`, `MigrationKeepsBindings`) | a typed value is stored where its prompt said, in time, and none after the one that fulfilled the request; names keep their keys; projects have distinct ids and paths; the socket that answers is private |

Two runs show defects. `dashboard_shift`: the prompts for access requests keep no copy of
the request they were opened on (`src/internal/tui/dashboard.go:432`), while
CHANGELOG.md:202 says the authorization is pinned to the reviewed one. `one_use`: a claim
opens the vault, perhaps behind a keychain prompt, inside the lock of `access.json`,
which anyone may remove after 30 seconds (`src/internal/access/access.go:623`), while
lines 270-272 say that concurrent claimers cannot both pass the pending check.

### Bounds

- `access`: three requests over two sessions with a cap of two pending requests reach
  the cap, duplicates, and a request that lapses next to a live one; two ticks, a
  review window of one and lifetimes of one and two let requests and leases lapse and
  grants be extended afterwards; typed lifetimes of 0 ("use the requested one"), 2 and
  3 (over the maximum) reach every branch.
- `lock`: two claimers and one other writer, and one mishap: a process that dies, or the
  directory that gets stuck; the clock runs long enough for a lock to go stale inside
  another call's waiting time, so that slow holders and two waiters on one stale lock both
  occur. `one_use`: two claimers are enough.
- `run`: two calls, two sessions and two environments give every pair of interfering
  calls. `run_ends`: one call, so that three requests and a secret fit.
- `review`: one id, two contents and two creation times make every kind of replacement
  during two concurrent reviews, with one fault; two requests let the list shrink under
  the cursor. `Room` bounds the two against each other: everything of the review without
  requests, less of it with one, one other thing with two.
- `environments`: two processes, two sets, one entry, three calls, one crash, failed
  write or look-up, lost key, vault or `environments.json`. Three calls are a first open,
  a mutation and a read or pull that interferes; a tick of the clock takes the place of
  one (create, expiry, prune). More faults change what holds: a project
  that has lost both key and vault has lost its values.
- `migration`: two aliases (one can be done, one not), three migrations (so that a
  second one meets what a rolled back or cleaned one left, and a third the second), up
  to four failures, crashes, edits by the human and expiries of a set that has a lifetime, four
  commits, two branches, two remotes. `MaxWork` limits git commands and migrations
  *together*: a long migration history meets a short git history and the other way
  round. A clone starts empty, or with a branch that has taken in any values, each with
  and without hooks.
- `execution`: two runs, two pids, one fault. One run forks and can be timed out or
  lose its consumer, the other is plain; one pid can be given to another program. CI
  jobs: none, and that of a fork.
- `redact`: a window of 2 and fragments of values of 4 bytes (12, and 24 to 65536, in the code) give every
  relation of needle, fragment, gap and chunk border that nine bytes allow; chunks of
  one and two bytes put a border before, inside and after every needle. Four calls and
  one kill.
- `sharing`: one request, two agents, two workers per server, two humans, five policies that differ in
  everything a storage place depends on; four calls, or starts of servers and registry
  commands, which count double. Two servers suffice for one to meet what another left.

Symmetry is used only in runs without liveness properties, over ids and processes that
the specifications neither order nor `CHOOSE` from. The deadlock check is off in
`lock`, `one_use`, `review`, `dashboard_shift`, `execution`, `redact` and `sharing`:
when all calls are done, or a bound is used up, nothing remains to be done.

### Fairness

`run_ends` assumes that a server goroutine in its poll loop is scheduled (weak fairness
of each call) and that time passes (strong fairness of the clock, because the instance
stops the clock inside one poll iteration). `lock` assumes weak fairness of each
running call and of the clock. `execution` assumes weak fairness of each run, which is one goroutine
and the kernel; `RunsEnd` exempts a consumer that neither reads nor closes, because
`exec.Cmd` then waits for the copying goroutine. Humans, cancellation, crashes and the
start of calls are never assumed to happen.

### Conditions and exemptions

A stealing lock excludes until it is `spoiled`: a live holder has outlived the stale
timeout, or two waiters have judged one directory stale, of which the second removes the
first one's fresh lock. The code prevents neither, so the exemption is a condition on its
use, and `one_use` shows what happens without it. The first is a real risk for
`access.json`, because `FulfillSecretWith` opens the environment store, which may prompt
for the keychain, while it holds the lock. The kept lock of `pending.yml` is never
spoiled. `EveryCallEnds` and `AbandonedLockIsBroken` exempt a stale directory whose
removal goes on failing (`jammed`): the loop then spins without looking at its deadline.

`StaleIsNoticed` exempts a change between the reads of a reload and its snapshot
(`missed`), and `StaysUp` a reload that broke off after it had replaced the requests
(`halfway`): the next key or frame then indexes past the list.

`PullKeepsNewer` and `MigrationKeepsACopy` exempt a vault file that has disappeared
(`lost`): any old copy then replaces it. `KeyOpensVault` exempts a project that has
lost both its root key and its vault file (`keyLost`), where a key that a new vault made
is the only one, and what follows a failed look-up of an existing key (`misread`).
`ListedAfterStored` exempts a lost vault file and a mutation that goes on from its cached
metadata, perhaps with an entry that was never stored, because `environments.json` is
gone (`fromCache`). `NewPolicyFindsItsValues`, `FailedApplyIsUndone` and
`OnlyRollbackLoses` exempt a migration whose restoration of version 1 failed too
(`stranded`), and speak of the values the human has left alone (not in `edited`);
`NewPolicyFindsItsValues` asks for some environment that holds them, not for the active
one, and the copies may be in a set that has expired. `StoredIsReadable` and `RunsGetTheirOwn` leave out two overlapping sets of one
alias, which may leave a file that is neither value, and two first uses of the local
store, which make two keys. `PublishedIsScanned` exempts merge commits, which
`git log -p` shows no diff for, and pushes whose hook could not read an entry.
`OneUse` allows several stored values when the save of the request failed after the
storage commit. `RecordsTellTheOutcome` says what a record that is there means; a record
with a reason may be that of a run whose caller got exit code 0 (`KillMeansEnded`).

### Stated and refuted

These are definitions that no run checks: each states what a comment or a document
suggests, and TLC finds it violated. They are kept next to the properties that do hold.

| Property | What happens |
|---|---|
| `RejectionIsReal` (AgentRun) | an approval that completes between the reads of the policy and of `pending.yml` is reported as a rejection |
| `RequestsAppear` (Dashboard) | a request written between the read of `access.json` and the snapshot is not listed until something else changes (against README.md:154 of the repository) |
| `NeverDown` (Dashboard) | a reload that fails after the requests were replaced leaves the cursor past the list, where the next key indexes |
| `FirstOpensAgree` (Environments) | a look-up of the root key that fails counts as "missing", and the next open makes a new key over the old one |
| `ListedMeansStored` (Environments) | where `environments.json` is gone a mutation commits its cached metadata, with an entry that an earlier failure kept from being stored |
| `MigrationIsLossless` (Environments) | the read-through migration of one process overwrites a value that another stored between its two reads |
| `PruneSparesLivingSets` (Environments) | prune judges expiry by the metadata cached at open and may remove a set that was created again |
| `NoValueIsLost` (Migration) | a cleanup cut short can be followed by a rollback, which deletes the copies of values already gone (against README.md:233-236 of the repository) |
| `CleanupNeedsTheCopy` (Migration) | cleanup looks at the policy only: after an `env unset` it deletes the original of a value without a copy |
| `MigratedPolicyRuns` (Migration) | a policy without `environment_set` migrates into "dev", while version 2 reads the active set |
| `ManagedIsScanned` (LeakGuard) | values of expired sets, which the vault still holds, are not looked for (against gitcmd.go:44) |
| `ForeignHooksStay` (LeakGuard) | a hook that cannot be read counts as absent and is written over |
| `KillMeansEnded` (Execution) | a deadline that passes during the flush or the clean-up is recorded for a run that ended by itself |
| `AgeFallbackWorks` (Execution) | a run directory whose pid has been reused is never removed: the age rule is for directories without a pid |
| `NewToRemoteIsScanned` (LeakGuard) | commits that reached one remote unscanned are not scanned when a new branch takes them to another |

## Proofs

Every property of a passing run that is not a liveness property is a theorem. The
theorems hold for all values of the constants, from the named assumptions of the
modules: durations and bounds are naturals, `None` is none of the values, kinds, records
and modes it stands beside, request ids, the callers of a lock and paths are finite sets
(with no fewer ids of projects than paths), the values a run may hold are finitely many, not empty, and no longer
than the span a match of them may reach over. No theorem has a hypothesis besides these.

All follow the same pattern: a strengthened invariant holds initially and is preserved
by every action, and implies the property; an action property follows from the
invariant and one step. Where a module composes others, its steps are first mapped to
steps of the part, so that the invariant of the part is used and not proved again. For
access.json there are two maps. With capsules and claims around it (Sharing) every step
is a step of Access or leaves it alone, so Access is implemented outright. Under the
calls of AgentRun it is not quite, since `env unset` may take an entry away in the middle
of them, which Access has no step for. The lemmas of `AccessProofs` are therefore stated
for `AccessStep`, the weakest step that they need, which both kinds of steps are.

| Module | Theorems | Inductive invariant |
|---|---|---|
| `AccessProofs` | `TypeCorrect`, `Provenance`, `AuthorityBounded`, `DecisionsFinal`, `Authority`, `QueueBounded` | `IInv`: provenance, and no stored request was created in the future, without which an approval could precede its request. `StepKeepsRequests`, `StepKeepsLeases`, `StepKeepsGrants` say what an `AccessStep` can do to one record. The queue needs the sweep in the step: what expires in it leaves room for what it adds |
| `RunProofs` | `CallsAreSound`, `RunsAuthorized`, `RunsKeepDecisions`, `RunsGainNothing`, `WaitsBounded` | `RunIInv`: `AccessInv` (no deadline further than one review window ahead, no capability from the future) and, for each call, what it holds at its point: the types of its fields, a deadline inside its window, the policy it read, and the lease or trust that carried it past the check. `RunIsAccessStep` makes `AccessHolds`, the invariants of Access together, hold under the calls too, and from the provenance of the capability a call was admitted with follows the review behind the run |
| `ProposalProofs` | `ProposalsTypeCorrect`, `OnlyReviewedCommands`, `PolicyFileHolds`, `PendingImmutable`, `FramesAreSound`, `DashboardStaysUp`, `ChangesAreNoticed` | `ReviewInv`: the text kept for a roll-back consists of confirmed commands, what a process carries past the answer was confirmed, and an open prompt holds a proposal that was in the file. `HoldInv`: outside a transaction the policy file is whole, and inside one it is what the holder's point in the rewriting makes of an original with every reported command. `SlotInv`: slot `Dash` is in use only while the dashboard waits for it. `FrameInv`: a confirmation is open on what is listed, and the cursor on the list of requests except while a reload reads on after them. `NoticeInv`: what the lists do not show will be read by the reload under way, is behind the watcher, queued, or missed |
| `StoreProofs` | `LocksHold`, `StoreIsAtomic` | `LockIInv`: unless the lock is spoiled, the process inside owns the directory and the copy inside is the file; a directory judged stale is one that a dead process left, and one caller at most is about to remove it; a kept lock is never spoiled. `StoreIsAtomic` is the refinement of AtomicStore |
| `StoreProofs` | `LossNeedsCleanup`, `HooksGuard`, `GuardHolds`, `PushesAreScanned` | `MigrationInv`: while apply runs the target holds what it held, what was copied and what could not be taken back, and copies are only taken back under version 1. `LegacyInv`: a value that a command copies or deletes still has its alias, unless the human or a cleanup has deleted it. `HookInv`: the hooks an undisturbed install has passed are ours. `RepoInv`: parents are older than their commits, what has been published has been published with its ancestry, and every remote or tracking ref is published, so that what `pushRange` leaves out is |
| `EnvironmentProofs` | `OneRootKey`, `MetadataMatchesVault`, `StoredBeforeListed`, `NothingIsLost` | `EnvIInv`, in six layers: types; who is inside the two locks, with the metadata its copy was read from; one key for the file, the keychain and every process that opened it, while no look-up failed; no copy on its way is newer than the file; a value about to leave the keychain or to be listed is in the vault; without a fault or an upgrade the listed entries are the stored ones, up to the one the call inside is changing |
| `ExecutionProofs` | `RunsAreSafe`, `OutcomesTrue`, `NothingGoes` | `RunInv` ties the stage of a run to its child, its pid and its directory; `RecordInv` says the appender has read the last record and no record precedes its run's end, from which follows that it is the only one (what AuditLog assumes when it takes the run's name for the record's hash) |
| `InjectionProofs` | `StoredIsFound`, `OutputIsOnePass`, `SecretsStayIn`, `EachItsOwn` | `RedactInv`: counters and positions are in step, what is written is clean, and, whatever bytes are still to come, one pass over the whole output would begin with what has been written. `InjInv`: the calls, the keys and the sealed files they write, what each cell and each keychain item holds, the store a run has opened for its declaration, and that what a run holds is registered before its command starts |
| `SharingProofs` | `SharingImplementsAccess`, `SharingImplementsCapsules`, `TransfersShown`, `ClaimsGood`, `PoliciesDoBind`, `SocketSafe`, `HomeSound` | `TransferInv`: what was shown is still what the request asks for, a capsule or call carries what was typed at the prompt that showed it, and a saved value's request is resolved. `SocketInv`: a prepared server that finds something at the path has been raced; a daemon has closed the directory before it binds. `RegistryInv`: an id that was drawn is in no copy another command holds. `HomeInv`: what a home screen lists has distinct ids and paths and is no longer than there are paths, and the cursor is on an item |

The clause of `RedactInv` on what is still to come is the heart of the redactor. That
the output so far is right does not survive the next chunk: a value that begins in the
held back bytes may end in it. So the invariant quantifies over all continuations, and
the lemmas behind it show that which item a scan takes next depends only on as many
bytes as the longest value may reach over, which is what is held back.

Induction over numbers and over where a scan stands is by a least counterexample
(`Least`, from `WFMin` and `NatLessThanWellFounded`), and the two induction facts the
proofs need are stated over sets, since a theorem with an operator parameter cannot be
instantiated. For the same reason the recursive definitions proved about are functions
on a domain, or the least set closed under a step (`Ancestors`).

Only model-checked is liveness (`EveryCallEnds`, `AbandonedLockIsBroken`,
`EveryRunEnds`, `RunsEnd`): the prover has no liveness under
fairness.

## Not modelled

- Host integration (`shellguard`, `ghprotect`, `scrub`, `sealedexec`): matching of text
  and generation of profiles, without state.
- The dashboard's environments, imports and leases tabs, and its one-time vault
  activation, which edits `ironrun.yml` without the lock of `pending.yml`: with it
  `PolicyHolds` fails as it stands, since an approval in between is lost.
- `env clone`, `import`, `export`, `doctor`: loops of operations that are modelled.
- The ciphers, the provider adapters, the HTTP client of the remote, the scanner layer
  of the hooks, and everything that renders or lists.
- That the keychain helpers trim trailing line breaks from a value.
- `ironrun secrets --provider`, which overrides the backend that runs resolve from, and
  two migration commands at once.

## Open ends

A composition of AgentRun with Execution, so that a lease that is revoked meets a run in
progress; the vault activation of the dashboard.
