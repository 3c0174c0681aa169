------------------------------ MODULE LeakGuard ------------------------------
(***************************************************************************)
(* The git hooks of ironrun, over the environment sets that migration      *)
(* fills and empties: pre-commit scans the staged diff, pre-push the       *)
(* commits that the push publishes, for every value of every set that has  *)
(* not expired.                                                            *)
(*                                                                         *)
(* A tree is the set of managed or former secrets its files contain.  One  *)
(* clone is modelled; others may delete branches of a remote.  A git       *)
(* command is one step with the hook that it runs: what is scanned are     *)
(* immutable commits, and the values are loaded once.  The scanner layer   *)
(* (gitleaks) and a missing ironrun binary only block more.                *)
(***************************************************************************)
EXTENDS Migration

CONSTANTS
  Branches,
  Main,        \* the branch that is checked out first
  Remotes,
  MaxCommits,  \* bound: commits made
  MaxWork      \* bound: git and hook commands, with faults and (doubly) migrations

ASSUME GuardAssumption == Main \in Branches /\ MaxCommits \in Nat /\ MaxWork \in Nat

VARIABLES
  hook,      \* "commit", "push" -> "none", "foreign" or "ironrun"
  ignored,   \* who put .ironrun/ into .gitignore: "none", "user" or "section"
  setup,     \* the running install-hooks or uninstall-hooks
  commits,   \* the commits of the clone, parents before children
  branch,    \* branch -> its commit, or 0
  head,      \* the branch that is checked out
  remote,    \* remote -> branch -> its commit there, or 0
  tracking,  \* what the remote-tracking refs of the clone say
  work,
  published, \* history: commits that some remote has been given
  scanned,   \* history: the hook let the last push pass, with every value loaded
  guarded    \* history: an install succeeded and nobody touched hooks or .gitignore since

hooks == <<hook, ignored, setup, guarded>>
repo == <<commits, branch, head, remote, tracking, published, scanned>>
guardVars == <<hooks, repo, work>>
allVars == <<migVars, guardVars>>

Hooks == {"commit", "push"}

\* todo: the hooks that the loop has left; disturbed: someone else changed a file meanwhile.
NoSetup == [op |-> "none", todo |-> {}, force |-> FALSE, disturbed |-> FALSE]

\* The values that sets hold; the ones too short to match are not in Aliases.
Managed == UNION {env[e] : e \in Envs}

\* Those the hooks look for: the ones of a set that has expired are left out.
Sought == UNION {env[e] : e \in Envs \ expired}

Root == [parents |-> {}, tree |-> {}]

\* A new repository without hooks, or one with branches that have diverged, hooks of
\* another tool or ours, and perhaps a secret that was committed before; this one counts as
\* work done, and is ready to be migrated.
GuardInit ==
  /\ MigInit
  /\ setup = NoSetup /\ guarded = FALSE /\ head = Main
  /\ \/ /\ work = 0 /\ commits = <<Root>>
        /\ branch = [b \in Branches |-> IF b = Main THEN 1 ELSE 0]
        /\ hook = [h \in Hooks |-> "none"] /\ ignored = "none"
     \/ /\ work = 0 /\ old = Aliases /\ ~attached /\ active = Dev
        /\ \E tree \in SUBSET Aliases :
             commits = <<Root, [parents |-> {1}, tree |-> tree], [parents |-> {1}, tree |-> {}]>>
        /\ branch = [b \in Branches |-> IF b = Main THEN 3 ELSE 2]
        /\ \/ hook = [h \in Hooks |-> "foreign"] /\ ignored = "none"
           \/ hook = [h \in Hooks |-> "ironrun"] /\ ignored = "section"
  /\ remote = [r \in Remotes |-> [b \in Branches |-> 0]] /\ tracking = remote
  /\ published = {} /\ scanned = FALSE

\* One more command; the bound is shared with the migrations and the faults.
Work == work + faults + 2 * Len(manifests) < MaxWork /\ work' = work + 1

-----------------------------------------------------------------------------
(* What the hooks look at.                                                 *)

Closed(S) == \A c \in S : commits[c].parents \subseteq S

\* git rev-list: the least set that holds c and the parents of all it holds; none for 0.
Ancestors(c) ==
  {x \in 1 .. c : \A S \in SUBSET (1 .. c) : c \in S /\ Closed(S) => x \in S}

\* The content that `git log -p` shows a commit to add: nothing for a merge.
Added(c) ==
  IF Cardinality(commits[c].parents) > 1 THEN {}
  ELSE commits[c].tree \ UNION {commits[p].tree : p \in commits[c].parents}

\* loadAllSecrets: entries that cannot be read are left out with a warning.
Loadable == {Sought} \cup (IF faults < MaxFaults THEN SUBSET Sought ELSE {})

\* blockOnHits lets text pass: there are values to look for and none is in it.
Passes(loaded, text) == loaded # {} /\ text \cap loaded = {}

CountFault(loaded) == faults' = IF loaded = Sought THEN faults ELSE faults + 1

\* Commits that the clone believes to be on some remote.
OnRemotes == UNION {Ancestors(tracking[r][b]) : r \in Remotes, b \in Branches}

\* Mutant: the fallback is taken for every new branch.
RangeFromHead(r, b) ==
  IF remote[r][b] # 0 THEN Ancestors(branch[b]) \ Ancestors(remote[r][b])
  ELSE Ancestors(branch[b]) \ Ancestors(branch[head])

\* pushRange: what the remote branch lacks; for a new branch what no remote has, and when
\* there is no such commit what HEAD lacks.
PushRange(r, b) ==
  LET new == Ancestors(branch[b]) \ OnRemotes
  IN IF remote[r][b] # 0 THEN Ancestors(branch[b]) \ Ancestors(remote[r][b])
     ELSE IF new # {} THEN new ELSE Ancestors(branch[b]) \ Ancestors(branch[head])

-----------------------------------------------------------------------------
(* git.                                                                    *)

MakeCommit(parents, tree) ==
  /\ Len(commits) <= MaxCommits
  /\ commits' = Append(commits, [parents |-> parents, tree |-> tree])
  /\ branch' = [branch EXCEPT ![head] = Len(commits) + 1]
  /\ UNCHANGED <<head, remote, tracking, published, scanned>>

\* check-staged on the difference to HEAD; --no-verify skips it.
Staged(tree, bypass) ==
  IF hook["commit"] # "ironrun" \/ bypass THEN UNCHANGED faults
  ELSE \E loaded \in Loadable :
         /\ Passes(loaded, tree \ commits[branch[head]].tree)
         /\ CountFault(loaded)

Commit(tree, bypass) ==
  /\ Work /\ tree # commits[branch[head]].tree
  /\ Staged(tree, bypass)
  /\ MakeCommit({branch[head]}, tree)
  /\ UNCHANGED <<policy, attached, old, env, active, manifests, cmd, stranded, users, hooks>>

\* A clean merge runs no pre-commit hook; a resolved conflict is committed like any change.
MergeBranch(b, tree, bypass) ==
  LET ours == branch[head]  theirs == branch[b] IN
  /\ Work /\ theirs # 0
  /\ theirs \notin Ancestors(ours) /\ ours \notin Ancestors(theirs)
  /\ \/ tree = commits[ours].tree \cup commits[theirs].tree /\ ~bypass /\ UNCHANGED faults
     \/ tree # commits[ours].tree \cup commits[theirs].tree /\ Staged(tree, bypass)
  /\ MakeCommit({ours, theirs}, tree)
  /\ UNCHANGED <<policy, attached, old, env, active, manifests, cmd, stranded, users, hooks>>

\* git switch, creating the branch when it is new.
Switch(b) ==
  /\ Work /\ b # head
  /\ head' = b
  /\ branch' = [branch EXCEPT ![b] = IF @ = 0 THEN branch[head] ELSE @]
  /\ UNCHANGED <<migVars, hooks, commits, remote, tracking, published, scanned>>

\* check-push on the range of the ref; --no-verify skips it.
Push(r, b, bypass) ==
  /\ Work /\ branch[b] # 0 /\ branch[b] # remote[r][b]
  /\ IF hook["push"] # "ironrun" \/ bypass THEN scanned' = FALSE /\ UNCHANGED faults
     ELSE \E loaded \in Loadable :
            /\ Passes(loaded, UNION {Added(c) : c \in PushRange(r, b)})
            /\ CountFault(loaded) /\ scanned' = (loaded = Sought)
  /\ remote' = [remote EXCEPT ![r][b] = branch[b]]
  /\ tracking' = [tracking EXCEPT ![r][b] = branch[b]]
  /\ published' = published \cup Ancestors(branch[b])
  /\ UNCHANGED <<policy, attached, old, env, active, manifests, cmd, stranded, users, hooks, commits, branch, head>>

\* A branch deleted on the remote: by a push of this clone, which scans nothing, or by
\* someone else, which leaves the remote-tracking ref behind.
DeleteRemote(r, b) ==
  /\ Work /\ remote[r][b] # 0
  /\ remote' = [remote EXCEPT ![r][b] = 0]
  /\ tracking' \in {tracking, remote'}
  /\ UNCHANGED <<migVars, hooks, commits, branch, head, published, scanned>>

-----------------------------------------------------------------------------
(* install-hooks and uninstall-hooks.                                      *)

StartSetup(op, force) ==
  /\ setup = NoSetup /\ Work
  /\ setup' = [NoSetup EXCEPT !.op = op, !.todo = Hooks, !.force = force]
  /\ UNCHANGED <<migVars, repo, hook, ignored, guarded>>

\* A file operation goes wrong, within the shared bound.
Mishap == Fault /\ work + faults + 2 * Len(manifests) < MaxWork

Smooth == UNCHANGED faults

migOthers == <<policy, attached, old, env, active, manifests, cmd, stranded, users>>

\* The loop over the scripts, a map: in any order; a foreign hook ends it without --force.
\* One that cannot be read counts as absent and is replaced.
InstallHook(h) ==
  /\ setup.op = "install" /\ h \in setup.todo
  /\ \/ hook[h] = "foreign" /\ ~setup.force
        /\ setup' = NoSetup /\ UNCHANGED hook /\ Smooth
     \/ /\ IF hook[h] = "foreign" /\ ~setup.force THEN Mishap ELSE Smooth
        /\ setup' = [setup EXCEPT !.todo = @ \ {h}] /\ hook' = [hook EXCEPT ![h] = "ironrun"]
  /\ UNCHANGED <<migOthers, repo, ignored, guarded, work>>

\* ensureGitignore adds the entry, under the marker, unless it is there; a .gitignore that
\* cannot be read is replaced by a new one.
FinishInstall ==
  /\ setup.op = "install" /\ setup.todo = {}
  /\ \/ ignored' = (IF ignored = "none" THEN "section" ELSE ignored) /\ Smooth
     \/ ignored = "user" /\ ignored' = "section" /\ Mishap
  /\ guarded' = ~setup.disturbed
  /\ setup' = NoSetup
  /\ UNCHANGED <<migOthers, repo, hook, work>>

\* pre-commit first; a foreign hook is left alone, and one that cannot be read.
UninstallHook(h) ==
  /\ setup.op = "uninstall" /\ h \in setup.todo
  /\ h = "push" => setup.todo = {"push"}
  /\ \/ hook' = [hook EXCEPT ![h] = IF @ = "ironrun" THEN "none" ELSE @] /\ Smooth
     \/ hook[h] = "ironrun" /\ Mishap /\ UNCHANGED hook
  /\ setup' = [setup EXCEPT !.todo = @ \ {h}]
  /\ guarded' = FALSE
  /\ UNCHANGED <<migOthers, repo, ignored, work>>

\* removeGitignoreSection takes the entry only where the marker stands before it; a file that
\* cannot be read is left, and the command succeeds.
FinishUninstall ==
  /\ setup.op = "uninstall" /\ setup.todo = {}
  /\ \/ ignored' = (IF ignored = "section" THEN "none" ELSE ignored) /\ Smooth
     \/ ignored = "section" /\ Mishap /\ UNCHANGED ignored
  /\ setup' = NoSetup
  /\ UNCHANGED <<migOthers, repo, hook, guarded, work>>

\* A write, rename or removal fails, or the process dies.
SetupFails ==
  /\ setup # NoSetup /\ Mishap
  /\ setup' = NoSetup
  /\ UNCHANGED <<migOthers, repo, hook, ignored, guarded, work>>

\* Another tool writes or removes a hook, or the human edits .gitignore.
OtherTool ==
  /\ Work
  /\ \/ \E h \in Hooks, k \in {"none", "foreign"} :
          hook[h] # k /\ hook' = [hook EXCEPT ![h] = k] /\ UNCHANGED ignored
     \/ ignored' = (IF ignored = "none" THEN "user" ELSE "none") /\ UNCHANGED hook
  /\ guarded' = FALSE
  /\ setup' = IF setup = NoSetup THEN setup ELSE [setup EXCEPT !.disturbed = TRUE]
  /\ UNCHANGED <<migVars, repo>>

-----------------------------------------------------------------------------
GitCommand ==
  \/ \E tree \in SUBSET Aliases, bypass \in BOOLEAN :
       Commit(tree, bypass) \/ \E b \in Branches : MergeBranch(b, tree, bypass)
  \/ \E b \in Branches :
       \/ Switch(b)
       \/ \E r \in Remotes : DeleteRemote(r, b) \/ \E bypass \in BOOLEAN : Push(r, b, bypass)

Setup ==
  \/ StartSetup("install", TRUE) \/ StartSetup("install", FALSE) \/ StartSetup("uninstall", FALSE)
  \/ (\E h \in Hooks : InstallHook(h) \/ UninstallHook(h))
  \/ FinishInstall \/ FinishUninstall \/ SetupFails \/ OtherTool

\* Migrations among git commands keep to the shared bound.
Migrating ==
  /\ MigNext /\ UNCHANGED guardVars
  /\ \/ work = 0 /\ commits = <<Root>>
     \/ faults' = faults /\ Len(manifests') = Len(manifests)
     \/ work + faults' + 2 * Len(manifests') <= MaxWork

GuardNext == GitCommand \/ Setup \/ Migrating

GuardSpec == GuardInit /\ [][GuardNext]_allVars
-----------------------------------------------------------------------------
(* Properties.                                                             *)

GuardTypeOK ==
  /\ hook \in [Hooks -> {"none", "foreign", "ironrun"}]
  /\ ignored \in {"none", "user", "section"}
  /\ setup.todo \subseteq Hooks /\ work \in 0 .. MaxWork
  /\ \A c \in 1 .. Len(commits) :
       commits[c].parents \subseteq 1 .. (c - 1) /\ commits[c].tree \subseteq Aliases
  /\ published \subseteq 1 .. Len(commits)
  /\ \A r \in Remotes, b \in Branches : {remote[r][b], tracking[r][b]} \subseteq published \cup {0}

\* hooks.go:95-99: an install that reports success has installed both hooks and covers
\* .ironrun/, as long as nobody else touches them.
InstalledIsGuarded ==
  guarded => (\A h \in Hooks : hook[h] = "ironrun") /\ ignored # "none"

\* hooks.go:98, "A pre-existing hook NOT managed by ironrun is left alone".
ForeignHooksStay ==
  [][\A h \in Hooks : hook[h] = "foreign" /\ hook'[h] = "ironrun" => setup.force]_allVars

\* gitcmd.go:46 and agentscrub.go:35: the push hook, unless it is bypassed or an entry cannot
\* be read, lets no commit out for the first time that adds a value of an unexpired
\* environment set, whatever branch, remote or stale remote-tracking ref the push goes by.
\* Merges show no diff and are exempt.
PublishedIsScanned ==
  [][scanned' => \A c \in published' \ published : Added(c) \cap Sought = {}]_allVars

\* gitcmd.go:44, "every managed vault value": those of expired sets, which the vault still
\* holds, included.
ManagedIsScanned ==
  [][scanned' => \A c \in published' \ published : Added(c) \cap Managed = {}]_allVars

\* The same for each remote: a commit that slipped out to one remote does not follow to
\* the next.
NewToRemoteIsScanned ==
  [][\A r \in Remotes, b \in Branches :
       scanned' /\ remote'[r][b] \notin {0, remote[r][b]}
         => \A c \in Ancestors(branch[b]) \ UNION {Ancestors(remote[r][x]) : x \in Branches} :
              Added(c) \cap Sought = {}]_allVars

\* The hooks, the files of the migration and an apply that failed.
GuardInv == GuardTypeOK /\ InstalledIsGuarded /\ MigInv /\ FailedApplyIsUndone

==============================================================================
