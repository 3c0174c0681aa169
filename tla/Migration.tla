------------------------------ MODULE Migration ------------------------------
(***************************************************************************)
(* ironrun migrate: the policy goes from version 1 (values under aliases   *)
(* of a provider store) to version 2 (values as entries of an encrypted    *)
(* environment), and back by rollback until a cleanup deletes the aliases. *)
(*                                                                         *)
(* One migration command runs at a time.  Every file write, every store    *)
(* call and the moments between them may fail or be the last, and the      *)
(* human may set and delete values and switch sets between any two.        *)
(***************************************************************************)
EXTENDS Naturals, Sequences, FiniteSets

CONSTANTS
  Aliases,        \* the secrets of the version-1 policy; alias and entry are one here
  Envs,           \* environment sets
  Dev,            \* the set a policy without environment_set migrates into
  MaxMigrations,  \* bound: migrations begun
  MaxFaults,      \* bound: failures, crashes, edits of the human and lifetimes that end
  Temporary,      \* sets that were given a lifetime
  None

ASSUME MigrationAssumption ==
  /\ Dev \in Envs /\ None \notin Envs /\ Temporary \subseteq Envs
  /\ MaxMigrations \in Nat /\ MaxFaults \in Nat

VARIABLES
  policy,     \* "v1" or "v2": the ironrun.yml in force
  attached,   \* the version-1 policy already reads the active environment set
  old,        \* aliases with a value in the provider store
  env,        \* environment set -> entries it holds
  active,     \* the active environment set
  manifests,  \* the migrations in order of their ids: environment and status
  cmd,        \* the running command
  faults,
  stranded,   \* history: putting version 1 back has failed
  expired,    \* the sets whose lifetime is over
  edited,     \* history: aliases whose values the human has set or deleted, in either
              \* place, since the last Apply began
  cleaned     \* history: aliases that a cleanup has deleted since then

users == <<expired, edited, cleaned>>
migVars == <<policy, attached, old, env, active, manifests, cmd, faults, stranded, users>>

Statuses == {"prepared", "applied", "rolled_back", "cleaned", "torn"}

\* id: the migration; todo: what its loop has left; added: what Apply has copied;
\* before: the entries Apply found; odd: the entry whose verification failed.
NoCommand == [op |-> "none", pc |-> "idle", id |-> 0, todo |-> {}, added |-> {},
              before |-> {}, odd |-> {}]

\* The mappings with Copied set.
Mapped == IF attached THEN {} ELSE Aliases

Target == manifests[cmd.id].environment

MigInit ==
  /\ policy = "v1" /\ attached \in BOOLEAN
  /\ old \in SUBSET Aliases
  /\ env \in [Envs -> SUBSET Aliases] /\ active \in Envs
  /\ manifests = <<>> /\ cmd = NoCommand /\ faults = 0 /\ stranded = FALSE
  /\ expired = {} /\ edited = {} /\ cleaned = {}

At(op, pc) == cmd.op = op /\ cmd.pc = pc
Goto(pc) == cmd' = [cmd EXCEPT !.pc = pc]
Fault == faults < MaxFaults /\ faults' = faults + 1

Status(s) == manifests' = [manifests EXCEPT ![cmd.id].status = s]

\* The status the running command ends with.
Final == [apply |-> "applied", rollback |-> "rolled_back", cleanup |-> "cleaned"][cmd.op]

WritesManifest == At("apply", "verify") \/ (cmd.pc \in {"remove", "erase"} /\ cmd.todo = {})

\* saveManifest truncates and writes in place: when it fails or the process dies the file
\* is as it was, torn, or written all the same.
SaveInterrupted == UNCHANGED manifests \/ (WritesManifest /\ \E s \in {Final, "torn"} : Status(s))

-----------------------------------------------------------------------------
(* Apply.                                                                  *)

\* Plan and the checks: the values are where version 1 has them and the destination is
\* free.  A check that fails ends the command without an effect.
StartApply ==
  LET e == IF attached THEN active ELSE Dev IN
  /\ cmd = NoCommand /\ policy = "v1" /\ Len(manifests) < MaxMigrations
  /\ attached => e \notin expired
  /\ IF attached THEN Aliases \subseteq env[e] ELSE env[e] \cap Aliases = {} /\ Aliases \subseteq old
  /\ manifests' = Append(manifests, [environment |-> e, status |-> "torn"])
  /\ cmd' = [NoCommand EXCEPT !.op = "apply", !.pc = "prepare", !.id = Len(manifests) + 1,
                              !.todo = Mapped, !.before = env[e]]
  /\ edited' = {} /\ cleaned' = {}
  /\ UNCHANGED <<policy, attached, old, env, active, faults, stranded, expired>>

\* The backup of the policy and the manifest.
Prepare ==
  /\ At("apply", "prepare")
  /\ Status("prepared") /\ Goto("copy")
  /\ UNCHANGED <<policy, attached, old, env, active, faults, stranded, users>>

PrepareFails ==
  /\ At("apply", "prepare") /\ Fault
  /\ (Status("prepared") \/ UNCHANGED manifests)
  /\ cmd' = NoCommand
  /\ UNCHANGED <<policy, attached, old, env, active, stranded, users>>

\* One entry is written, read back and compared.
Copy(a) ==
  /\ At("apply", "copy") /\ a \in cmd.todo /\ Target \notin expired
  /\ env' = [env EXCEPT ![Target] = @ \cup {a}]
  /\ cmd' = [cmd EXCEPT !.todo = @ \ {a}, !.added = @ \cup {a}]
  /\ UNCHANGED <<policy, attached, old, active, manifests, faults, stranded, users>>

\* The write fails, or the read-back does: then the entry is there but not in added.  Both
\* fail in a set that has expired.
CopyFails(a) ==
  /\ At("apply", "copy") /\ a \in cmd.todo
  /\ Fault \/ (Target \in expired /\ UNCHANGED faults)
  /\ \/ /\ UNCHANGED env
        /\ Goto("undo")
     \/ /\ env' = [env EXCEPT ![Target] = @ \cup {a}]
        /\ cmd' = [cmd EXCEPT !.pc = "undo", !.odd = {a}]
  /\ UNCHANGED <<policy, attached, old, active, manifests, stranded, users>>

SwitchPolicy ==
  /\ At("apply", "copy") /\ cmd.todo = {}
  /\ policy' = "v2" /\ Goto("verify")
  /\ UNCHANGED <<attached, old, env, active, manifests, faults, stranded, users>>

SwitchFails ==
  /\ At("apply", "copy") /\ cmd.todo = {} /\ Fault
  /\ Goto("undo")
  /\ UNCHANGED <<policy, attached, old, env, active, manifests, stranded, users>>

\* The new policy loads and the manifest says applied.
FinishApply ==
  /\ At("apply", "verify")
  /\ Status(Final)
  /\ cmd' = NoCommand
  /\ UNCHANGED <<policy, attached, old, env, active, faults, stranded, users>>

\* The policy does not load, or the manifest cannot be saved.
FinishApplyFails ==
  /\ At("apply", "verify") /\ Fault
  /\ SaveInterrupted
  /\ Goto("restore")
  /\ UNCHANGED <<policy, attached, old, env, active, stranded, users>>

\* The original goes back; an error is ignored.
Restore ==
  /\ At("apply", "restore")
  /\ \/ policy' = "v1" /\ UNCHANGED <<faults, stranded, users>>
     \/ Fault /\ stranded' = TRUE /\ UNCHANGED policy
  /\ Goto("undo")
  /\ UNCHANGED <<attached, old, env, active, manifests, users>>

\* rollbackValues: every entry in added is deleted; an error is ignored.
Undo(a) ==
  /\ At("apply", "undo") /\ a \in cmd.added
  /\ \/ env' = [env EXCEPT ![Target] = @ \ {a}] /\ UNCHANGED faults
        /\ cmd' = [cmd EXCEPT !.added = @ \ {a}]
     \/ Fault /\ UNCHANGED env
        /\ cmd' = [cmd EXCEPT !.added = @ \ {a}, !.odd = @ \cup {a}]
  /\ UNCHANGED <<policy, attached, old, active, manifests, stranded, users>>

\* The command reports the error.
ApplyFailed ==
  /\ At("apply", "undo") /\ cmd.added = {}
  /\ Goto("failed")
  /\ UNCHANGED <<policy, attached, old, env, active, manifests, faults, stranded, users>>

-----------------------------------------------------------------------------
(* Rollback and cleanup, of the migration the human names or of the last.  *)

Begin(op, pc, id) ==
  /\ cmd = NoCommand /\ manifests[id].status = "applied"
  /\ cmd' = [NoCommand EXCEPT !.op = op, !.pc = pc, !.id = id, !.todo = Mapped]
  /\ UNCHANGED <<policy, attached, old, env, active, manifests, faults, stranded, users>>

StartRollback(id) == Begin("rollback", "restore", id)

\* Mutant: the entries go first.
RollbackValuesFirst ==
  /\ At("rollback", "restore")
  /\ IF cmd.todo = {} THEN policy' = "v1" /\ Goto("remove") /\ UNCHANGED env
     ELSE \E a \in cmd.todo : /\ env' = [env EXCEPT ![Target] = @ \ {a}]
                              /\ cmd' = [cmd EXCEPT !.todo = @ \ {a}] /\ UNCHANGED policy
  /\ UNCHANGED <<attached, old, active, manifests, faults, stranded, users>>

\* The backup is put back first ...
RollbackPolicy ==
  /\ At("rollback", "restore")
  /\ policy' = "v1" /\ Goto("remove")
  /\ UNCHANGED <<attached, old, env, active, manifests, faults, stranded, users>>

\* ... then the copied entries are deleted.
RollbackValue(a) ==
  /\ At("rollback", "remove") /\ a \in cmd.todo
  /\ env' = [env EXCEPT ![Target] = @ \ {a}]
  /\ cmd' = [cmd EXCEPT !.todo = @ \ {a}]
  /\ UNCHANGED <<policy, attached, old, active, manifests, faults, stranded, users>>

FinishRollback ==
  /\ At("rollback", "remove") /\ cmd.todo = {}
  /\ Status(Final) /\ cmd' = NoCommand
  /\ UNCHANGED <<policy, attached, old, env, active, faults, stranded, users>>

\* Mutant: the policy in force is not checked.
CleanupBlind(id) == Begin("cleanup", "erase", id)

\* Version 2 has to be in force; that the copies are there is not looked at.
StartCleanup(id) == policy = "v2" /\ Begin("cleanup", "erase", id)

CleanupAlias(a) ==
  /\ At("cleanup", "erase") /\ a \in cmd.todo
  /\ old' = old \ {a} /\ cleaned' = cleaned \cup {a}
  /\ cmd' = [cmd EXCEPT !.todo = @ \ {a}]
  /\ UNCHANGED <<policy, attached, env, active, manifests, faults, stranded, expired, edited>>

FinishCleanup ==
  /\ At("cleanup", "erase") /\ cmd.todo = {}
  /\ Status(Final) /\ cmd' = NoCommand
  /\ UNCHANGED <<policy, attached, old, env, active, faults, stranded, users>>

\* Any of these steps fails and ends the command; the failing one may be the manifest.
CommandFails ==
  /\ cmd.op \in {"rollback", "cleanup"} /\ Fault
  /\ SaveInterrupted
  /\ cmd' = NoCommand
  /\ UNCHANGED <<policy, attached, old, env, active, stranded, users>>

-----------------------------------------------------------------------------
\* The process dies between two steps, perhaps in the middle of a manifest.
MigCrash ==
  /\ cmd.op # "none" /\ cmd.pc # "failed" /\ Fault
  /\ SaveInterrupted
  /\ cmd' = NoCommand
  /\ UNCHANGED <<policy, attached, old, env, active, stranded, users>>

\* The failed command ends.
Leave ==
  /\ cmd.pc = "failed" /\ cmd' = NoCommand
  /\ UNCHANGED <<policy, attached, old, env, active, manifests, faults, stranded, users>>

\* ironrun env use.
UseActive(e) ==
  /\ cmd = NoCommand /\ active # e /\ active' = e
  /\ UNCHANGED <<policy, attached, old, env, manifests, cmd, faults, stranded, users>>

Toggled(S, a) == (S \ {a}) \cup ({a} \ S)

\* ironrun env set, unset, rm, prune or sync and ironrun secrets set or rm, beside whatever
\* runs, one alias at a time: a value comes or goes.  An expired set takes none.
Edit(a) ==
  /\ \/ old' = Toggled(old, a) /\ UNCHANGED env
     \/ \E e \in Envs : /\ e \in expired => a \in env[e]
                       /\ env' = [env EXCEPT ![e] = Toggled(@, a)] /\ UNCHANGED old
  /\ Fault /\ edited' = edited \cup {a}
  /\ UNCHANGED <<policy, attached, active, manifests, cmd, stranded, expired, cleaned>>

\* The lifetime of a temporary set ends.
Expire(e) ==
  /\ e \in Temporary \ expired /\ expired' = expired \cup {e} /\ Fault
  /\ UNCHANGED <<policy, attached, old, env, active, manifests, cmd, stranded, edited, cleaned>>

Applying ==
  \/ StartApply \/ Prepare \/ PrepareFails \/ SwitchPolicy \/ SwitchFails
  \/ FinishApply \/ FinishApplyFails \/ Restore \/ ApplyFailed \/ Leave
  \/ \E a \in Aliases : Copy(a) \/ CopyFails(a) \/ Undo(a)

MigNext ==
  \/ Applying \/ RollbackPolicy \/ FinishRollback \/ FinishCleanup \/ CommandFails \/ MigCrash
  \/ \E id \in 1 .. Len(manifests) : StartRollback(id) \/ StartCleanup(id)
  \/ \E a \in Aliases : RollbackValue(a) \/ CleanupAlias(a) \/ Edit(a)
  \/ \E e \in Envs : UseActive(e) \/ Expire(e)

MigSpec == MigInit /\ [][MigNext]_migVars
-----------------------------------------------------------------------------
(* Properties.                                                             *)

MigTypeOK ==
  /\ policy \in {"v1", "v2"} /\ attached \in BOOLEAN /\ stranded \in BOOLEAN
  /\ old \subseteq Aliases /\ env \in [Envs -> SUBSET Aliases] /\ active \in Envs
  /\ \A id \in 1 .. Len(manifests) :
       manifests[id].environment \in Envs /\ manifests[id].status \in Statuses
  /\ cmd.id \in 0 .. Len(manifests) /\ cmd.todo \cup cmd.added \cup cmd.odd \subseteq Aliases
  /\ expired \subseteq Envs /\ edited \cup cleaned \subseteq Aliases

\* While a version-2 policy is in force some one environment, not always the active one and
\* perhaps an expired one, holds every value that the human has left alone: copies come
\* before the switch and leave after the switch back, at every crash and failure (but for a
\* version 1 that could not be put back).
NewPolicyFindsItsValues ==
  policy = "v2" /\ ~stranded => \E e \in Envs : Aliases \ edited \subseteq env[e]

\* The files of the migration at every point where it may stop.
MigInv == MigTypeOK /\ NewPolicyFindsItsValues

\* README:233, "copies values transactionally": an Apply that reports an error leaves
\* version 1 in force and the environment as it was, but for entries whose deletion or
\* verification failed, and those the human has changed meanwhile.
FailedApplyIsUndone ==
  cmd.pc = "failed" /\ ~stranded =>
    /\ policy = "v1" /\ cmd.before \subseteq env[Target] \cup edited
    /\ env[Target] \ cmd.before \subseteq cmd.odd \cup edited

\* The values still in the provider store or in some environment.
Surviving == {a \in Aliases : a \in old \/ \E e \in Envs : a \in env[e]}

\* migration.go:203-273: of the values that the human leaves alone, apply, its undoing and
\* cleanup never take the last copy away, wherever they stop; nor does rollback, unless a
\* cleanup that did not finish has deleted the alias before (and left the manifest at
\* "applied", so that rollback is still allowed).
OnlyRollbackLoses ==
  [][\A a \in Aliases \ edited' :
       ~stranded /\ a \in Surviving => a \in Surviving' \/ (cmd.op = "rollback" /\ a \in cleaned)]_migVars

\* README:235-236, "rollback ID remains available until an explicit cleanup ID": of the values
\* the human leaves alone none is ever in neither place.
NoValueIsLost ==
  [][\A a \in Aliases \ edited' : ~stranded /\ a \in Surviving => a \in Surviving']_migVars

\* migration.go:240-241: an alias is deleted only while an encrypted copy exists.
CleanupNeedsTheCopy ==
  [][\A a \in old \ old' : cmd.op = "cleanup" => \E e \in Envs : a \in env[e]]_migVars

\* README:232, "verifies encrypted storage": after a successful Apply the commands find
\* their values, which version 2 reads from the active set.
MigratedPolicyRuns ==
  [][At("apply", "verify") /\ cmd' = NoCommand /\ faults' = faults
       => Aliases \ edited \subseteq env'[active']]_migVars

=============================================================================
