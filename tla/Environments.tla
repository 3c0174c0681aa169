----------------------------- MODULE Environments -----------------------------
(***************************************************************************)
(* Environment sets: the metadata of environments.json, the values in the  *)
(* encrypted project vault, the root key in the keychain, and the values   *)
(* that older versions kept in the keychain itself and that reads migrate. *)
(*                                                                         *)
(* A process opens a Manager, which caches the metadata, and then makes    *)
(* calls.  A mutation runs under environments.json.lock: it reloads the    *)
(* metadata, changes the vault, commits the metadata.  One vault operation *)
(* is one step (LockedStore).  A read takes no metadata lock and uses the  *)
(* cached metadata.  Entries use their name as target.                     *)
(***************************************************************************)
EXTENDS Naturals, FiniteSets

CONSTANTS
  Procs,      \* processes with a Manager: CLI commands, dashboard, MCP server
  Names,      \* environment names
  Keys,       \* entry names
  Values,
  TTL,        \* lifetime of a temporary set
  MaxTime,    \* bound: the clock stops here
  MaxCalls,   \* bound: calls made in all, ticks included
  MaxFaults,  \* bound: crashes and failed writes
  None

Kinds == {"env", "file"}
Slots == Names \X Keys

\* A set of environments.json, and a value in the vault.
SetRecord == [expires : Nat \cup {None}, entries : [Keys -> Kinds \cup {None}]]
Cell == [form : {"text", "blob"}, value : Values]

ASSUME EnvAssumption ==
  /\ TTL \in Nat \ {0} /\ MaxTime \in Nat /\ MaxCalls \in Nat /\ MaxFaults \in Nat
  /\ None \notin Procs \cup Names \cup Keys \cup Values \cup Kinds
  /\ None \notin SetRecord /\ None \notin Cell

VARIABLES
  now,
  meta,      \* environments.json: the active set and the sets
  present,   \* environments.json exists
  vault,     \* slot -> the value in the vault and its form, or None
  legacy,    \* slot -> the value an older version left in the keychain, or None
  rootKey,   \* keychain: the project root key, named after its creator, or None
  sealedBy,  \* the root key under which the vault file authenticates; None: no file
  revision,  \* of the vault file
  lock,      \* the holder of environments.json.lock, or None
  initLock,  \* the holder of the vault initialization lock, or None
  proc,      \* process -> where it is, and its Manager
  calls, faults,
  remote,    \* copies of the vault file that were pushed to the remote
  lost,      \* history: the vault file has disappeared once
  keyLost,   \* history: the keychain entry has disappeared once
  misread,   \* history: the lookup of the key in the keychain has failed once
  fromCache, \* history: a mutation had metadata and no environments.json, and went on from its cache
  latest,    \* history: slot -> the value stored last, None when deleted
  upgraded   \* history: the project started with keychain values

stores == <<meta, present, vault, revision, legacy, rootKey, sealedBy, lock, initLock>>
sync == <<remote, lost, keyLost, misread, fromCache>>
history == <<latest, upgraded>>
envVars == <<now, stores, sync, proc, calls, faults, history>>

\* What a call works on; the resting value of each field is None.
NoCall == [op |-> None, name |-> None, key |-> None, kind |-> None, value |-> None, todo |-> {}]

NoMeta == [active |-> None, sets |-> [n \in Names |-> None]]

NewSet(expires) == [expires |-> expires, entries |-> [k \in Keys |-> None]]

HasSet(m, n) == n # None /\ m.sets[n] # None

Expired(s) == s.expires # None /\ now >= s.expires

EntryKeys(s) == {k \in Keys : s.entries[k] # None}

\* The form a value of this kind is stored in: Values or Blobs.
Form(kind) == IF kind = "file" THEN "blob" ELSE "text"

\* vault.Get reads text only, vault.GetBytes reads both.
Readable(cell, kind) == cell # None /\ (kind = "file" \/ cell.form = "text")

\* parse: the vault file authenticates under the key of this Manager.
Authenticates(p) == sealedBy \in {None, proc[p].root}

\* The value a slot holds, wherever it is.
Stored(s) == IF vault[s] # None THEN vault[s].value ELSE legacy[s]

EnvInit ==
  /\ now = 0 /\ calls = 0 /\ faults = 0
  /\ \/ /\ meta = NoMeta
        /\ legacy = [s \in Slots |-> None] /\ upgraded = FALSE /\ present = FALSE
     \/ \E n \in Names, v \in Values :
          /\ meta = [active |-> n,
                     sets |-> [NoMeta.sets EXCEPT ![n] =
                                 [expires |-> None, entries |-> [k \in Keys |-> "env"]]]]
          /\ legacy = [s \in Slots |-> IF s[1] = n THEN v ELSE None]
          /\ upgraded = TRUE /\ present = TRUE
  /\ vault = [s \in Slots |-> None] /\ revision = 0 /\ remote = {} /\ lost = FALSE /\ keyLost = FALSE
  /\ misread = FALSE /\ fromCache = FALSE
  /\ rootKey = None /\ sealedBy = None /\ lock = None /\ initLock = None
  /\ proc = [p \in Procs |-> [pc |-> "closed", view |-> NoMeta, root |-> None, call |-> NoCall]]
  /\ latest = legacy

At(p, pc) == proc[p].pc = pc
Goto(p, pc) == proc' = [proc EXCEPT ![p].pc = pc]

\* The call is over; the Manager keeps its cached metadata.
Finish(p) == proc' = [proc EXCEPT ![p].pc = "ready", ![p].call = NoCall]

Close(p) ==
  proc' = [proc EXCEPT ![p] = [pc |-> "closed", view |-> NoMeta, root |-> None, call |-> NoCall]]

Fault == faults < MaxFaults /\ faults' = faults + 1

EnvTick ==
  /\ now < MaxTime /\ calls + now < MaxCalls
  /\ now' = now + 1
  /\ UNCHANGED <<stores, sync, proc, calls, faults, history>>

-----------------------------------------------------------------------------
(* Opening: metadata first, then the root key under the initialization lock. *)

OpenMeta(p) ==
  /\ At(p, "closed")
  /\ proc' = [proc EXCEPT ![p].pc = "init", ![p].view = meta]
  /\ UNCHANGED <<now, sync, stores, calls, faults, history>>

\* Mutant: no lock around the creation of the key.
LockInitNever(p) ==
  /\ At(p, "init")
  /\ Goto(p, "key")
  /\ UNCHANGED <<now, sync, stores, calls, faults, history>>

\* flock: a crash releases it.
LockInit(p) ==
  /\ At(p, "init") /\ initLock = None
  /\ initLock' = p
  /\ Goto(p, "key")
  /\ UNCHANGED <<now, sync, meta, present, vault, revision, legacy, rootKey, sealedBy, lock, calls, faults, history>>

\* protector.Load: the key is there, or it is missing.  The native stores answer "missing" to every
\* failed lookup (a locked keychain, a denied prompt).
LoadKey(p) ==
  /\ At(p, "key")
  /\ \/ /\ rootKey # None
        /\ proc' = [proc EXCEPT ![p].pc = "load", ![p].root = rootKey]
        /\ UNCHANGED <<faults, misread>>
     \/ /\ Goto(p, "create")
        /\ IF rootKey = None THEN UNCHANGED <<faults, misread>> ELSE Fault /\ misread' = TRUE
  /\ UNCHANGED <<now, remote, lost, keyLost, fromCache, stores, calls, history>>

\* No vault file: generate a key and protect it, over whatever the keychain holds.
CreateKey(p) ==
  /\ At(p, "create") /\ sealedBy = None
  /\ rootKey' = p
  /\ proc' = [proc EXCEPT ![p].pc = "load", ![p].root = p]
  /\ UNCHANGED <<now, sync, meta, present, vault, revision, legacy, sealedBy, lock, initLock, calls, faults, history>>

\* Open fails: a vault without its key or under another one, the lock or the vault file cannot be
\* read, or the new key cannot be saved, or not be verified once it is saved.
OpenFails(p) ==
  /\ \/ At(p, "create") /\ sealedBy # None /\ UNCHANGED <<rootKey, faults>>
     \/ At(p, "load") /\ ~Authenticates(p) /\ UNCHANGED <<rootKey, faults>>
     \/ proc[p].pc \in {"init", "create", "load"} /\ Fault /\ UNCHANGED rootKey
     \/ At(p, "create") /\ sealedBy = None /\ Fault /\ rootKey' = p
  /\ Close(p)
  /\ initLock' = IF initLock = p THEN None ELSE initLock
  /\ UNCHANGED <<now, sync, meta, present, vault, revision, legacy, sealedBy, lock, calls, history>>

\* The existing file authenticates under the key: the Manager is ready.
LoadVault(p) ==
  /\ At(p, "load") /\ Authenticates(p)
  /\ Goto(p, "ready")
  /\ initLock' = None
  /\ UNCHANGED <<now, sync, meta, present, vault, revision, legacy, rootKey, sealedBy, lock, calls, faults, history>>

\* The keychain entry of an existing vault disappears.
LoseKey ==
  /\ Fault /\ sealedBy # None /\ rootKey # None
  /\ rootKey' = None /\ keyLost' = TRUE
  /\ UNCHANGED <<now, remote, lost, misread, fromCache, meta, present, vault, revision, legacy, sealedBy, lock, initLock, proc, calls, history>>

\* A CLI command ends; the next one opens a new Manager.
Exit(p) ==
  /\ At(p, "ready")
  /\ Close(p)
  /\ UNCHANGED <<now, sync, stores, calls, faults, history>>

-----------------------------------------------------------------------------
(* Mutations.                                                              *)

Begin(p, pc, call) ==
  /\ At(p, "ready") /\ calls + now < MaxCalls
  /\ calls' = calls + 1
  /\ proc' = [proc EXCEPT ![p].pc = pc, ![p].call = call]
  /\ UNCHANGED <<now, sync, stores, faults, history>>

StartCreate(p, n, temporary) ==
  Begin(p, "lock", [NoCall EXCEPT !.op = "create", !.name = n, !.value = temporary])

StartUse(p, n) == Begin(p, "lock", [NoCall EXCEPT !.op = "use", !.name = n])

StartPut(p, n, k, kind, v) ==
  Begin(p, "lock", [NoCall EXCEPT !.op = "put", !.name = n, !.key = k, !.kind = kind, !.value = v])

StartDelete(p, n, k) ==
  Begin(p, "lock", [NoCall EXCEPT !.op = "delete", !.name = n, !.key = k, !.todo = {k}])

StartRemove(p, n) == Begin(p, "lock", [NoCall EXCEPT !.op = "remove", !.name = n])

\* Prune judges by the cached metadata and then removes the set like Remove.
StartPrune(p, n) ==
  /\ HasSet(proc[p].view, n) /\ Expired(proc[p].view.sets[n])
  /\ Begin(p, "lock", [NoCall EXCEPT !.op = "prune", !.name = n])

\* Mutant: the cached metadata is used, not the committed one.
LockMetaStale(p) ==
  /\ At(p, "lock") /\ lock = None
  /\ lock' = p
  /\ Goto(p, "apply")
  /\ UNCHANGED <<now, sync, meta, present, vault, revision, legacy, rootKey, sealedBy, initLock, calls, faults, history>>

\* update: take the lock and reload the committed metadata.  Where there is no file the Manager goes
\* on with what it has cached, the changes of its failed calls included.
LockMeta(p) ==
  /\ At(p, "lock") /\ lock = None
  /\ lock' = p
  /\ proc' = [proc EXCEPT ![p].pc = "apply", ![p].view = IF present THEN meta ELSE @]
  /\ IF present \/ proc[p].view = NoMeta THEN UNCHANGED fromCache ELSE fromCache' = TRUE
  /\ UNCHANGED <<now, remote, lost, keyLost, misread, meta, present, vault, revision, legacy, rootKey,
                 sealedBy, initLock, calls, faults, history>>

\* The change that needs no value store, on the reloaded metadata.
ChangeMeta(p, m) ==
  /\ proc' = [proc EXCEPT ![p].pc = "commit", ![p].view = m]
  /\ UNCHANGED <<now, sync, stores, calls, faults, history>>

ApplyCreate(p) ==
  LET c == proc[p].call  m == proc[p].view
  IN /\ At(p, "apply") /\ c.op = "create" /\ ~HasSet(m, c.name)
     /\ ChangeMeta(p, [active |-> IF m.active = None THEN c.name ELSE m.active,
                       sets |-> [m.sets EXCEPT ![c.name] =
                                   NewSet(IF c.value THEN now + TTL ELSE None)]])

ApplyUse(p) ==
  LET c == proc[p].call
  IN /\ At(p, "apply") /\ c.op = "use" /\ HasSet(proc[p].view, c.name)
     /\ ChangeMeta(p, [proc[p].view EXCEPT !.active = c.name])

\* The set exists (and lives, for a put): go on to the value store.
ApplyValues(p) ==
  LET c == proc[p].call  m == proc[p].view
  IN /\ At(p, "apply") /\ c.op \in {"put", "delete", "remove", "prune"} /\ HasSet(m, c.name)
     /\ c.op = "put" => ~Expired(m.sets[c.name])
     /\ proc' = [proc EXCEPT
          ![p].pc = IF c.op = "put" THEN "store" ELSE "erase",
          ![p].call.todo = IF c.op \in {"remove", "prune"} THEN EntryKeys(m.sets[c.name]) ELSE @]
     /\ UNCHANGED <<now, sync, stores, calls, faults, history>>

\* No such set, set exists already, set expired.
Refused(c, m) ==
  IF c.op = "create" THEN HasSet(m, c.name)
  ELSE HasSet(m, c.name) => c.op = "put" /\ Expired(m.sets[c.name])

\* The call returns an error.
ApplyRefused(p) ==
  /\ At(p, "apply") /\ Refused(proc[p].call, proc[p].view)
  /\ Finish(p) /\ lock' = None
  /\ UNCHANGED <<now, sync, meta, present, vault, revision, legacy, rootKey, sealedBy, initLock, calls, faults, history>>

WithEntry(m, n, k, kind) == [m EXCEPT !.sets[n].entries[k] = kind]

\* save: the document gets the next revision and the MAC under this Manager's key.
Seal(p, cells) == vault' = cells /\ revision' = revision + 1 /\ sealedBy' = proc[p].root

\* Set and SetBytes: the scope is opened, the value placed in the form of its kind and
\* taken out of the other, and the scope sealed again.
PutVault(p, s, kind, v) == Seal(p, [vault EXCEPT ![s] = [form |-> Form(kind), value |-> v]])

\* putEntry: the vault commits first, in the form of the kind; then the entry is listed.
StoreValue(p) ==
  LET c == proc[p].call  s == <<c.name, c.key>>
  IN /\ At(p, "store") /\ Authenticates(p)
     /\ PutVault(p, s, c.kind, c.value)
     /\ latest' = [latest EXCEPT ![s] = c.value]
     /\ proc' = [proc EXCEPT ![p].pc = "commit",
                             ![p].view = WithEntry(@, c.name, c.key, c.kind)]
     /\ UNCHANGED <<now, sync, meta, present, legacy, rootKey, lock, initLock, calls, faults, upgraded>>

\* Store.Delete: the vault, then the keychain.
EraseVault(p, k) ==
  LET s == <<proc[p].call.name, k>>
  IN /\ At(p, "erase") /\ k \in proc[p].call.todo /\ Authenticates(p)
     /\ vault' = [vault EXCEPT ![s] = None]
     /\ revision' = IF vault[s] = None THEN revision ELSE revision + 1
     /\ latest' = [latest EXCEPT ![s] = None]
     /\ proc' = [proc EXCEPT ![p].pc = "eraseLegacy", ![p].call.key = k]
     /\ UNCHANGED <<now, sync, meta, present, legacy, rootKey, sealedBy, lock, initLock, calls, faults, upgraded>>

EraseLegacy(p) ==
  LET c == proc[p].call
  IN /\ At(p, "eraseLegacy")
     /\ legacy' = [legacy EXCEPT ![<<c.name, c.key>>] = None]
     /\ proc' = [proc EXCEPT ![p].pc = "erase", ![p].call.todo = @ \ {c.key}]
     /\ UNCHANGED <<now, sync, meta, present, vault, revision, rootKey, sealedBy, lock, initLock, calls, faults, history>>

\* The active set after n is gone: unchanged, or the first of the remaining names (any
\* of them here: the model does not order names).
ActiveAfter(m, n) ==
  LET rest == {x \in Names \ {n} : m.sets[x] # None}
  IN IF m.active # n THEN {m.active} ELSE IF rest = {} THEN {None} ELSE rest

\* All values are gone: the entry has been dropped, a removed set is dropped too.
Erased(p) ==
  LET c == proc[p].call  m == proc[p].view
  IN /\ At(p, "erase") /\ c.todo = {}
     /\ IF c.op = "delete" THEN ChangeMeta(p, WithEntry(m, c.name, c.key, None))
        ELSE \E a \in ActiveAfter(m, c.name) :
               ChangeMeta(p, [active |-> a, sets |-> [m.sets EXCEPT ![c.name] = None]])

\* Atomic replacement of environments.json, lock removed.
CommitMeta(p) ==
  /\ At(p, "commit")
  /\ meta' = proc[p].view /\ present' = TRUE
  /\ Finish(p) /\ lock' = None
  /\ UNCHANGED <<now, sync, vault, revision, legacy, rootKey, sealedBy, initLock, calls, faults, history>>

Slot(p) == <<proc[p].call.name, proc[p].call.key>>

\* Mutant: an error of the value store is ignored.
FailForward(p) ==
  /\ Fault /\ At(p, "store")
  /\ proc' = [proc EXCEPT ![p].pc = "commit",
       ![p].view = WithEntry(@, proc[p].call.name, proc[p].call.key, proc[p].call.kind)]
  /\ UNCHANGED <<now, sync, stores, calls, history>>

\* A write that fails after its rename: the new file is in place, the error is returned.
StoresAnyway(p) ==
  /\ At(p, "store") /\ Authenticates(p)
  /\ PutVault(p, Slot(p), proc[p].call.kind, proc[p].call.value)
  /\ latest' = [latest EXCEPT ![Slot(p)] = proc[p].call.value]
  /\ UNCHANGED <<meta, present, legacy>>

CommitsAnyway(p) ==
  /\ At(p, "commit")
  /\ meta' = proc[p].view /\ present' = TRUE
  /\ UNCHANGED <<vault, revision, sealedBy, legacy, latest>>

\* When the vault refuses a deletion, or reports it as failed, the keychain is cleared all the same.
ErasesAnyway(p) ==
  /\ At(p, "erase")
  /\ \E k \in proc[p].call.todo, gone \in BOOLEAN :
       LET s == <<proc[p].call.name, k>>
       IN /\ legacy' = [legacy EXCEPT ![s] = None]
          /\ IF gone /\ Authenticates(p) /\ vault[s] # None
             THEN Seal(p, [vault EXCEPT ![s] = None])
             ELSE UNCHANGED <<vault, revision, sealedBy>>
          /\ latest' = IF vault'[s] = None THEN [latest EXCEPT ![s] = None] ELSE latest
  /\ UNCHANGED <<meta, present>>

\* The value store or the metadata write fails: the call returns the error, and nothing takes back
\* what it has done.  The cached metadata keeps what the call had changed.
UpdateFails(p) ==
  /\ IF proc[p].pc \in {"store", "erase"} /\ ~Authenticates(p) THEN UNCHANGED faults ELSE Fault
  /\ proc[p].pc \in {"store", "erase", "eraseLegacy", "commit"}
  /\ \/ UNCHANGED <<meta, present, vault, revision, sealedBy, legacy, latest>>
     \/ StoresAnyway(p) \/ CommitsAnyway(p) \/ ErasesAnyway(p)
  /\ Finish(p) /\ lock' = None
  /\ UNCHANGED <<now, sync, rootKey, initLock, calls, upgraded>>

-----------------------------------------------------------------------------
(* Reads, with the read-through migration.                                 *)

\* Get or GetBytes, by the cached entry; refused for a missing or expired set.
StartGet(p, n, k) ==
  LET m == proc[p].view
  IN /\ HasSet(m, n) /\ ~Expired(m.sets[n])
     /\ Begin(p, "read", [NoCall EXCEPT !.op = "get", !.name = n, !.key = k,
               !.kind = IF m.sets[n].entries[k] = None THEN "env" ELSE m.sets[n].entries[k]])

\* Found in the vault, or look further; a vault that does not authenticate ends the read.
ReadVault(p) ==
  /\ At(p, "read")
  /\ IF ~Authenticates(p) \/ Readable(vault[Slot(p)], proc[p].call.kind) THEN Finish(p) ELSE Goto(p, "readLegacy")
  /\ UNCHANGED <<now, sync, stores, calls, faults, history>>

\* Found in the keychain, or missing.
ReadLegacy(p) ==
  /\ At(p, "readLegacy")
  /\ IF legacy[Slot(p)] = None THEN Finish(p)
     ELSE proc' = [proc EXCEPT ![p].pc = "migrate", ![p].call.value = legacy[Slot(p)]]
  /\ UNCHANGED <<now, sync, stores, calls, faults, history>>

\* Vault commit first ...
MigrateValue(p) ==
  /\ At(p, "migrate") /\ Authenticates(p)
  /\ PutVault(p, Slot(p), proc[p].call.kind, proc[p].call.value)
  /\ Goto(p, "dropLegacy")
  /\ UNCHANGED <<now, sync, meta, present, legacy, rootKey, lock, initLock, calls, faults, history>>

\* ... legacy delete second; its error is ignored.
DropLegacy(p) ==
  /\ At(p, "dropLegacy")
  /\ \/ legacy' = [legacy EXCEPT ![Slot(p)] = None] /\ UNCHANGED faults
     \/ Fault /\ UNCHANGED legacy
  /\ Finish(p)
  /\ UNCHANGED <<now, sync, meta, present, vault, revision, rootKey, sealedBy, lock, initLock, calls, history>>

\* The vault refuses the migrated value, or reports a write that took place as failed: the read
\* fails.
MigrateFails(p) ==
  /\ At(p, "migrate") /\ (IF Authenticates(p) THEN Fault ELSE UNCHANGED faults)
  /\ \/ UNCHANGED <<vault, revision, sealedBy>>
     \/ Authenticates(p) /\ PutVault(p, Slot(p), proc[p].call.kind, proc[p].call.value)
  /\ Finish(p)
  /\ UNCHANGED <<now, sync, meta, present, legacy, rootKey, lock, initLock, calls, history>>

-----------------------------------------------------------------------------
(* ironrun env sync.  The remote may answer with any copy it ever got, or  *)
(* with the vault that another machine, with its own root key, has pushed. *)

Document == [revision |-> revision, cells |-> vault, sealedBy |-> sealedBy]

Foreign == [revision |-> MaxCalls + 2, cells |-> [s \in Slots |-> None], sealedBy |-> None]

Push(p) ==
  /\ At(p, "ready") /\ sealedBy # None /\ Document \notin remote
  /\ remote' = remote \cup {Document}
  /\ UNCHANGED <<now, stores, lost, keyLost, misread, fromCache, proc, calls, faults, history>>

\* What Drive answers; the vault is not locked meanwhile.
StartPull(p, doc) == Begin(p, "replace", [NoCall EXCEPT !.op = "pull", !.value = doc])

\* Mutant: whatever authenticates is taken.
AuthenticOnly(p, doc) == doc.sealedBy = proc[p].root

\* Replace takes a document only if it authenticates and is newer than the local one.
Replaceable(p, doc) == doc.sealedBy = proc[p].root /\ doc.revision > revision

\* Replace, under the lock of the vault; everything else is refused or is no change.
Replace(p) ==
  LET doc == proc[p].call.value
  IN /\ At(p, "replace")
     /\ IF Authenticates(p) /\ Replaceable(p, doc)
        THEN vault' = doc.cells /\ revision' = doc.revision /\ sealedBy' = doc.sealedBy
        ELSE UNCHANGED <<vault, revision, sealedBy>>
     /\ Finish(p)
     /\ UNCHANGED <<now, sync, meta, present, legacy, rootKey, lock, initLock, calls, faults, history>>

\* The vault file, which is outside the project, disappears: a new machine, a clean-up.
LoseVault ==
  /\ Fault /\ sealedBy # None
  /\ lost' = TRUE
  /\ vault' = [s \in Slots |-> None] /\ revision' = 0 /\ sealedBy' = None
  /\ UNCHANGED <<now, remote, keyLost, misread, fromCache, meta, present, legacy, rootKey, lock, initLock, proc, calls, history>>

\* environments.json disappears from the project (git clean, a deleted .ironrun).
LoseMeta ==
  /\ Fault /\ present
  /\ meta' = NoMeta /\ present' = FALSE
  /\ IF lock = None THEN UNCHANGED fromCache ELSE fromCache' = TRUE
  /\ UNCHANGED <<now, remote, lost, keyLost, misread, vault, revision, legacy, rootKey, sealedBy, lock, initLock, proc, calls, history>>

Syncing(p) == Push(p) \/ Replace(p) \/ \E doc \in remote \cup {Foreign} : StartPull(p, doc)

-----------------------------------------------------------------------------
\* The process dies; its lock directory goes stale and is broken by the next caller.
EnvCrash(p) ==
  /\ Fault /\ proc[p].pc \notin {"closed", "ready"}
  /\ Close(p)
  /\ lock' = IF lock = p THEN None ELSE lock
  /\ initLock' = IF initLock = p THEN None ELSE initLock
  /\ UNCHANGED <<now, sync, meta, present, vault, revision, legacy, rootKey, sealedBy, calls, history>>

Start(p) ==
  \/ \E n \in Names :
       \/ \E temporary \in BOOLEAN : StartCreate(p, n, temporary)
       \/ StartUse(p, n) \/ StartRemove(p, n) \/ StartPrune(p, n)
       \/ \E k \in Keys :
            \/ StartDelete(p, n, k) \/ StartGet(p, n, k)
            \/ \E kind \in Kinds, v \in Values : StartPut(p, n, k, kind, v)

Opening(p) ==
  OpenMeta(p) \/ LockInit(p) \/ LoadKey(p) \/ CreateKey(p) \/ OpenFails(p) \/ LoadVault(p)

Mutating(p) ==
  \/ LockMeta(p) \/ ApplyCreate(p) \/ ApplyUse(p) \/ ApplyValues(p) \/ ApplyRefused(p)
  \/ StoreValue(p) \/ (\E k \in Keys : EraseVault(p, k)) \/ EraseLegacy(p) \/ Erased(p)
  \/ CommitMeta(p) \/ UpdateFails(p)

Reading(p) == ReadVault(p) \/ ReadLegacy(p) \/ MigrateValue(p) \/ DropLegacy(p) \/ MigrateFails(p)

EnvNext ==
  \/ EnvTick \/ LoseKey \/ LoseVault \/ LoseMeta
  \/ \E p \in Procs :
       Start(p) \/ Opening(p) \/ Mutating(p) \/ Reading(p) \/ Syncing(p) \/ Exit(p) \/ EnvCrash(p)

EnvSpec == EnvInit /\ [][EnvNext]_envVars
-----------------------------------------------------------------------------
(* Properties.                                                             *)

EnvTypeOK ==
  /\ {s \in Slots : vault[s] # None /\ vault[s].form \notin {"text", "blob"}} = {}
  /\ legacy \in [Slots -> Values \cup {None}] /\ latest \in [Slots -> Values \cup {None}]
  /\ {rootKey, sealedBy, lock, initLock} \subseteq Procs \cup {None}
  /\ {present, misread, fromCache} \subseteq BOOLEAN
  /\ meta.active \in Names \cup {None}
  /\ \A n \in Names : meta.sets[n] # None =>
       /\ meta.sets[n].expires \in Nat \cup {None}
       /\ meta.sets[n].entries \in [Keys -> Kinds \cup {None}]
  /\ revision \in Nat /\ {doc.sealedBy : doc \in remote} \subseteq Procs
  /\ \A p \in Procs : proc[p].root \in Procs \cup {None} /\ proc[p].call.todo \subseteq Keys

\* The file and every open Manager use the key in the keychain, if there is one.  (Where the key and
\* the file have both disappeared the next first open makes a new key, and a Manager that was open
\* still has the old one.)
FirstOpensAgree ==
  rootKey # None /\ ~(lost /\ keyLost) =>
    /\ sealedBy \in {None, rootKey}
    /\ \A p \in Procs : At(p, "ready") => proc[p].root = rootKey

\* store.go:102-104: two first opens must not save different keys and orphan one caller's
\* vault, and a lost key is never replaced, as long as no lookup of a key that is there has failed:
\* such a lookup counts as "missing", and a first open then replaces the key.
KeyOpensVault == ~misread => FirstOpensAgree

\* The metadata never selects a set that is gone, nor none while there is one.
ActiveIsASet ==
  /\ meta.active # None => HasSet(meta, meta.active)
  /\ (\E n \in Names : HasSet(meta, n)) => meta.active # None

\* manager.go:183-186: concurrent writers do not drop each other's entries: between
\* mutations the entries of environments.json are exactly the slots of the vault (in a
\* project without keychain values and without faults), so that removing a set erases
\* every value of it.
NoOrphans ==
  lock = None /\ faults = 0 /\ ~upgraded =>
    \A n \in Names, k \in Keys :
      (HasSet(meta, n) /\ meta.sets[n].entries[k] # None) <=> vault[<<n, k>>] # None

\* What every transaction of the manager leaves behind: the selected set exists, and what
\* the metadata lists is what the vault holds.
EnvInv == EnvTypeOK /\ ActiveIsASet /\ NoOrphans

\* An entry appears in environments.json only when its value is already stored, whatever
\* fails in between, as long as the vault file is not lost and no mutation has gone on from its
\* cached metadata where environments.json was gone.
ListedAfterStored ==
  [][\A n \in Names, k \in Keys :
       HasSet(meta', n) /\ meta'.sets[n].entries[k] # None
         => \/ Stored(<<n, k>>)' # None
            \/ HasSet(meta, n) /\ meta.sets[n].entries[k] # None
            \/ lost \/ fromCache]_envVars

\* The same, whatever happens to environments.json.
ListedMeansStored ==
  [][\A n \in Names, k \in Keys :
       HasSet(meta', n) /\ meta'.sets[n].entries[k] # None
         => \/ Stored(<<n, k>>)' # None
            \/ HasSet(meta, n) /\ meta.sets[n].entries[k] # None
            \/ lost]_envVars

Deletes(p, s) ==
  /\ proc[p].call.op \in {"delete", "remove", "prune"}
  /\ proc[p].pc \in {"erase", "eraseLegacy"} /\ proc[p].call.name = s[1]

\* vault_store.go:79: an interruption of the read-through migration cannot lose the only
\* committed value: only a deletion makes a stored value that was not being deleted disappear.
MigrationKeepsACopy ==
  [][\A s \in Slots : ~lost' /\ latest[s] # None /\ Stored(s) # None /\ Stored(s)' = None
       => \E p \in Procs : Deletes(p, s)]_envVars

\* CHANGELOG.md:93-95, against "data loss and silent rollback": what comes back from the
\* remote, however late, changes the vault only where the local file has been lost.
PullKeepsNewer ==
  [][\A p \in Procs : At(p, "replace") /\ proc'[p].pc # "replace" /\ vault' # vault => lost]_envVars

\* Values leave the store by deletion only: no interruption of a read and no pull takes one.
ValuesStay == MigrationKeepsACopy /\ PullKeepsNewer

\* ADR-0001:104, "Lazy migration is lossless": what a slot holds is the value stored last.
MigrationIsLossless ==
  \A s \in Slots : latest[s] # None => Stored(s) = latest[s]

\* env.go: prune deletes expired temporary sets, no others.
PruneSparesLivingSets ==
  [][\A p \in Procs, n \in Names :
       proc[p].call.op = "prune" /\ At(p, "commit") /\ HasSet(meta, n) /\ ~HasSet(meta', n)
         => Expired(meta.sets[n])]_envVars

=============================================================================
