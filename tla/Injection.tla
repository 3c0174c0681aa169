------------------------------- MODULE Injection -------------------------------
(***************************************************************************)
(* From the stores to the output: `ironrun secrets` commands write the     *)
(* host-side stores of a project while `ironrun run` reads them; the       *)
(* values the command is given are the ones its output is rid of           *)
(* (Redactor).                                                             *)
(*                                                                         *)
(* The encrypted local store is a key file and a file per alias, written   *)
(* in place: truncated, then written.  The keychain is atomic.  A sealed   *)
(* file grows with its value.  Paths of file secrets and encoded forms of  *)
(* values, which are redacted too, are left out.                           *)
(***************************************************************************)
EXTENDS Redactor, Functions

CONSTANTS
  Procs, Runner,    \* `ironrun secrets` commands; the process that runs the command
  Aliases,          \* the secrets of the command
  Order,            \* the aliases as the command lists them
  Declared,         \* alias -> its store in the policy
  Darwin, SecurityTool,  \* the platform has a keychain; and `security` on every process's path
  Typed,            \* what the human types
  External,         \* what the provider may give for the command's env reference
  Projects,         \* the projects the run may find, see project
  MinRedactable,    \* values shorter than this are not redacted; the code has 4
  MaxCalls,         \* bound: secrets commands and runs
  MaxFaults,        \* bound: processes killed
  None

Owners == Procs \cup {Runner}

ASSUME InjectionAssumption ==
  /\ Runner \notin Procs /\ External \cup Typed \subseteq Values /\ MinRedactable \in Nat
  /\ Order \in Seq(Aliases) /\ Range(Order) = Aliases /\ DOMAIN Declared = Aliases
  /\ Projects # {}
  /\ \A p \in Projects : p.entries # None =>
       \A a \in Aliases : p.entries[a] # None => p.entries[a].value \in Values
  /\ None # "empty" /\ Owners \cap {None, "empty"} = {}
  /\ None \notin Values \cup [key : Owners, value : Values]

VARIABLES
  keyFile,   \* .key: None, "empty", or the key, named after its creator
  cell,      \* alias -> its file: None, Empty, Corrupt, or sealed
  keychain,  \* alias -> value or None
  proc,      \* process -> its call, see Idle
  run,       \* the run, see NoRun
  project,   \* entries: None when the aliases are in stores, else alias -> the entry of the
             \* environment, or None; kinds, names, targets: alias -> its kind, filename and
             \* variable in a policy of version 1, its entry's in one of version 2.  Constant
  calls, faults,
  latest,    \* history: backend -> alias -> what the last set may have left there; None for
             \* nothing that can be read
  keys       \* history: the processes that have created .key

storeVars == <<keyFile, cell, keychain>>
injVars == <<storeVars, proc, run, project, calls, faults, latest, keys>>

Backends == {"file", "keychain"}

\* A file of the store with nothing in it, and one that is no sealed value.
Empty == [key |-> None, value |-> <<>>]
Corrupt == [key |-> None, value |-> None]

\* fd: what a Set has open: the file alone, the file with another Set, a file since deleted.
Idle == [pc |-> "idle", op |-> None, alias |-> None, backend |-> None, key |-> None,
         value |-> None, fd |-> None]

\* todo: the alias that comes next.  handle: requested store -> the open store.
\* given: variable ("env" for the command's own) -> value.  files: filename -> value.  held: all of them.
NoRun == [pc |-> "idle", todo |-> 1, handle |-> <<>>, given |-> <<>>, files |-> <<>>, held |-> {}]

InjInit ==
  /\ RedactInit
  /\ keyFile = None /\ cell = [a \in Aliases |-> None] /\ keychain = [a \in Aliases |-> None]
  /\ proc = [p \in Owners |-> Idle] /\ run = NoRun /\ project \in Projects
  /\ calls = 0 /\ faults = 0 /\ keys = {}
  /\ latest = [b \in Backends |-> [a \in Aliases |-> {}]]

\* A map with one more entry, or another one, for x.
With(f, x, v) == [y \in DOMAIN f \cup {x} |-> IF y = x THEN v ELSE f[y]]

Goto(p, pc) == proc' = [proc EXCEPT ![p].pc = pc]
Done(p) == proc' = [proc EXCEPT ![p] = Idle]
At(p, pc) == proc[p].pc = pc

-----------------------------------------------------------------------------
(* Opening a store.                                                        *)

\* strings.ToLower, on the spellings a policy uses here.
Lower(name) ==
  IF name \in {"Keychain", "KEYCHAIN"} THEN "keychain" ELSE IF name = "Envfile" THEN "envfile" ELSE name

\* Open: the store a request names, None for an error.
Backend(requested) ==
  CASE requested \in {"", "auto"} -> IF Darwin /\ SecurityTool THEN "keychain" ELSE "file"
    [] Lower(requested) = "keychain" -> IF Darwin THEN "keychain" ELSE None
    [] Lower(requested) = "envfile" -> "file"
    [] OTHER -> None

\* chooseStore: the --provider flag of `secrets set`, unless it is auto.
ChooseStore(flag, declared) ==
  IF flag # "auto" THEN flag ELSE IF declared # "" THEN declared ELSE "auto"

\* newFileStore reads .key; one of invalid length is an error.
ReadKey(p) ==
  /\ At(p, "open")
  /\ CASE proc[p].backend = "keychain" -> Goto(p, "opened")
       [] proc[p].backend = "file" /\ keyFile \in Owners ->
            proc' = [proc EXCEPT ![p].pc = "opened", ![p].key = keyFile]
       [] proc[p].backend = "file" /\ keyFile = None -> Goto(p, "create")
       [] OTHER -> FALSE
  /\ UNCHANGED <<storeVars, run, project, calls, faults, latest, keys>>

\* writePrivate of the new key: the file is created or truncated ...
TruncateKey(p) ==
  /\ At(p, "create")
  /\ keyFile' = "empty" /\ keys' = keys \cup {p}
  /\ Goto(p, "fill")
  /\ UNCHANGED <<cell, keychain, run, project, calls, faults, latest>>

\* ... and written.
WriteKey(p) ==
  /\ At(p, "fill")
  /\ keyFile' = p
  /\ proc' = [proc EXCEPT ![p].pc = "opened", ![p].key = p]
  /\ UNCHANGED <<cell, keychain, run, project, calls, faults, latest, keys>>

\* Get: the value, or None for ErrMissing and for a store that is corrupt.
Get(backend, key, a) ==
  IF backend = "keychain" THEN keychain[a]
  ELSE IF cell[a] # None /\ cell[a].key = key THEN cell[a].value
  ELSE None

-----------------------------------------------------------------------------
(* ironrun secrets set, rotate, delete and status.                         *)

StartCommand(p, op, a, flag) ==
  /\ At(p, "idle") /\ calls < MaxCalls /\ project.entries = None
  /\ calls' = calls + 1
  /\ flag # "auto" => op = "set"
  /\ proc' = [proc EXCEPT ![p] = [Idle EXCEPT
       !.pc = "open", !.op = op, !.alias = a,
       !.backend = Backend(IF op = "set" THEN ChooseStore(flag, Declared[a]) ELSE Declared[a])]]
  /\ UNCHANGED <<storeVars, run, project, faults, latest, keys>>

\* The store cannot be opened, the value typed is empty, the store refuses the call, or
\* (status) there is no more to do.
EndCommand(p) ==
  /\ p \in Procs
  /\ \/ At(p, "open") /\ (proc[p].backend = None \/ (proc[p].backend = "file" /\ keyFile = "empty"))
     \/ At(p, "opened")
  /\ Done(p)
  /\ UNCHANGED <<storeVars, run, project, calls, faults, latest, keys>>

SetKeychain(p, v) ==
  LET a == proc[p].alias IN
  /\ At(p, "opened") /\ proc[p].op \in {"set", "rotate"} /\ proc[p].backend = "keychain" /\ SecurityTool
  /\ keychain' = [keychain EXCEPT ![a] = v]
  /\ latest' = [latest EXCEPT !["keychain"][a] = {v}]
  /\ Done(p)
  /\ UNCHANGED <<keyFile, cell, run, project, calls, faults, keys>>

Writing(a) == {p \in Procs : At(p, "write") /\ proc[p].alias = a /\ proc[p].fd # "deleted"}

\* Mutant: the file is opened without truncating it.
Kept(c) == IF c = None THEN Empty ELSE c

Truncated(c) == Empty

\* Set in the local store: the file of the alias is truncated ...
OpenCell(p, v) ==
  LET a == proc[p].alias
      fd == IF Writing(a) = {} THEN "alone" ELSE "shared" IN
  /\ At(p, "opened") /\ proc[p].op \in {"set", "rotate"} /\ proc[p].backend = "file"
  /\ cell' = [cell EXCEPT ![a] = Truncated(@)]
  /\ latest' = [latest EXCEPT !["file"][a] = Typed \cup {None}]
  /\ proc' = [q \in DOMAIN proc |->
       IF q = p THEN [proc[p] EXCEPT !.pc = "write", !.value = v, !.fd = fd]
       ELSE IF q \in Writing(a) THEN [proc[q] EXCEPT !.fd = "shared"] ELSE proc[q]]
  /\ UNCHANGED <<keyFile, keychain, run, project, calls, faults, keys>>

\* ... and written from its beginning: the end of a longer content stays behind it.
WriteCell(p) ==
  LET a == proc[p].alias
      sealed == [key |-> proc[p].key, value |-> proc[p].value]
      Covered == cell[a] = Empty
                 \/ (cell[a] # Corrupt /\ Len(cell[a].value) <= Len(proc[p].value)) IN
  /\ At(p, "write")
  /\ IF proc[p].fd = "deleted" THEN UNCHANGED <<cell, latest>>
     ELSE /\ cell' = [cell EXCEPT ![a] = IF Covered THEN sealed ELSE Corrupt]
          /\ latest' = IF proc[p].fd = "alone"
                       THEN [latest EXCEPT !["file"][a] = {proc[p].value}] ELSE latest
  /\ Done(p)
  /\ UNCHANGED <<keyFile, keychain, run, project, calls, faults, keys>>

\* A Set that has the file open writes to a file without a name.
DeleteValue(p) ==
  LET a == proc[p].alias IN
  /\ At(p, "opened") /\ proc[p].op = "delete"
  /\ IF proc[p].backend = "keychain"
     THEN SecurityTool /\ keychain' = [keychain EXCEPT ![a] = None] /\ UNCHANGED cell
     ELSE cell' = [cell EXCEPT ![a] = None] /\ UNCHANGED keychain
  /\ latest' = [latest EXCEPT ![proc[p].backend][a] = {}]
  /\ proc' = [q \in DOMAIN proc |->
       IF q = p THEN Idle
       ELSE IF proc[p].backend = "file" /\ q \in Writing(a) THEN [proc[q] EXCEPT !.fd = "deleted"]
       ELSE proc[q]]
  /\ UNCHANGED <<keyFile, run, project, calls, faults, keys>>

\* The command is killed.
Killed(p) ==
  /\ p \in Procs /\ ~At(p, "idle") /\ faults < MaxFaults
  /\ faults' = faults + 1
  /\ Done(p)
  /\ UNCHANGED <<storeVars, run, project, calls, latest, keys>>

-----------------------------------------------------------------------------
(* ironrun run: resolution.  Whatever cannot be had ends the run.          *)

\* The env reference of the command comes from the provider.
StartRun(v) ==
  /\ run.pc = "idle" /\ calls < MaxCalls
  /\ calls' = calls + 1
  /\ run' = [NoRun EXCEPT !.pc = "resolve", !.given = With(@, "env", v)]
  /\ UNCHANGED <<storeVars, proc, project, faults, latest, keys>>

Resolving == run.pc = "resolve" /\ run.todo <= Len(Order)
Wanted == Order[run.todo]

\* Mutant: the first store that was opened serves every alias.
HandleFirst(a) == IF DOMAIN run.handle = {} THEN Declared[a] ELSE CHOOSE r \in DOMAIN run.handle : TRUE

\* One open store per requested backend.
Handle(a) == Declared[a]

OpenStore ==
  /\ Resolving /\ project.entries = None /\ At(Runner, "idle")
  /\ Handle(Wanted) \notin DOMAIN run.handle /\ Backend(Declared[Wanted]) # None
  /\ proc' = [proc EXCEPT ![Runner].pc = "open", ![Runner].backend = Backend(Declared[Wanted])]
  /\ UNCHANGED <<storeVars, run, project, calls, faults, latest, keys>>

StoreOpened ==
  /\ Resolving /\ At(Runner, "opened")
  /\ run' = [run EXCEPT !.handle =
       With(@, Handle(Wanted), [backend |-> proc[Runner].backend, key |-> proc[Runner].key])]
  /\ Done(Runner)
  /\ UNCHANGED <<storeVars, project, calls, faults, latest, keys>>

Found == Get(run.handle[Handle(Wanted)].backend, run.handle[Handle(Wanted)].key, Wanted)

\* Two aliases may name one variable: the later one replaces the value of the earlier.
ResolveAlias ==
  /\ Resolving /\ project.entries = None
  /\ Handle(Wanted) \in DOMAIN run.handle /\ Found # None
  /\ run' = [run EXCEPT !.given = With(@, project.targets[Wanted], Found), !.todo = @ + 1]
  /\ UNCHANGED <<storeVars, proc, project, calls, faults, latest, keys>>

\* An entry that is used as a file must be one; as a variable any will do.
Available(a) ==
  project.entries[a] # None /\ (project.kinds[a] = "file" => project.entries[a].kind = "file")

\* The variable now holds a path.
Without(f, x) == Restrict(f, DOMAIN f \ {x})

\* The value of an entry, or a file of its own with its content.
ResolveEntry ==
  /\ Resolving /\ project.entries # None /\ Available(Wanted)
  /\ LET a == Wanted  v == project.entries[a].value IN
     \/ /\ project.kinds[a] = "env"
        /\ run' = [run EXCEPT !.given = With(@, project.targets[a], v), !.todo = @ + 1]
     \/ /\ project.kinds[a] = "file" /\ project.names[a] \notin DOMAIN run.files
        /\ run' = [run EXCEPT !.files = With(@, project.names[a], v), !.todo = @ + 1,
                              !.given = Without(@, project.targets[a])]
  /\ UNCHANGED <<storeVars, proc, project, calls, faults, latest, keys>>

\* No store, a missing or unreadable value, a lookup that fails, no such entry, a second
\* file of one name.
Unavailable ==
  IF project.entries = None
  THEN IF Handle(Wanted) \in DOMAIN run.handle
       THEN Found = None \/ run.handle[Handle(Wanted)].backend = "keychain"
       ELSE \/ Backend(Declared[Wanted]) = None
            \/ At(Runner, "open") /\ proc[Runner].backend = "file" /\ keyFile = "empty"
  ELSE \/ ~Available(Wanted)
       \/ project.kinds[Wanted] = "file" /\ project.names[Wanted] \in DOMAIN run.files

RunFails ==
  /\ Resolving /\ Unavailable
  /\ run' = NoRun /\ Done(Runner)
  /\ UNCHANGED <<storeVars, project, calls, faults, latest, keys>>

\* What the redactors are told: every value but the very short.
Redactable == {v \in Range(run.given) \cup Range(run.files) : Len(v) >= MinRedactable}

\* The command starts.  What becomes of the stores is of no more interest to it, and forgotten.
StartStream ==
  /\ run.pc = "resolve" /\ run.todo > Len(Order)
  /\ New(Redactable)
  /\ run' = [NoRun EXCEPT !.pc = "stream", !.held = Range(run.given) \cup Range(run.files)]
  /\ keyFile' = None /\ cell' = [a \in Aliases |-> None] /\ keychain' = [a \in Aliases |-> None]
  /\ proc' = [p \in DOMAIN proc |-> Idle] /\ calls' = MaxCalls /\ faults' = MaxFaults /\ keys' = {}
  /\ latest' = [b \in Backends |-> [a \in Aliases |-> {}]]
  /\ project' = CHOOSE p \in Projects : TRUE

-----------------------------------------------------------------------------
Command(p) ==
  \/ \E op \in {"set", "rotate", "delete", "status"}, a \in Aliases,
       flag \in {"auto", "keychain", "envfile"} : StartCommand(p, op, a, flag)
  \/ \E v \in Typed : SetKeychain(p, v) \/ OpenCell(p, v)
  \/ WriteCell(p) \/ DeleteValue(p) \/ EndCommand(p) \/ Killed(p)

Opening(p) == ReadKey(p) \/ TruncateKey(p) \/ WriteKey(p)

Resolution ==
  \/ \E v \in External : StartRun(v)
  \/ OpenStore \/ StoreOpened \/ ResolveAlias \/ ResolveEntry \/ RunFails

InjNext ==
  \/ /\ run.pc # "stream" /\ UNCHANGED redactVars
     /\ (\E p \in Procs : Command(p)) \/ (\E p \in DOMAIN proc : Opening(p)) \/ Resolution
  \/ StartStream
  \/ run.pc = "stream" /\ RedactNext /\ UNCHANGED injVars

InjSpec == InjInit /\ [][InjNext]_<<injVars, redactVars>>

-----------------------------------------------------------------------------
(* Properties.                                                             *)

InjTypeOK ==
  /\ keyFile \in {None, "empty"} \cup DOMAIN proc
  /\ \A a \in Aliases :
       /\ cell[a] \in {None, Empty, Corrupt} \cup [key : DOMAIN proc, value : Values]
       /\ keychain[a] \in Values \cup {None}
  /\ Range(run.given) \cup Range(run.files) \cup run.held \subseteq Values

\* What `secrets set` has stored is what a run finds until it is replaced or deleted, whoever
\* is killed in between (store.go:174).  Two sets of one alias at once may spoil each other,
\* and two processes that create the store at once each other's key.
StoredIsReadable ==
  Cardinality(keys) <= 1 =>
    \A a \in Aliases, v \in Typed : latest["file"][a] = {v} =>
      keyFile \in DOMAIN proc /\ cell[a] = [key |-> keyFile, value |-> v]

\* Both, for TLC.
StoresHold == RedactTypeOK /\ InjTypeOK /\ StoredIsReadable

\* A run takes each alias from the store its own declaration names, and the value set there
\* last: "mixed stores" never resolve through the first backend (store.go:34).
RunsGetTheirOwn ==
  [][project.entries = None /\ run'.todo > run.todo =>
       run'.given[project.targets[Wanted]] \in latest[Backend(Declared[Wanted])][Wanted]]_injVars

\* Every value the command holds, in a variable or in a file, is kept out of what it prints,
\* unless it is too short (runner.go:172).
NoSecretLeaves ==
  /\ \A v \in run.held : Len(v) >= MinRedactable => v \in secrets /\ addedAt[v] = 0
  /\ NoValueIsWritten
===============================================================================
