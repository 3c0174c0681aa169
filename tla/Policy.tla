-------------------------------- MODULE Policy --------------------------------
(***************************************************************************)
(* The policy file ironrun.yml: what Parse accepts, where a secret name is *)
(* stored, and the rewrite from version 1 to version 2.  A document is the *)
(* record the YAML decodes to; names are members of small sets, some of    *)
(* them well formed.                                                       *)
(***************************************************************************)
EXTENDS Naturals, Sequences, FiniteSets

CONSTANTS
  Names,       \* aliases, entry names and environment targets
  GoodNames,   \* those validEnvTarget accepts
  EntryNames,  \* those validEntryName accepts, some more
  Files,       \* the safe basenames a file secret can name
  None

(***************************************************************************)
(* A document: [version, active, secrets : Names -> declaration or None,   *)
(* commands : sequence of [id, secrets : sequence of names]].  A           *)
(* declaration: [env, kind, filename, allow].                              *)
(***************************************************************************)
Aliases(f) == {a \in Names : f.secrets[a] # None}

FileAliases(f) == {a \in Aliases(f) : f.secrets[a].kind = "file"}

Unique(s) == \A i, j \in DOMAIN s : s[i] = s[j] => i = j

\* Declarations: a known kind, a well-formed target, and no two files with one target or name.
ValidSecrets(f) ==
  /\ \A a \in Aliases(f) : f.secrets[a].kind \in {"env", "file"} /\ f.secrets[a].env \in GoodNames
  /\ \A a \in FileAliases(f) : f.secrets[a].filename \in Files
  /\ \A a, b \in FileAliases(f) :
       a # b => /\ f.secrets[a].env # f.secrets[b].env
                /\ f.secrets[a].filename # f.secrets[b].filename

\* A version-2 name is an entry; a version-1 alias must be declared and allow the command.
MayUse(f, c, a) ==
  IF f.version = "2" THEN a \in EntryNames
  ELSE a \in Aliases(f) /\ c.id \in f.secrets[a].allow

\* Parse.
Parses(f) ==
  /\ f.version \in {"1", "2"} /\ f.commands # <<>>
  /\ ValidSecrets(f)
  /\ Unique([i \in DOMAIN f.commands |-> f.commands[i].id])
  /\ \A i \in DOMAIN f.commands : LET c == f.commands[i] IN
       /\ Unique(c.secrets)
       /\ \A j \in DOMAIN c.secrets : MayUse(f, c, c.secrets[j])

UsesEnvironmentEntries(f) == f.version = "2"

SecretNames(f) == UNION {{c.secrets[j] : j \in DOMAIN c.secrets} : c \in {f.commands[i] : i \in DOMAIN f.commands}}

\* SecretBinding: the storage key of a name, None when the policy does not bind it.
SecretBinding(f, name) ==
  IF UsesEnvironmentEntries(f) THEN IF name \in SecretNames(f) THEN name ELSE None
  ELSE IF name \in Aliases(f) THEN f.secrets[name].env ELSE None

\* Values are entries of an environment set, not aliases of a provider store.
Environmental(f) == UsesEnvironmentEntries(f) \/ f.active

\* Mutant: two aliases of one target go unnoticed.
MigratableAnyTargets(f) == Parses(f) /\ f.version = "1"

\* Version 1, and no two aliases for one target.
Migratable(f) ==
  /\ Parses(f) /\ f.version = "1"
  /\ \A a, b \in Aliases(f) : f.secrets[a].env = f.secrets[b].env => a = b

Rewritten(f) ==
  [version |-> "2", active |-> TRUE, secrets |-> [a \in Names |-> None],
   commands |-> [i \in DOMAIN f.commands |->
                   [f.commands[i] EXCEPT !.secrets =
                      [j \in DOMAIN @ |-> IF @[j] \in Aliases(f) THEN f.secrets[@[j]].env ELSE @[j]]]]]

\* MigrateV1ToV2: the rewritten document, refused when it does not parse.
MigrateV1ToV2(f) == IF Migratable(f) /\ Parses(Rewritten(f)) THEN Rewritten(f) ELSE None

=============================================================================
