------------------------------ MODULE MCSharing ------------------------------
(***************************************************************************)
(* A small instance of Sharing: one request, two sessions, policies of     *)
(* every kind the storage of a value depends on.                           *)
(***************************************************************************)
EXTENDS Sharing, TLC

CONSTANTS a, b, K, f1, c1, c2

MCNames == {a, b, K}
MCGoodNames == {K}
MCSecrets == Names \X Names

Decl(env, kind, filename) == [env |-> env, kind |-> kind, filename |-> filename, allow |-> {c1, c2}]
Declare(decls) == [n \in Names |-> IF n \in DOMAIN decls THEN decls[n] ELSE None]
Uses(names) == <<[id |-> c1, secrets |-> names]>>
Doc(version, attached, secrets, commands) ==
  [version |-> version, active |-> attached, secrets |-> secrets, commands |-> commands]

OneEnv == Declare([n \in {a} |-> Decl(K, "env", None)])
TwoFiles == Declare([n \in {a, b} |-> Decl(K, "file", f1)])
TwoAliases == Declare([n \in {a, b} |-> Decl(K, "env", None)])

\* A provider store, an attached environment, an undeclared name, two aliases of one
\* target, two files of one name.
MCPolicies == {
  Doc("1", FALSE, OneEnv, Uses(<<a>>)), Doc("1", TRUE, OneEnv, Uses(<<a>>)),
  Doc("1", FALSE, OneEnv, Uses(<<b>>)),
  Doc("1", FALSE, TwoAliases, Uses(<<a>>) \o <<[id |-> c2, secrets |-> <<b>>]>>),
  Doc("1", FALSE, TwoFiles, Uses(<<a, b>>))}

MCKind == [s \in Servers |-> IF s = CHOOSE x \in Servers : TRUE THEN "daemon" ELSE "api"]

Symmetry == Permutations(Sessions) \cup Permutations(Humans) \cup Permutations(Envs \ {Default})
              \cup Permutations(Workers) \cup Permutations(Users) \cup Permutations(Paths \ {Root})

=============================================================================
