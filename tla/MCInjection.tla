----------------------------- MODULE MCInjection -----------------------------
(***************************************************************************)
(* Two letters and a gap; a value with fragments, a short one, one that is *)
(* too short, and a value with a gap that is added late.  Two aliases in   *)
(* different stores, or as environment entries.                            *)
(***************************************************************************)
EXTENDS Injection, TLC

CONSTANTS la, lb, gap, key1, key2

Long == <<la, lb, lb, la>>
Short == <<la, la>>
MCLate == {<<lb, gap, lb, lb, lb>>}
MCTyped == {Long, Short}
MCValues == {Long, Short, <<lb>>} \cup MCLate
MCExternal == {<<lb>>}
MCSlack == -1

MCOrder == <<key1, key2>>
MCDeclared == key1 :> "auto" @@ key2 :> "Envfile"

Env(v) == [kind |-> "env", value |-> v]
File(v) == [kind |-> "file", value |-> v]

\* Stores, for two variables or one; an entry and a file; two files, of one name; a kind
\* that has changed; no entry.
Own == key1 :> key1 @@ key2 :> key2
Stores(targets) == [entries |-> None, kinds |-> <<>>, names |-> <<>>, targets |-> targets]
MCProjects ==
  {Stores(Own), Stores(key1 :> key1 @@ key2 :> key1)} \cup
  {[entries |-> key1 :> File(Long) @@ key2 :> x, kinds |-> (key1 :> "file" @@ key2 :> t), names |-> (key1 :> "f" @@ key2 :> n),
    targets |-> Own] :
     x \in {Env(Short), File(Short), None}, t \in {"env", "file"}, n \in {"f", "g"}}

Symmetry == Permutations(Procs)
===============================================================================
