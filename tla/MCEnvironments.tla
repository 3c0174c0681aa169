--------------------------- MODULE MCEnvironments ---------------------------
(***************************************************************************)
(* Small instances of Environments.                                        *)
(***************************************************************************)
EXTENDS Environments, TLC

Symmetry == Permutations(Procs) \cup Permutations(Names) \cup Permutations(Values)

=============================================================================
