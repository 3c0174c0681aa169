---------------------------- MODULE MCLeakGuard ----------------------------
(***************************************************************************)
(* Small instances of LeakGuard.                                           *)
(***************************************************************************)
EXTENDS LeakGuard, TLC

Symmetry == Permutations(Aliases) \cup Permutations(Remotes)

=============================================================================
