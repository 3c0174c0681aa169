------------------------------ MODULE MCAccess ------------------------------
(***************************************************************************)
(* Small instances of Access.  Ids and sessions are interchangeable.       *)
(***************************************************************************)
EXTENDS Access, TLC

Symmetry ==
  Permutations(ReqIds) \cup Permutations(LeaseIds) \cup Permutations(GrantIds)
    \cup Permutations(Sessions) \cup Permutations(Envs)

=============================================================================
