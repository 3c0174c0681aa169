----------------------------- MODULE MCAgentRun -----------------------------
(***************************************************************************)
(* Small instances of AgentRun.  Every command needs every secret.         *)
(***************************************************************************)
EXTENDS AgentRun, TLC

MCNeeds == [c \in Commands |-> Secrets]

Symmetry ==
  Permutations(ReqIds) \cup Permutations(LeaseIds) \cup Permutations(GrantIds)
    \cup Permutations(Calls) \cup Permutations(Sessions) \cup Permutations(Envs)

=============================================================================
