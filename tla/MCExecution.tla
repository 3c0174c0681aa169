----------------------------- MODULE MCExecution -----------------------------
(***************************************************************************)
(* Bounds of the execution runs.                                           *)
(***************************************************************************)
EXTENDS Execution, TLC

CONSTANTS r1, r2, p1, p2

MCRuns == {r1, r2}
MCPids == {p1, p2}
MCNoCI == {j \in CIJobs : j.system = "none" /\ j.visible /\ ~j.optIn}

\* No CI job, and one of a fork.
MCFork == MCNoCI \cup
  {j \in CIJobs : j.system = "github" /\ j.event = "pull_request" /\ j.origin = "fork" /\ ~j.optIn}
===============================================================================
