----------------------------- MODULE AtomicStore -----------------------------
(***************************************************************************)
(* What the read-modify-write stores of ironrun promise their callers      *)
(* (access.mutate, vault and envset updates, pending.Update): each call    *)
(* takes effect in one step on the committed file, or reports a failure.   *)
(*                                                                         *)
(* The file is the set of calls whose change it contains.  A claim         *)
(* (FulfillSecretWith, ApproveLease, Deny: anything through resolveRequest *)
(* on one and the same request) succeeds only while no other claim has.    *)
(*                                                                         *)
(* The promise ends where exclusion does (broken).  From then on a call    *)
(* may put an older state of the file back, with its own change in it.     *)
(***************************************************************************)
CONSTANTS
  Procs,      \* one read-modify-write call each
  Claimers    \* the calls that resolve the one contended request

VARIABLES
  file,       \* the calls whose change is committed
  outcome,    \* per call: "none", "ok", "refused" or "failed"
  broken      \* two calls may be inside their transaction at once

vars == <<file, outcome, broken>>

Init ==
  /\ file = {}
  /\ outcome = [p \in Procs |-> "none"]
  /\ broken = FALSE

Ends(p, result) ==
  /\ outcome[p] = "none"
  /\ outcome' = [outcome EXCEPT ![p] = result]
  /\ UNCHANGED broken

\* The change is added to what is there; a claim is the first.
Adds(p) ==
  /\ p \in Claimers => file \cap Claimers = {}
  /\ file' = file \cup {p}

\* The change of p goes on top of what some of the earlier calls have left.
Overwrites(p) ==
  /\ broken
  /\ \E S \in SUBSET {q \in Procs : outcome[q] \in {"ok", "failed"}} : file' = S \cup {p}

Commit(p) == Ends(p, "ok") /\ (Adds(p) \/ Overwrites(p))

\* The request was already resolved.
Refuse(p) ==
  /\ Ends(p, "refused")
  /\ p \in Claimers /\ (broken \/ file \cap Claimers # {})
  /\ UNCHANGED file

\* Lock timeout, write error or crash: no effect, or one that is not reported.
Fail(p) == Ends(p, "failed") /\ (UNCHANGED file \/ Adds(p) \/ Overwrites(p))

Break == broken' = TRUE /\ UNCHANGED <<file, outcome>>

Next == Break \/ \E p \in Procs : Commit(p) \/ Refuse(p) \/ Fail(p)

Spec == Init /\ [][Next]_vars

=============================================================================
