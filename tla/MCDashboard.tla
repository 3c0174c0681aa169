----------------------------- MODULE MCDashboard -----------------------------
(***************************************************************************)
(* Small instances of Dashboard: requests of both kinds, oldest first.     *)
(***************************************************************************)
EXTENDS Dashboard, TLC

MCKind == [q \in 1 .. MaxRequests |-> IF q % 2 = 1 THEN "lease" ELSE "secret"]
MCLeases == [q \in 1 .. MaxRequests |-> "lease"]

\* Everything at once, a request with three other things, two requests with one.
MCRoom == [q \in 0 .. MaxRequests |-> CASE q = 0 -> 6 [] q = 1 -> 3 [] OTHER -> 1]

Symmetry == Permutations(Ids) \cup Permutations(Contents)

=============================================================================
