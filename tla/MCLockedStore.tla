---------------------------- MODULE MCLockedStore ----------------------------
(***************************************************************************)
(* Small instances of LockedStore.  Procs = claimers plus other writers.   *)
(***************************************************************************)
EXTENDS LockedStore

CONSTANTS Writers

MCProcs == Claimers \cup Writers

=============================================================================
