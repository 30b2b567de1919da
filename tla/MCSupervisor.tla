---------------------------- MODULE MCSupervisor ----------------------------
(***************************************************************************)
(* Instances of Supervisor for TLC.  Callers and processes are model       *)
(* values; every action treats them alike, so they may be permuted in the  *)
(* runs that check safety only.                                            *)
(***************************************************************************)
EXTENDS Supervisor, TLC

Symmetry == Permutations(Callers) \cup Permutations(Procs)
=============================================================================
