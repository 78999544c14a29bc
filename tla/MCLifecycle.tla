---------------------------- MODULE MCLifecycle ----------------------------
(* Faults and symmetry for the runs of Lifecycle. *)
EXTENDS Lifecycle, TLC

Nothing == {}
Symmetry == Permutations(Procs)
=============================================================================
