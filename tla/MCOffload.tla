------------------------------ MODULE MCOffload ------------------------------
(* Faults for the runs of Offload, and the refinement they check. *)
EXTENDS Offload

AllButUnlink == {"read", "set", "file", "crash"}
=============================================================================
