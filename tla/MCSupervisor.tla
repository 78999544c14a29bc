---------------------------- MODULE MCSupervisor ----------------------------
(* The runs of Supervisor give every fault of FaultKinds. *)
EXTENDS Supervisor
=============================================================================
