-------------------------------- MODULE MCSqm --------------------------------
(* Configurations for the runs of Sqm: both interfaces, one, another rate. *)
EXTENDS Sqm

CONSTANTS r1, r2

Both == [i \in Ifaces |-> r1]
Some == {Both, [Both EXCEPT ![1] = r2, ![2] = None]}
=============================================================================
