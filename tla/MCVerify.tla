------------------------------ MODULE MCVerify ------------------------------
(* Bounds for --wire-only, one family and two families; the payload chains  *)
(* are alike.                                                               *)
EXTENDS Verify, TLC
MCPackets == 0 :> 3 @@ 1 :> 2 @@ 2 :> 1
MCChanges == 0 :> 1 @@ 1 :> 4 @@ 2 :> 2
ChainsAlike == Permutations(Chains)
=============================================================================
