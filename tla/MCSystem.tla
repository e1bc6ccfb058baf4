------------------------------ MODULE MCSystem ------------------------------
(* Instances of InterceptionSystem: the target starts one position away from *)
(* the vehicle and moves away as fast as the vehicle can fly.                *)
EXTENDS InterceptionSystem

MCTargetStart == 1
MCTargetVelocity == 1
MCStartPosition == 0
MCTolerance == 0
MCNobody == {}
=============================================================================
