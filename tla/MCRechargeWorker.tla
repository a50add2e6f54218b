------------------------- MODULE MCRechargeWorker ---------------------------
(* Instances of RechargeWorker for TLC.                                     *)
EXTENDS RechargeWorker, TLC

CONSTANTS a, b

Symmetry == Permutations(Codes)
=============================================================================
