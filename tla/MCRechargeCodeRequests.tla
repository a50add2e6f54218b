---------------------- MODULE MCRechargeCodeRequests ------------------------
(* Instances of RechargeCodeRequests for TLC.                               *)
EXTENDS RechargeCodeRequests, TLC

CONSTANTS c1, c2, a1, a2

(* Calls behave alike, and so do applications.                              *)
Symmetry == Permutations(Calls) \cup Permutations(Applications)
=============================================================================
