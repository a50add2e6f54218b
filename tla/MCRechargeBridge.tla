-------------------------- MODULE MCRechargeBridge --------------------------
(* Small instances of RechargeBridge for TLC.                                *)
EXTENDS RechargeBridge, TLC

CONSTANTS c1, c2, j1, e1

OneRegistry == {Codes}
PauseRegistries == {{}, Codes}
ShortLifetimes == {0, 1}
LongLifetimes == {9}

(* A confirmed success and failure, and the worker's two forms of "unknown". *)
ResultBodies ==
  {[status |-> "succeeded", evidence |-> e1, job |-> j1],
   [status |-> "failed", evidence |-> e1, job |-> NoJob],
   [status |-> "awaiting_review", evidence |-> NoEvidence, job |-> NoJob]}

CodeSymmetry == Permutations(Codes)
=============================================================================
