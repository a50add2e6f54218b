---------------------------- MODULE MCChangeSync ----------------------------
(* Instances of ChangeSync for TLC.                                         *)
EXTENDS ChangeSync
=============================================================================
