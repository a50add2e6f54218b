------------------------ MODULE MCRechargeOrderSync -------------------------
(* Instances of RechargeOrderSync for TLC.                                  *)
EXTENDS RechargeOrderSync

(* "j1", "j2" and "k" share a card, "j3" has one of its own.                *)
MCCardOf == [j \in {"j1", "j2", "j3", "k"} |-> IF j = "j3" THEN "y" ELSE "x"]

Opening(jobs, faults, gaps, manual) ==
  [jobs |-> jobs, left |-> [faults |-> faults, gaps |-> gaps, manual |-> manual]]

(* Two jobs that share a card, proved piece by piece beside an order entered *)
(* by hand; and a list longer than a round reads, with an early job and a    *)
(* silent one.                                                               *)
LongList == Opening({"j1", "j2", "j3"}, 1, 0, 0)
Shared(faults, gaps, manual) == Opening({"j1", "k"}, faults, gaps, manual)

MCOpenings == {Shared(0, 2, 0), Shared(1, 1, 1), LongList}
OnlyLongList == {LongList}
=============================================================================
