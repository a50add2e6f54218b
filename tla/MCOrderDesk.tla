---------------------------- MODULE MCOrderDesk ----------------------------
(***************************************************************************)
(* OrderDesk on two Apple IDs, which have been topped up, with one order:   *)
(* paid from an Apple ID, or by card.                                       *)
(***************************************************************************)
EXTENDS OrderDesk

Empty ==
  [version |-> 1, wallets |-> [id \in AppleIds |-> [balance |-> 0, version |-> 1]],
   allocations |-> << >>, movements |-> << >>, refunds |-> << >>]

Topped ==
  LET Top(ledger, id) == PushMovement(ledger, id, MaxAmount + 1, Detail("manual", 0, 0, 0))
  IN  FoldSeq(LAMBDA id, ledger : Top(ledger, id), Empty, SetToSeq(AppleIds))

FirstOrders ==
  {NewOrder(1, "stock", 0, [payment |-> "bank", appleId |-> "", paid |-> 1, received |-> MaxAmount]),
   NewOrder(1, "stock", 0, [payment |-> "apple", appleId |-> CHOOSE id \in AppleIds : TRUE,
                            paid |-> MaxAmount, received |-> MaxAmount])}

MCOpenings ==
  {[orders |-> [o \in {1} |-> order], ledger |-> CommitOrder(Topped, order, FALSE, 1).ledger] :
     order \in FirstOrders}
=============================================================================
