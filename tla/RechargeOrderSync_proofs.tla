---------------------- MODULE RechargeOrderSync_proofs ----------------------
(***************************************************************************)
(* Proofs about RechargeOrderSync for any jobs, cards, page sizes and any  *)
(* number of failures, partial readbacks and orders entered by hand.       *)
(*                                                                         *)
(* The orders change in two ways only: one is added or one is completed.   *)
(* Both look at all orders there are, so that which rows a round chose,    *)
(* and from how old a list, does not matter.                               *)
(***************************************************************************)
EXTENDS RechargeOrderSync, SequenceTheorems, TLAPS

(* What may happen to an order.                                             *)
Keeps(old, new) ==
  /\ new.job = old.job /\ old.has \subseteq new.has
  /\ old.fee # "pending" => new.fee = old.fee

OrdersMove(os, new) == \A i \in DOMAIN os : i \in DOMAIN new /\ Keeps(os[i], new[i])

(* No order but the i-th was charged the issue fee of the card.             *)
FeeFree(i, card, os) == \A k \in DOMAIN os \ {i} : os[k].fee = "applied" => os[k].card # card

LEMMA OrderTypes ==
  ASSUME NEW os \in Seq(Order)
  PROVE  /\ Len(os) \in Nat /\ DOMAIN os = 1..Len(os)
         /\ \A i \in DOMAIN os : os[i] \in Order
         /\ OrdersMove(os, os)
<1>1. Len(os) \in Nat /\ DOMAIN os = 1..Len(os)
  BY LenProperties
<1>2. \A i \in DOMAIN os : os[i] \in Order
  BY <1>1, ElementOfSeq
<1>3. OrdersMove(os, os)
  BY DEF OrdersMove, Keeps
<1>. QED
  BY <1>1, <1>2, <1>3

LEMMA OrderAdded ==
  ASSUME NEW os, OrdersOK(os), NEW row \in Order,
         row.job # "manual" => \A k \in DOMAIN os : os[k].job # row.job,
         row.fee = "applied" => "card" \in row.has /\ FeeFree(Len(os) + 1, row.card, os)
  PROVE  OrdersOK(Append(os, row)) /\ OrdersMove(os, Append(os, row))
<1>. DEFINE new == Append(os, row)
            n == Len(os) + 1
<1>1. os \in Seq(Order) /\ Len(os) \in Nat /\ DOMAIN os = 1..Len(os)
  BY OrderTypes DEF OrdersOK
<1>2. /\ new \in Seq(Order) /\ DOMAIN new = 1..n /\ new[n] = row
      /\ \A i \in 1..Len(os) : new[i] = os[i]
  BY <1>1, AppendProperties, LenProperties
<1>3. n \notin 1..Len(os) /\ \A i \in 1..n : i \in 1..Len(os) \/ i = n
  BY <1>1
<1>. HIDE DEF new, n
<1>4. FeeFree(n, row.card, os) => \A k \in 1..Len(os) : os[k].fee = "applied" => os[k].card # row.card
  BY <1>1, <1>3 DEF FeeFree
<1>5. ASSUME NEW i \in 1..n, NEW k \in 1..n, new[i].job = new[k].job, new[i].job # "manual" PROVE i = k
  BY <1>1, <1>2, <1>3, <1>5 DEF OrdersOK
<1>6. ASSUME NEW i \in 1..n, NEW k \in 1..n, new[i].fee = "applied", new[k].fee = "applied",
             new[i].card = new[k].card
      PROVE  i = k
  <2>1. CASE i = n \/ k = n
    BY <1>1, <1>2, <1>3, <1>4, <1>6, <2>1 DEF n
  <2>2. CASE i # n /\ k # n
    BY <1>1, <1>2, <1>3, <1>6, <2>2 DEF OrdersOK
  <2>. QED
    BY <2>1, <2>2
<1>7. \A i \in 1..n : new[i].fee = "applied" => "card" \in new[i].has
  BY <1>1, <1>2, <1>3 DEF OrdersOK
<1>8. OrdersMove(os, new)
  BY <1>1, <1>2, <1>3 DEF OrdersMove, Keeps, n
<1>. QED
  BY <1>2, <1>5, <1>6, <1>7, <1>8 DEF OrdersOK, new

LEMMA OrderChanged ==
  ASSUME NEW os, OrdersOK(os), NEW i \in DOMAIN os, NEW row \in Order, Keeps(os[i], row),
         row.card = os[i].card,
         row.fee = "applied" /\ os[i].fee # "applied" => "card" \in row.has /\ FeeFree(i, row.card, os)
  PROVE  OrdersOK([os EXCEPT ![i] = row]) /\ OrdersMove(os, [os EXCEPT ![i] = row])
<1>. DEFINE new == [os EXCEPT ![i] = row]
<1>1. os \in Seq(Order) /\ Len(os) \in Nat /\ DOMAIN os = 1..Len(os)
  BY OrderTypes DEF OrdersOK
<1>2. /\ new \in Seq(Order) /\ DOMAIN new = DOMAIN os /\ new[i] = row
      /\ \A k \in DOMAIN os \ {i} : new[k] = os[k]
  BY <1>1, ExceptSeq
<1>. HIDE DEF new
<1>3. row.job = os[i].job
  BY DEF Keeps
<1>4. ASSUME NEW j \in DOMAIN os, NEW k \in DOMAIN os, new[j].job = new[k].job, new[j].job # "manual" PROVE j = k
  BY <1>2, <1>3, <1>4 DEF OrdersOK
<1>5. row.fee = "applied" => \A k \in DOMAIN os \ {i} : os[k].fee = "applied" => os[k].card # row.card
  BY DEF OrdersOK, FeeFree
<1>6. ASSUME NEW j \in DOMAIN os, NEW k \in DOMAIN os, new[j].fee = "applied", new[k].fee = "applied",
             new[j].card = new[k].card
      PROVE  j = k
  <2>1. CASE j = i \/ k = i
    BY <1>2, <1>5, <1>6, <2>1
  <2>2. CASE j # i /\ k # i
    BY <1>2, <1>6, <2>2 DEF OrdersOK
  <2>. QED
    BY <2>1, <2>2
<1>7. \A k \in DOMAIN os : new[k].fee = "applied" => "card" \in new[k].has
  <2>. SUFFICES ASSUME NEW k \in DOMAIN os, new[k].fee = "applied" PROVE "card" \in new[k].has
    OBVIOUS
  <2>1. CASE k = i
    BY <1>2, <2>1 DEF OrdersOK, Keeps
  <2>2. CASE k # i
    BY <1>2, <2>2 DEF OrdersOK
  <2>. QED
    BY <2>1, <2>2
<1>8. OrdersMove(os, new)
  <2>1. \A k \in DOMAIN os \ {i} : Keeps(os[k], new[k])
    BY <1>2 DEF Keeps
  <2>. QED
    BY <1>2, <2>1 DEF OrdersMove
<1>. QED
  BY <1>2, <1>4, <1>6, <1>7, <1>8 DEF OrdersOK, new

(* Deciding the fee of an order looks at every other one.                   *)
LEMMA FeeDecided ==
  ASSUME OrdersOK(orders), NEW i, NEW order \in Order, NEW E
  PROVE  LET next == WithFee(i, order, E, orders) IN
         /\ next \in Order /\ next.job = order.job /\ next.card = order.card /\ next.has = order.has
         /\ order.fee # "pending" => next.fee = order.fee
         /\ next.fee = "applied" /\ order.fee # "applied" =>
              "card" \in next.has /\ FeeFree(i, next.card, orders)
<1>. DEFINE fee == FeeOf(i, order, E, orders)
            next == [order EXCEPT !.fee = fee]
<1>1. fee \in {"applied", "none", order.fee} /\ (order.fee # "pending" => fee = order.fee)
  BY DEF FeeOf
<1>2. fee = "applied" /\ order.fee # "applied" =>
        "card" \in order.has /\ ~EarlierFee(i, order.card, orders)
  BY DEF FeeOf
<1>3. ~EarlierFee(i, order.card, orders) => FeeFree(i, order.card, orders)
  BY DEF EarlierFee, FeeFree, OrdersOK
<1>4. fee \in {"pending", "applied", "none"}
  BY <1>1 DEF Order
<1>. HIDE DEF fee
<1>5. next \in Order /\ next.job = order.job /\ next.card = order.card /\ next.has = order.has /\ next.fee = fee
  BY <1>4 DEF Order
<1>6. WithFee(i, order, E, orders) = next
  BY DEF WithFee, fee
<1>. HIDE DEF next
<1>. QED
  BY <1>1, <1>2, <1>3, <1>5, <1>6

LEMMA EnteredOK ==
  ASSUME OrdersOK(orders), NEW j \in Jobs, NEW E \in SUBSET Field, Old(j) = {}
  PROVE  OrdersOK(Entered(j, E)) /\ OrdersMove(orders, Entered(j, E))
<1>. DEFINE order == [job |-> j, card |-> CardOf[j], has |-> E \ {"first"}, fee |-> "pending"]
            next == WithFee(Len(orders) + 1, order, E, orders)
<1>1. order \in Order /\ order.job = j /\ order.fee = "pending"
  BY OrderSyncAssumption DEF Order
<1>2. Entered(j, E) = Append(orders, next)
  BY DEF Entered
<1>. HIDE DEF order
<1>3. /\ next \in Order /\ next.job = j
      /\ next.fee = "applied" => "card" \in next.has /\ FeeFree(Len(orders) + 1, next.card, orders)
  BY <1>1, FeeDecided
<1>4. \A k \in DOMAIN orders : orders[k].job # j
  BY DEF Old
<1>. HIDE DEF next
<1>. QED
  BY <1>2, <1>3, <1>4, OrderAdded

LEMMA CompletedOK ==
  ASSUME OrdersOK(orders), NEW i \in DOMAIN orders, NEW E \in SUBSET Field
  PROVE  OrdersOK(Completed(i, E)) /\ OrdersMove(orders, Completed(i, E))
<1>. DEFINE has == Filled(orders[i].has, E)
            order == [orders[i] EXCEPT !.has = has]
            next == WithFee(i, order, E, orders)
<1>1. orders[i] \in Order /\ OrdersMove(orders, orders)
  BY OrderTypes DEF OrdersOK
<1>2. has \in SUBSET (Field \ {"first"}) /\ orders[i].has \subseteq has
  BY <1>1 DEF Filled, Order
<1>3. Completed(i, E) \in {orders, [orders EXCEPT ![i] = next]}
  BY DEF Completed
<1>. HIDE DEF has
<1>4. order \in Order /\ order.job = orders[i].job /\ order.card = orders[i].card
      /\ order.has = has /\ order.fee = orders[i].fee
  BY <1>1, <1>2 DEF Order
<1>. HIDE DEF order
<1>5. /\ next \in Order /\ next.job = order.job /\ next.card = order.card /\ next.has = order.has
      /\ order.fee # "pending" => next.fee = order.fee
      /\ next.fee = "applied" /\ order.fee # "applied" =>
           "card" \in next.has /\ FeeFree(i, next.card, orders)
  BY <1>4, FeeDecided
<1>. HIDE DEF next
<1>6. Keeps(orders[i], next)
  BY <1>2, <1>4, <1>5 DEF Keeps
<1>7. OrdersOK([orders EXCEPT ![i] = next]) /\ OrdersMove(orders, [orders EXCEPT ![i] = next])
  BY <1>4, <1>5, <1>6, OrderChanged
<1>. QED
  BY <1>1, <1>3, <1>7

LEMMA CheckStep ==
  ASSUME IInv, NEW j \in Jobs, Check(j)
  PROVE  IInv' /\ OrdersMove(orders, orders')
<1>1. PICK E \in SUBSET Field : orders' = Applied(j, E)
  BY DEF Check, Evidence
<1>2. Old(j) # {} => (CHOOSE i \in Old(j) : TRUE) \in DOMAIN orders
  BY DEF Old
<1>3. OrdersMove(orders, orders)
  BY OrderTypes DEF IInv, OrdersOK
<1>. QED
  BY <1>1, <1>2, <1>3, EnteredOK, CompletedOK DEF IInv, Applied

LEMMA ByHandStep ==
  ASSUME IInv, NEW card \in Cards, EnterByHand(card)
  PROVE  IInv' /\ OrdersMove(orders, orders')
<1>1. PICK fee \in {"none", "applied", "pending"} :
        /\ fee = "applied" => ~UsedBefore(card)
        /\ orders' = Append(orders, [job |-> "manual", card |-> card,
                                     has |-> {"order", "paid", "tail", "card", "start"}, fee |-> fee])
  BY DEF EnterByHand
<1>. DEFINE row == [job |-> "manual", card |-> card,
                    has |-> {"order", "paid", "tail", "card", "start"}, fee |-> fee]
<1>2. row \in Order /\ "card" \in row.has
  BY DEF Order, Field
<1>3. fee = "applied" => FeeFree(Len(orders) + 1, card, orders)
  BY <1>1 DEF UsedBefore, FeeFree, IInv, OrdersOK
<1>. QED
  BY <1>1, <1>2, <1>3, OrderAdded DEF IInv

LEMMA InitInvariant == Init => IInv
<1>1. << >> \in Seq(Order) /\ DOMAIN << >> = {}
  BY EmptySeq
<1>. QED
  BY <1>1 DEF Init, IInv, OrdersOK

LEMMA NextInvariant == IInv /\ [Next]_vars => IInv' /\ OrdersMove(orders, orders')
<1>. SUFFICES ASSUME IInv, [Next]_vars PROVE IInv' /\ OrdersMove(orders, orders')
  OBVIOUS
<1>1. CASE UNCHANGED orders
  BY <1>1, OrderTypes DEF IInv, OrdersOK
<1>2. \/ UNCHANGED orders
      \/ \E j \in Jobs : Check(j)
      \/ \E card \in Cards : EnterByHand(card)
  BY DEF Next, vars, Begin, ReadPage, Breaks, BeginWith, CheckSilent, CheckEarly, CheckFails, Succeeds, Rests
<1>. QED
  BY <1>1, <1>2, CheckStep, ByHandStep

(* Every reachable state satisfies the inductive invariant.                 *)
THEOREM Invariance == Spec => []IInv
  BY InitInvariant, NextInvariant, PTL DEF Spec

(* However often a job is found, read back or chosen by an administrator,   *)
(* with failures and restarts in between, it becomes one order.             *)
THEOREM JobsEnteredOnce == Spec => []OneOrderPerJob
<1>1. IInv => OneOrderPerJob
  BY DEF IInv, OrdersOK, OneOrderPerJob
<1>. QED
  BY <1>1, Invariance, PTL

(* A card's issue fee is charged once, whether its orders come from the     *)
(* engine or are entered by hand, and whichever is proved first.            *)
THEOREM CardsIssuedOnce == Spec => []OneIssueFeePerCard
<1>1. IInv => OneIssueFeePerCard
  BY DEF IInv, OrdersOK, OneIssueFeePerCard
<1>. QED
  BY <1>1, Invariance, PTL

(* Nothing that a readback proved is taken away by a later one, and no fee  *)
(* that was decided is decided anew.                                        *)
THEOREM ProofsStay == Spec => NothingForgotten
<1>1. OrdersMove(orders, orders') =>
        [\A i \in DOMAIN orders :
           /\ i \in DOMAIN orders'
           /\ orders'[i].job = orders[i].job /\ orders[i].has \subseteq orders'[i].has
           /\ orders[i].fee # "pending" => orders'[i].fee = orders[i].fee]_orders
  BY DEF OrdersMove, Keeps
<1>. QED
  BY <1>1, Invariance, NextInvariant, PTL DEF Spec, NothingForgotten
=============================================================================
