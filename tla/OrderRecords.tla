---------------------------- MODULE OrderRecords ----------------------------
(***************************************************************************)
(* The money side of the orders: what the page of                          *)
(* frontend/commerce-prototype.js makes of an order, and what              *)
(* server/local-business.mjs, order-policy.mjs and                         *)
(* local-business-integrity.mjs accept.  An amount of 0 stands for one not *)
(* confirmed.  Orders are numbered in the order they were started.         *)
(***************************************************************************)
EXTENDS Integers, Sequences, SequencesExt, FiniteSetsExt, AppleBalance

(* What a form says of an order's payment.                                  *)
Value ==
  {v \in [payment : {"bank", "apple"}, appleId : AppleIds \cup {""}, paid : Int, received : Int] :
     v.payment = "apple" => v.appleId \in AppleIds}

Correction ==
  [previous : Value, versionAfter : Int, ledgerAfter : Allocation \cup {NoAllocation}]

Order ==
  {row \in [id : Nat \ {0}, kind : {"stock", "renewal"}, account : Nat,
            payment : {"bank", "apple"}, appleId : AppleIds \cup {""}, paid : Int, received : Int,
            cancelled : BOOLEAN, refunds : Seq([id : Int, amount : Int, payment : {"bank", "apple"}]),
            returns : Seq(Int), corrections : Seq(Correction),
            evidence : SUBSET {"bank", "apple", "receipt"}, version : Int] :
     row.payment = "apple" => row.appleId \in AppleIds}

(* The orders by their numbers.                                             *)
OrdersTyped(orders) ==
  IsFiniteSet(DOMAIN orders) /\ \A o \in DOMAIN orders : orders[o] \in Order /\ orders[o].id = o

Values(order) == [payment |-> order.payment, appleId |-> order.appleId,
                  paid |-> order.paid, received |-> order.received]

WithValues(order, values) ==
  [order EXCEPT !.payment = values.payment, !.appleId = values.appleId,
                !.paid = values.paid, !.received = values.received]

Total(amounts) == SumFunction(amounts)

Refunded(order) == SumOf(order.refunds, DOMAIN order.refunds)

Refundable(order) == order.received - Refunded(order)

BankReturnLimit(order) ==
  IF order.payment = "bank" /\ order.paid > 0 /\ ~order.cancelled
  THEN order.paid - Total(order.returns) ELSE 0

CurrentFinancialEvidence(values) ==
  (IF values.paid > 0 THEN {values.payment} ELSE {})
    \cup (IF values.received > 0 THEN {"receipt"} ELSE {})

FinancialEvidence(order) ==
  order.evidence \cup CurrentFinancialEvidence(order)
    \cup UNION {CurrentFinancialEvidence(order.corrections[n].previous) : n \in DOMAIN order.corrections}

HasPaymentHistory(order) == FinancialEvidence(order) \cap {"bank", "apple"} # {}

CancellationBlocked(order) == order.refunds # << >> \/ FinancialEvidence(order) # {}

(* Earlier paid orders of the same subscription; the page and the server    *)
(* both ask for the last one.                                               *)
PreviousAppleOrders(orders, order) ==
  {o \in DOMAIN orders \ {order.id} :
     /\ orders[o].account = order.account
     /\ Charged(orders[o]) /\ ~orders[o].cancelled}

Unused(orders, ledger, order, id) ==
  /\ \A o \in DOMAIN orders \ {order.id} : ~(orders[o].appleId = id /\ orders[o].paid > 0)
  /\ \A m \in Range(ledger.movements) : m.appleId = id => m.order = 0

(* A renewal stays with its Apple ID, a new subscription takes an unused    *)
(* one.                                                                     *)
AppleEligible(orders, ledger, order, id) ==
  /\ ledger.wallets[id].balance >= order.paid
  /\ IF order.kind = "renewal"
     THEN LET previous == PreviousAppleOrders(orders, order) IN
            previous # {} /\ orders[Max(previous)].appleId = id
     ELSE Unused(orders, ledger, order, id)

AppleOptions(orders, ledger, order) ==
  {id \in AppleIds : id = order.appleId \/ AppleEligible(orders, ledger, order, id)}

-----------------------------------------------------------------------------
(* The page.                                                                *)

ValidCorrection(order, values) ==
  /\ order.payment = "bank" /\ HasPaymentHistory(order) => values.payment = "bank"
  /\ order.returns # << >> => values.paid >= Total(order.returns)
  /\ values.received # 0 => values.received >= Refunded(order)

NewOrder(id, kind, account, values) ==
  [id |-> id, kind |-> kind, account |-> IF kind = "stock" THEN id ELSE account,
   payment |-> values.payment, appleId |-> values.appleId, paid |-> values.paid, received |-> values.received,
   cancelled |-> FALSE, refunds |-> << >>, returns |-> << >>, corrections |-> << >>,
   evidence |-> CurrentFinancialEvidence(values), version |-> 1]

(* A correction notes what the order was, and the order's charge after it.  *)
CorrectOrder(order, values, allocation) ==
  LET note == [previous |-> Values(order), versionAfter |-> order.version + 1, ledgerAfter |-> allocation] IN
    [WithValues(order, values) EXCEPT
       !.version = order.version + 1,
       !.evidence = FinancialEvidence(order) \cup CurrentFinancialEvidence(values),
       !.corrections = Append(order.corrections, note)]

RegisterRefund(order, id, amount) ==
  LET refund == [id |-> id, amount |-> amount, payment |-> order.payment] IN
    [order EXCEPT !.version = order.version + 1, !.refunds = Append(order.refunds, refund)]

RegisterBankReturn(order, amount) ==
  [order EXCEPT !.version = order.version + 1, !.returns = Append(order.returns, amount)]

(* A correction may be taken back while it is the order's last version and  *)
(* the order's charge is still the one it left.                             *)
MayUndo(order, ledger) ==
  /\ order.corrections # << >>
  /\ LET change == Last(order.corrections)
         moneyChanged == [change.previous EXCEPT !.received = 0] # [Values(order) EXCEPT !.received = 0]
     IN  /\ order.version = change.versionAfter
         /\ moneyChanged => AllocationOf(ledger, order.id) = change.ledgerAfter

Undone(order) == WithValues(order, Last(order.corrections).previous)

UndoCorrection(order) ==
  [Undone(order) EXCEPT !.version = order.version + 1, !.evidence = FinancialEvidence(order)]

Cancel(order, cancelled) == [order EXCEPT !.version = order.version + 1, !.cancelled = cancelled]

(* What holds of an order once it is stored: what was refunded to the       *)
(* customer was received, what the card gave back was paid by it, and both  *)
(* would be so after a correction that may still be taken back.             *)
MoneyHolds(order, values) ==
  /\ order.refunds # << >> =>
       ~order.cancelled /\ values.payment = order.payment /\ Refunded(order) <= values.received
  /\ order.returns # << >> =>
       values.payment = "bank" /\ values.paid > 0 /\ Total(order.returns) <= values.paid

OrderSound(order) ==
  /\ MoneyHolds(order, Values(order))
  /\ order.returns # << >> => Total(order.returns) > 0
  /\ order.corrections # << >> =>
       LET change == Last(order.corrections) IN
         /\ change.versionAfter <= order.version
         /\ change.versionAfter = order.version => MoneyHolds(order, change.previous)

-----------------------------------------------------------------------------
(* The server, on orders about to be stored.                                *)

(* It writes the evidence of payments itself.                               *)
NormalizePaymentEvidence(orders, next) ==
  [o \in DOMAIN next |->
     LET row == next[o]
         known == o \in DOMAIN orders
         kept == IF known
                 THEN orders[o].evidence \cup CurrentFinancialEvidence(orders[o]) ELSE {}
         payments == (kept \cup CurrentFinancialEvidence(row)) \ {"receipt"}
     IN  IF known /\ row = orders[o] THEN row
         ELSE [row EXCEPT !.evidence = payments \cup (row.evidence \cap {"receipt"})]]

HasBankPayment(order) ==
  /\ order.payment = "bank"
  /\ \/ order.paid > 0 \/ "bank" \in order.evidence
     \/ \E n \in DOMAIN order.corrections :
          LET was == order.corrections[n].previous IN was.payment = "bank" /\ was.paid > 0

CheckBankPayments(orders, next) ==
  \A o \in DOMAIN next \cap DOMAIN orders :
    HasBankPayment(orders[o]) => next[o].payment = "bank"

CheckBankReturns(orders, next) ==
  /\ \A o \in DOMAIN next :
       next[o].returns # << >> =>
         next[o].payment = "bank" /\ next[o].paid > 0 /\ Total(next[o].returns) <= next[o].paid
  /\ \A o \in DOMAIN orders :
       orders[o].returns # << >> => o \in DOMAIN next /\ IsPrefix(orders[o].returns, next[o].returns)

HasConfirmedMoney(order) ==
  \/ CurrentFinancialEvidence(order) # {} \/ order.evidence # {}
  \/ \E n \in DOMAIN order.corrections : CurrentFinancialEvidence(order.corrections[n].previous) # {}

(* Refunds of a customer stay, come one kind of payment only, and never     *)
(* exceed what was received; money keeps its order from being cancelled.    *)
CheckRefund(was, is) ==
  LET added == SubSeq(is.refunds, Len(was.refunds) + 1, Len(is.refunds)) IN
    \/ is.refunds = << >>
    \/ /\ added = << >>
       /\ <<is.received, is.payment, is.cancelled>> = <<was.received, was.payment, was.cancelled>>
    \/ /\ was.refunds # << >> => is.payment = was.payment
       /\ added # << >> => <<is.received, is.payment>> = <<was.received, was.payment>>
       /\ \A n \in DOMAIN added :
            /\ added[n].payment = is.payment
            /\ \A i \in DOMAIN was.refunds : was.refunds[i].id # added[n].id
       /\ ~is.cancelled /\ Refunded(is) <= is.received

CheckOrderFinancialHistory(orders, next) ==
  /\ \A o \in DOMAIN orders :
       LET was == orders[o] IN
         /\ was.refunds # << >> => o \in DOMAIN next /\ IsPrefix(was.refunds, next[o].refunds)
         /\ HasConfirmedMoney(was) =>
              /\ o \in DOMAIN next
              /\ next[o].cancelled => was.cancelled
              /\ HasConfirmedMoney(next[o])
  /\ \A o \in DOMAIN next \cap DOMAIN orders : CheckRefund(orders[o], next[o])

CheckAppleOrder(orders, ledger, row, all) ==
  LET known == row.id \in DOMAIN orders
      prior == orders[row.id]
  IN  \/ row.payment # "apple"
      \/ /\ known
         /\ <<prior.appleId, prior.payment>> = <<row.appleId, row.payment>>
         /\ prior.paid > 0 \/ row.paid = 0
      \/ /\ ledger.wallets[row.appleId].balance >= row.paid
         /\ IF row.kind = "renewal"
            THEN LET previous == PreviousAppleOrders(orders, row) IN
                   previous # {} /\ orders[Max(previous)].appleId = row.appleId
            ELSE Unused(all, ledger, row, row.appleId)
=============================================================================
