---------------------------- MODULE AppleBalance ----------------------------
(***************************************************************************)
(* The ledger of the Apple IDs' balances: what the page of                 *)
(* frontend/apple-balance-prototype.js makes of it, and what               *)
(* server/local-business-integrity.mjs accepts.  A ledger is a record      *)
(*   version      of the document                                          *)
(*   wallets      per Apple ID its balance and a version of its own        *)
(*   allocations  per order what it was charged, and what came back of it  *)
(*   movements    the sequence of all changes of the balances              *)
(*   refunds      per refund what Apple is to give back, and whether it did *)
(* A page's operation yields [ok, ledger]; ledgers are values, so that the *)
(* copy a tab works on and the stored one are treated alike.               *)
(***************************************************************************)
EXTENDS Integers, Sequences, FiniteSets, Functions

CONSTANT AppleIds   \* the mailboxes of type apple

(* The rows of a ledger.  `of` is the refund a movement is the receipt of,  *)
(* or the movement it undoes; `undone` is the form that undid it, or 0.     *)
Wallet == [balance : Int, version : Int]

Movement ==
  {m \in [appleId : AppleIds, amount : Int, after : Int, version : Int, undone : Int,
          kind : {"charge", "reversal", "apple-refund", "manual", "manual-undo"},
          form : Int, order : Int, of : Int] :
     m.kind \in {"charge", "reversal"} => m.order # 0}

Allocation == [appleId : AppleIds, amount : Int, returned : Int, version : Int]

Refund ==
  [order : Int, appleId : AppleIds, amount : Int, version : Int, status : {"pending", "received", "none"}]

LedgerTyped(ledger) ==
  /\ ledger = [version |-> ledger.version, wallets |-> ledger.wallets, allocations |-> ledger.allocations,
               movements |-> ledger.movements, refunds |-> ledger.refunds]
  /\ ledger.version \in Int
  /\ ledger.wallets \in [AppleIds -> Wallet]
  /\ ledger.movements \in Seq(Movement)
  /\ \A o \in DOMAIN ledger.allocations : ledger.allocations[o] \in Allocation
  /\ \A r \in DOMAIN ledger.refunds : ledger.refunds[r] \in Refund
  /\ IsFiniteSet(DOMAIN ledger.refunds) /\ DOMAIN ledger.refunds \subseteq Nat

Refused(ledger) == [ok |-> FALSE, ledger |-> ledger]
Done(ledger) == [ok |-> TRUE, ledger |-> ledger]

(* The sum of the amounts of some entries: movements, refunds, changes.     *)
Amounts(entries) == [n \in DOMAIN entries |-> entries[n].amount]

SumOf(entries, some) == SumFunctionOnSet(Amounts(entries), some)

(* A function with one value more, or another one: set() of a Map.          *)
With(f, x, value) == [y \in DOMAIN f \cup {x} |-> IF y = x THEN value ELSE f[y]]

NoAllocation == [appleId |-> "", amount |-> 0, returned |-> 0, version |-> 0]

AllocationOf(ledger, o) ==
  IF o \in DOMAIN ledger.allocations THEN ledger.allocations[o] ELSE NoAllocation

Net(allocation) == allocation.amount - allocation.returned

RefundsOf(ledger, o, status) ==
  {r \in DOMAIN ledger.refunds : ledger.refunds[r].order = o /\ ledger.refunds[r].status = status}

(* What is still to come back of an order, but for one of its refunds.     *)
PendingTotal(ledger, o, but) == SumOf(ledger.refunds, RefundsOf(ledger, o, "pending") \ {but})

-----------------------------------------------------------------------------
(* The page.                                                                *)

PushMovement(ledger, id, amount, detail) ==
  LET wallet == [balance |-> ledger.wallets[id].balance + amount, version |-> ledger.wallets[id].version + 1]
      entry == [appleId |-> id, amount |-> amount, after |-> wallet.balance, version |-> wallet.version,
                undone |-> 0, kind |-> detail.kind, form |-> detail.form, order |-> detail.order, of |-> detail.of]
      paid == [ledger EXCEPT !.wallets = [ledger.wallets EXCEPT ![id] = wallet]]
  IN  [paid EXCEPT !.movements = Append(ledger.movements, entry)]

Detail(kind, form, order, of) == [kind |-> kind, form |-> form, order |-> order, of |-> of]

(* An order's payment as far as the ledger is concerned.                    *)
Charged(order) == order.payment = "apple" /\ order.paid > 0

Change(id, amount) ==
  [appleId |-> id, amount |-> amount, kind |-> IF amount < 0 THEN "charge" ELSE "reversal"]

(* What the ledger has to move for an order to be as `order` has it.        *)
Changes(ledger, order) ==
  LET prior == AllocationOf(ledger, order.id)
      had == order.id \in DOMAIN ledger.allocations
      moved == had /\ Charged(order) /\ prior.appleId # order.appleId
      more == order.paid - prior.amount
  IN  CASE moved -> <<Change(prior.appleId, Net(prior)), Change(order.appleId, -order.paid)>>
        [] Charged(order) /\ ~moved /\ more # 0 -> <<Change(order.appleId, -more)>>
        [] had /\ ~Charged(order) /\ Net(prior) > 0 -> <<Change(prior.appleId, Net(prior))>>
        [] OTHER -> << >>

MayChargeUnconfirmed(ledger, order, reversal) ==   \* mutant
  LET prior == AllocationOf(ledger, order.id)
      held == prior.returned + PendingTotal(ledger, order.id, 0)
  IN  order.id \in DOMAIN ledger.allocations =>
        /\ order.payment = "apple" => order.paid > 0
        /\ IF Charged(order) /\ prior.appleId = order.appleId
           THEN order.paid < prior.amount => reversal
           ELSE reversal /\ held = 0

(* ... and whether it may: taking back what was charged has to be confirmed *)
(* and must leave what came back, or is to come back, of the charge.        *)
MayCharge(ledger, order, reversal) ==
  LET prior == AllocationOf(ledger, order.id)
      held == prior.returned + PendingTotal(ledger, order.id, 0)
  IN  order.id \in DOMAIN ledger.allocations =>
        /\ order.payment = "apple" => order.paid > 0
        /\ IF Charged(order) /\ prior.appleId = order.appleId
           THEN /\ order.paid < prior.amount => reversal
                /\ order.paid >= held
           ELSE reversal /\ held = 0

Covered(ledger, changes) ==
  \A id \in AppleIds, n \in DOMAIN changes :
    LET upTo == {i \in 1..n : changes[i].appleId = id} IN
      ledger.wallets[id].balance + SumOf(changes, upTo) >= 0

(* What the confirmation shows, and must find unchanged.                    *)
PreviewKey(ledger, order) ==
  LET changes == Changes(ledger, order) IN
    [changes |-> changes,
     prior |-> AllocationOf(ledger, order.id),
     versions |-> [id \in {changes[i].appleId : i \in DOMAIN changes} |-> ledger.wallets[id].version]]

PreviewOrder(ledger, order, reversal) ==
  /\ MayCharge(ledger, order, reversal)
  /\ Covered(ledger, Changes(ledger, order))

NextAllocation(ledger, order) ==
  LET prior == AllocationOf(ledger, order.id)
      moved == prior.appleId # order.appleId
  IN  [appleId |-> order.appleId, amount |-> order.paid,
       returned |-> IF moved THEN 0 ELSE prior.returned,
       version |-> prior.version + IF Changes(ledger, order) = << >> THEN 0 ELSE 1]

MoveFor(ledger, order, change, form) ==
  PushMovement(ledger, change.appleId, change.amount, Detail(change.kind, form, order.id, 0))

(* There are at most two changes.                                           *)
Moved(ledger, order, changes, form) ==
  CASE changes = << >> -> ledger
    [] Len(changes) = 1 -> MoveFor(ledger, order, changes[1], form)
    [] OTHER -> MoveFor(MoveFor(ledger, order, changes[1], form), order, changes[2], form)

NextAllocations(ledger, order) ==
  LET others == Restrict(ledger.allocations, DOMAIN ledger.allocations \ {order.id}) IN
    IF Charged(order) THEN With(others, order.id, NextAllocation(ledger, order)) ELSE others

CommitOrder(ledger, order, reversal, form) ==
  IF PreviewOrder(ledger, order, reversal)
  THEN Done([Moved(ledger, order, Changes(ledger, order), form) EXCEPT
               !.allocations = NextAllocations(ledger, order)])
  ELSE Refused(ledger)

(* The refund of a customer settles at once what Apple will give back: zero *)
(* is recorded too.  The order must have been paid from the Apple ID.       *)
(* Its number was drawn for this refund, so there is no earlier entry.      *)
PrepareRefund(ledger, order, refund, amount) ==
  LET allocation == AllocationOf(ledger, order.id)
      entry == [order |-> order.id, appleId |-> order.appleId, amount |-> amount, version |-> 1,
                status |-> IF amount > 0 THEN "pending" ELSE "none"]
  IN  IF \/ amount > 0 /\ allocation.appleId # order.appleId
         \/ amount > 0 /\ PendingTotal(ledger, order.id, 0) + amount > Net(allocation)
      THEN Refused(ledger)
      ELSE Done([ledger EXCEPT !.refunds = With(ledger.refunds, refund, entry)])

(* The refund, its charge and the Apple ID's balance are as the form saw    *)
(* them.                                                                    *)
VerifyPendingRefund(ledger, r, seen) ==
  LET refund == ledger.refunds[r]
      allocation == AllocationOf(ledger, refund.order)
  IN  /\ r \in DOMAIN ledger.refunds /\ refund.status = "pending"
      /\ allocation.appleId = refund.appleId
      /\ seen = <<refund.version, allocation.version, ledger.wallets[refund.appleId].version>>

WithRefund(ledger, r, amount, status) ==
  LET refund == [ledger.refunds[r] EXCEPT !.amount = amount, !.status = status,
                                          !.version = ledger.refunds[r].version + 1]
  IN  [ledger EXCEPT !.refunds = With(ledger.refunds, r, refund)]

CorrectRefund(ledger, r, amount, seen) ==
  LET refund == ledger.refunds[r]
      others == PendingTotal(ledger, refund.order, r)
  IN  IF /\ VerifyPendingRefund(ledger, r, seen)
         /\ amount # refund.amount
         /\ others + amount <= Net(AllocationOf(ledger, refund.order))
      THEN Done(WithRefund(ledger, r, amount, IF amount > 0 THEN "pending" ELSE "none"))
      ELSE Refused(ledger)

Returned(ledger, o, amount) ==
  LET allocation == [ledger.allocations[o] EXCEPT !.returned = ledger.allocations[o].returned + amount,
                                                  !.version = ledger.allocations[o].version + 1]
  IN  [ledger EXCEPT !.allocations = With(ledger.allocations, o, allocation)]

ReceiveRefund(ledger, r, seen, form) ==
  LET refund == ledger.refunds[r]
      o == refund.order
      received == WithRefund(Returned(ledger, o, refund.amount), r, refund.amount, "received")
  IN  IF /\ VerifyPendingRefund(ledger, r, seen)
         /\ PendingTotal(ledger, o, 0) <= Net(AllocationOf(ledger, o))
      THEN Done(PushMovement(received, refund.appleId, refund.amount, Detail("apple-refund", form, o, r)))
      ELSE Refused(ledger)

AdjustAnyway(ledger, id, amount, seen, form) ==   \* mutant
  IF ledger.wallets[id].balance + amount >= 0
  THEN Done(PushMovement(ledger, id, amount, Detail("manual", form, 0, 0)))
  ELSE Refused(ledger)

Adjust(ledger, id, amount, seen, form) ==
  IF ledger.wallets[id].version = seen /\ ledger.wallets[id].balance + amount >= 0
  THEN Done(PushMovement(ledger, id, amount, Detail("manual", form, 0, 0)))
  ELSE Refused(ledger)

(* Only the newest movement of an Apple ID can be taken back, by its        *)
(* opposite.                                                                *)
UndoAdjustment(ledger, n, form) ==
  LET entry == ledger.movements[n]
      wallet == ledger.wallets[entry.appleId]
      marked == [ledger EXCEPT !.movements = [ledger.movements EXCEPT ![n] = [entry EXCEPT !.undone = form]]]
  IN  IF /\ n \in DOMAIN ledger.movements
         /\ entry.kind = "manual" /\ entry.undone = 0
         /\ wallet.version = entry.version
         /\ wallet.balance - entry.amount >= 0
      THEN Done(PushMovement(marked, entry.appleId, -entry.amount, Detail("manual-undo", form, 0, n)))
      ELSE Refused(ledger)

-----------------------------------------------------------------------------
(* The server: what it asks of a ledger about to be stored, with the orders *)
(* it is stored with.  `orders` is a function of the orders' numbers.       *)

MovesOf(ledger, ids, kinds) ==
  {n \in DOMAIN ledger.movements : ledger.movements[n].appleId \in ids /\ ledger.movements[n].kind \in kinds}

MovesOn(ledger, id) == {n \in DOMAIN ledger.movements : ledger.movements[n].appleId = id}

Debits(ledger, id, o) ==
  {n \in MovesOf(ledger, {id}, {"charge", "reversal"}) : ledger.movements[n].order = o}

Receipts(ledger) == MovesOf(ledger, AppleIds, {"apple-refund"})

(* Every movement carries its Apple ID's balance and version on, and the    *)
(* wallets are what they come to.                                           *)
MovementsAddUp(ledger) ==
  /\ \A n \in DOMAIN ledger.movements :
       LET m == ledger.movements[n]
           upTo == {i \in MovesOn(ledger, m.appleId) : i <= n}
       IN  m.after = SumOf(ledger.movements, upTo) /\ m.after >= 0 /\ m.version = 1 + Cardinality(upTo)
  /\ \A id \in AppleIds :
       ledger.wallets[id] = [balance |-> SumOf(ledger.movements, MovesOn(ledger, id)),
                             version |-> 1 + Cardinality(MovesOn(ledger, id))]

(* Per order and Apple ID, charges less reversals are what is allocated.    *)
DebitsMatch(ledger, orders) ==
  /\ \A m \in Range(ledger.movements) :
       /\ m.kind = "charge" => m.amount < 0
       /\ m.kind = "reversal" => m.amount > 0
       /\ m.order # 0 => m.order \in DOMAIN orders
  /\ \A o \in DOMAIN orders, id \in AppleIds :
       LET allocation == AllocationOf(ledger, o) IN
         -SumOf(ledger.movements, Debits(ledger, id, o)) =
           IF allocation.appleId = id THEN allocation.amount ELSE 0

(* One movement for a refund received, and none for any other.              *)
ReceiptsMatch(ledger) ==
  /\ \A n \in Receipts(ledger) :
       LET m == ledger.movements[n] IN
         /\ m.of \in DOMAIN ledger.refunds
         /\ LET refund == ledger.refunds[m.of] IN
              /\ refund.status = "received"
              /\ <<refund.order, refund.appleId, refund.amount>> = <<m.order, m.appleId, m.amount>>
  /\ \A r \in DOMAIN ledger.refunds :
       Cardinality({n \in Receipts(ledger) : ledger.movements[n].of = r}) =
         IF ledger.refunds[r].status = "received" THEN 1 ELSE 0

UndosMatch(ledger) ==
  \A n \in MovesOf(ledger, AppleIds, {"manual-undo"}) :
    LET undo == ledger.movements[n]
        original == ledger.movements[undo.of]
    IN  /\ undo.of \in 1..(n - 1)
        /\ original.kind = "manual" /\ original.appleId = undo.appleId
        /\ original.undone = undo.form
        /\ original.version = undo.version - 1
        /\ original.amount = -undo.amount

(* What was written stays, but for the mark of its undoing.                 *)
HistoryKept(previous, ledger) ==
  /\ \A n \in DOMAIN previous.movements :
       /\ n \in DOMAIN ledger.movements
       /\ LET was == previous.movements[n]
              is == ledger.movements[n]
          IN  /\ [is EXCEPT !.undone = 0] = [was EXCEPT !.undone = 0]
              /\ was.undone # 0 => is.undone = was.undone
              /\ is.undone # 0 => \E m \in Range(ledger.movements) :
                                   m.kind = "manual-undo" /\ m.of = n /\ m.form = is.undone
  /\ \A r \in DOMAIN previous.refunds :
       /\ r \in DOMAIN ledger.refunds
       /\ LET was == previous.refunds[r]
              is == ledger.refunds[r]
          IN  /\ <<is.appleId, is.order>> = <<was.appleId, was.order>>
              /\ was.status = "received" => is = was

RefundsMatch(ledger, orders) ==
  \A r \in DOMAIN ledger.refunds :
    LET refund == ledger.refunds[r] IN
      /\ refund.order \in DOMAIN orders
      /\ \E n \in DOMAIN orders[refund.order].refunds : orders[refund.order].refunds[n].id = r
      /\ IF refund.status = "none" THEN refund.amount = 0
         ELSE refund.amount > 0 /\ AllocationOf(ledger, refund.order).appleId = refund.appleId

AllocationsMatch(ledger, orders) ==
  /\ \A o \in DOMAIN ledger.allocations :
       LET allocation == ledger.allocations[o] IN
         /\ o \in DOMAIN orders /\ Charged(orders[o])
         /\ <<orders[o].appleId, orders[o].paid>> = <<allocation.appleId, allocation.amount>>
         /\ allocation.returned = SumOf(ledger.refunds, RefundsOf(ledger, o, "received"))
         /\ allocation.returned + SumOf(ledger.refunds, RefundsOf(ledger, o, "pending")) <= allocation.amount
  /\ \A o \in DOMAIN orders :
       /\ Charged(orders[o]) => o \in DOMAIN ledger.allocations
       /\ \A n \in DOMAIN orders[o].refunds :
            LET refund == orders[o].refunds[n] IN
              refund.payment = "apple" =>
                refund.id \in DOMAIN ledger.refunds /\ ledger.refunds[refund.id].order = o

CheckMovements(ledger, orders) ==
  MovementsAddUp(ledger) /\ DebitsMatch(ledger, orders) /\ ReceiptsMatch(ledger) /\ UndosMatch(ledger)

(* What holds of a ledger once it is stored.                                *)
LedgerSound(ledger, orders) ==
  CheckMovements(ledger, orders) /\ RefundsMatch(ledger, orders) /\ AllocationsMatch(ledger, orders)

CheckAppleLedger(previous, ledger, orders) ==
  HistoryKept(previous, ledger) /\ LedgerSound(ledger, orders)
=============================================================================
