------------------------------ MODULE OrderDesk ------------------------------
(***************************************************************************)
(* Orders paid from an Apple ID's balance or by bank card, and the ledger  *)
(* of those balances, worked on from browser tabs: a form is filled in     *)
(* from the tab's copies of the two documents, submitted, confirmed in a   *)
(* dialog, and saved as one request, which the server checks against the   *)
(* documents it holds.  One tab is modelled step by step; Colleague is     *)
(* everybody else.                                                         *)
(***************************************************************************)
EXTENDS Integers, Sequences, SequencesExt, FiniteSetsExt, OrderRecords

CONSTANTS
  Openings,   \* the two documents the desk may open with
  MaxAmount,  \* amounts are 0 to MaxAmount
  MaxForms,   \* bound on the forms filled in, by anybody
  MaxOrders,  \* bound on orders when a form for another is filled in
  MaxOthers,  \* bound on what others save
  MaxFaults,  \* bound on answers that do not arrive
  MaxEvents   \* bound on all three together

VARIABLES
  commerce,  \* the orders in the database, with their document's version
  balance,   \* the ledger in the database
  tab,       \* the tab's copies of both, its form and how far it is
  wire,      \* the requests under way
  forms,     \* how many forms were filled in; forms have numbers
  effects,   \* per form, how often it took effect
  verdict,   \* the server's last word
  others,    \* how often others saved
  faults     \* how often an answer did not arrive

vars == <<commerce, balance, tab, wire, forms, effects, verdict, others, faults>>

ASSUME OrderDeskAssumption ==
  /\ "" \notin AppleIds /\ IsFiniteSet(AppleIds)
  /\ {MaxAmount, MaxForms, MaxOrders, MaxEvents} \subseteq Nat \ {0}
  /\ {MaxOthers, MaxFaults} \subseteq Nat

(* The numbers a form draws for what it makes: another one each time.       *)
DrawnFor(n, x) == \E k \in 0..x : x = n + k * MaxForms

(* The documents are ones the desk could have come to: the server accepts   *)
(* the ledger with the orders, and each order's money holds, now and with   *)
(* its last correction taken back.  Order 1 is the only one there, and the  *)
(* numbers of its refunds were drawn for form 1.                            *)
ASSUME OpeningsAssumption ==
  \A opening \in Openings :
    /\ DOMAIN opening.orders \subseteq {1}
    /\ OrdersTyped(opening.orders) /\ LedgerTyped(opening.ledger)
    /\ CheckAppleLedger(opening.ledger, opening.ledger, opening.orders)
    /\ \A o \in DOMAIN opening.orders :
         /\ OrderSound(opening.orders[o])
         /\ \A n \in DOMAIN opening.orders[o].refunds : DrawnFor(1, opening.orders[o].refunds[n].id)

(* A fault counts for two events. *)
Room(n) == forms + others + 2 * faults + n <= MaxEvents

NoValues == [payment |-> "bank", appleId |-> "", paid |-> 0, received |-> 0]

Form(op, target, seen) ==
  [op |-> op, target |-> target, seen |-> seen, n |-> 0, id |-> 0, kind |-> "stock",
   values |-> NoValues, appleId |-> "", amount |-> 0, back |-> 0, reversal |-> FALSE]

NoForm == Form("none", 0, << >>)

OrderForms == {"new", "correct", "refund", "return", "undo", "cancel", "restore"}

-----------------------------------------------------------------------------
(* The forms the page offers on given orders and a given ledger, as filled  *)
(* in by somebody.                                                          *)

NewOrders(orders, ledger) ==
  IF Cardinality(DOMAIN orders) >= MaxOrders THEN {}
  ELSE LET Offered(kind, account, values) ==
             AppleOptions(orders, ledger, NewOrder(0, kind, account, values))
           Filled(kind, account, values) ==
             [Form("new", account, << >>) EXCEPT !.kind = kind, !.values = values]
           Bank == {[NoValues EXCEPT !.paid = a] : a \in 0..1}
           Apple == {[NoValues EXCEPT !.payment = "apple", !.paid = a] : a \in 1..MaxAmount}
       IN  {Filled("stock", 0, v) : v \in Bank}
             \cup (UNION {LET ids == Offered("stock", 0, v) IN
                            {Filled("stock", 0, [v EXCEPT !.appleId = id]) : id \in ids} : v \in Apple})
             \cup UNION {LET ids == Offered("renewal", orders[o].account, v) IN
                           {Filled("renewal", orders[o].account, [v EXCEPT !.appleId = id]) : id \in ids}
                         : v \in Apple, o \in DOMAIN orders}

(* One thing is corrected at a time.                                        *)
CorrectedValues(orders, ledger, order) ==
  LET v == Values(order)
      paidBy(id) == {[v EXCEPT !.payment = "apple", !.appleId = id, !.paid = a] : a \in 1..MaxAmount}
  IN  ({[v EXCEPT !.paid = a] : a \in 0..MaxAmount}
         \cup {[v EXCEPT !.received = a] : a \in {0, MaxAmount}}
         \cup {[v EXCEPT !.payment = "bank", !.appleId = "", !.paid = a] : a \in 0..1}
         \cup UNION {paidBy(id) : id \in AppleOptions(orders, ledger, [order EXCEPT !.paid = 1])})
      \ {v}

Corrections(orders, ledger) ==
  UNION {{[Form("correct", o, <<orders[o].version>>) EXCEPT !.values = v, !.reversal = r] :
            v \in CorrectedValues(orders, ledger, orders[o]),
            r \in IF o \in DOMAIN ledger.allocations THEN BOOLEAN ELSE {FALSE}} :
         o \in {o \in DOMAIN orders : ~orders[o].cancelled}}

RefundForms(orders) ==
  UNION {{[Form("refund", o, <<orders[o].version>>) EXCEPT !.amount = a, !.back = b] :
            a \in {1, Refundable(orders[o])},
            b \in IF orders[o].payment = "apple" THEN 0..1 ELSE {0}} :
         o \in {o \in DOMAIN orders : ~orders[o].cancelled /\ Refundable(orders[o]) > 0}}

BankReturnForms(orders) ==
  {[Form("return", o, <<orders[o].version>>) EXCEPT !.amount = 1] :
     o \in {o \in DOMAIN orders : BankReturnLimit(orders[o]) > 0}}

ReversalForms(orders, ledger) ==
  LET Seen(op, o) == Form(op, o, <<orders[o].version>>) IN
    {Seen("cancel", o) : o \in {o \in DOMAIN orders : ~orders[o].cancelled /\ ~CancellationBlocked(orders[o])}}
      \cup {Seen("restore", o) : o \in {o \in DOMAIN orders : orders[o].cancelled}}
      \cup {[Seen("undo", o) EXCEPT !.reversal = r] :
              o \in {o \in DOMAIN orders : MayUndo(orders[o], ledger)}, r \in BOOLEAN}

AdjustmentForms(ledger) ==
  {[Form("adjust", 0, <<ledger.wallets[id].version>>) EXCEPT !.appleId = id, !.amount = a] :
     id \in AppleIds, a \in {-1, 1}}

UndoForms(ledger) ==
  {Form("undo-adjust", n, << >>) :
     n \in {n \in MovesOf(ledger, AppleIds, {"manual"}) : ledger.movements[n].undone = 0}}

PendingRefundForms(ledger) ==
  LET Seen(r) == LET refund == ledger.refunds[r] IN
                   <<refund.version, AllocationOf(ledger, refund.order).version,
                     ledger.wallets[refund.appleId].version>>
      open == {r \in DOMAIN ledger.refunds : ledger.refunds[r].status = "pending"}
  IN  {Form("receive", r, Seen(r)) : r \in open}
        \cup {[Form("amend", r, Seen(r)) EXCEPT !.amount = a] : r \in open, a \in 0..MaxAmount}

-----------------------------------------------------------------------------
(* What a form comes to on given documents, or that the page refuses it.    *)

Plan(ok, orders, ledger) == [ok |-> ok, orders |-> orders, ledger |-> ledger]

WithOrder(order, orders, charge) ==
  Plan(charge.ok, With(orders, order.id, order), charge.ledger)

WithLedger(orders, result) == Plan(result.ok, orders, result.ledger)

PlanOrder(f, orders, ledger) ==
  LET row == NewOrder(f.id, f.kind, f.target, f.values)
  IN  WithOrder(row, orders, CommitOrder(ledger, row, FALSE, f.id))

PlanCorrection(f, orders, ledger) ==
  LET order == orders[f.target]
      charge == CommitOrder(ledger, WithValues(order, f.values), f.reversal, f.id)
      saved == CorrectOrder(order, f.values, AllocationOf(charge.ledger, f.target))
  IN  IF ValidCorrection(order, f.values) THEN WithOrder(saved, orders, charge)
      ELSE Plan(FALSE, orders, ledger)

PlanRefund(f, orders, ledger) ==
  LET order == orders[f.target]
      back == IF order.payment = "apple" THEN PrepareRefund(ledger, order, f.id, f.back) ELSE Done(ledger)
  IN  IF ~order.cancelled /\ f.amount <= Refundable(order)
      THEN WithOrder(RegisterRefund(order, f.id, f.amount), orders, back)
      ELSE Plan(FALSE, orders, ledger)

PlanBankReturn(f, orders, ledger) ==
  LET order == orders[f.target] IN
    IF f.amount <= BankReturnLimit(order)
    THEN WithOrder(RegisterBankReturn(order, f.amount), orders, Done(ledger))
    ELSE Plan(FALSE, orders, ledger)

PlanReversal(f, orders, ledger) ==
  LET order == orders[f.target] IN
    CASE f.op = "cancel" /\ ~CancellationBlocked(order) ->
           WithOrder(Cancel(order, TRUE), orders, Done(ledger))
      [] f.op = "restore" -> WithOrder(Cancel(order, FALSE), orders, Done(ledger))
      [] f.op = "undo" /\ MayUndo(order, ledger) ->
           WithOrder(UndoCorrection(order), orders, CommitOrder(ledger, Undone(order), f.reversal, f.id))
      [] OTHER -> Plan(FALSE, orders, ledger)

(* A form about an order holds for the version of the order it was filled   *)
(* in from.                                                                 *)
SeenLast(f, orders) ==
  f.op \in OrderForms \ {"new"} => f.target \in DOMAIN orders /\ orders[f.target].version = f.seen[1]

PlanLedger(f, orders, ledger) ==
  CASE f.op = "adjust" -> WithLedger(orders, Adjust(ledger, f.appleId, f.amount, f.seen[1], f.id))
    [] f.op = "undo-adjust" -> WithLedger(orders, UndoAdjustment(ledger, f.target, f.id))
    [] f.op = "amend" -> WithLedger(orders, CorrectRefund(ledger, f.target, f.amount, f.seen))
    [] f.op = "receive" -> WithLedger(orders, ReceiveRefund(ledger, f.target, f.seen, f.id))

PlanFor(f, orders, ledger) ==
  IF ~SeenLast(f, orders) THEN Plan(FALSE, orders, ledger)
  ELSE CASE f.op = "new" -> PlanOrder(f, orders, ledger)
         [] f.op = "correct" -> PlanCorrection(f, orders, ledger)
         [] f.op = "refund" -> PlanRefund(f, orders, ledger)
         [] f.op = "return" -> PlanBankReturn(f, orders, ledger)
         [] f.op \in {"undo", "cancel", "restore"} -> PlanReversal(f, orders, ledger)
         [] f.op \notin OrderForms -> PlanLedger(f, orders, ledger)

(* The ledger's preview which a confirmation must find unchanged.           *)
KeyFor(f, orders, ledger) ==
  CASE f.op = "new" -> PreviewKey(ledger, NewOrder(f.id, f.kind, f.target, f.values))
    [] f.op = "correct" -> PreviewKey(ledger, WithValues(orders[f.target], f.values))
    [] f.op = "undo" -> PreviewKey(ledger, Undone(orders[f.target]))
    [] OTHER -> << >>

-----------------------------------------------------------------------------
(* The server.                                                              *)

ChangedOrders(orders, next) == {o \in DOMAIN next : ~(o \in DOMAIN orders /\ next[o] = orders[o])}

StoreVersions == [commerce |-> commerce.version, balance |-> balance.version]

StaleByLedger(r) == "balance" \in r.sends /\ r.base.balance # balance.version   \* mutant

Stale(r) == \E d \in r.sends : r.base[d] # StoreVersions[d]

(* The two documents as they would be stored: what is not sent stays.       *)
NextOrders(r) ==
  IF "commerce" \notin r.sends THEN commerce.orders ELSE NormalizePaymentEvidence(commerce.orders, r.orders)

NextLedger(r) == IF "balance" \in r.sends THEN r.ledger ELSE balance

Eligible(r) ==
  r.form.op \in {"new", "correct"} =>
    \A o \in ChangedOrders(commerce.orders, NextOrders(r)) :
      CheckAppleOrder(commerce.orders, balance, NextOrders(r)[o], NextOrders(r))

OrdersAccepted(r) ==
  "commerce" \in r.sends =>
    /\ CheckBankPayments(commerce.orders, NextOrders(r))
    /\ CheckBankReturns(commerce.orders, NextOrders(r))
    /\ CheckOrderFinancialHistory(commerce.orders, NextOrders(r))

AcceptedAsSent(r) ==   \* mutant
  /\ OrdersAccepted(r)
  /\ "balance" \in r.sends => CheckAppleLedger(balance, NextLedger(r), NextOrders(r))

(* The ledger is checked against the orders whichever of them is sent.      *)
Accepted(r) ==
  /\ OrdersAccepted(r)
  /\ CheckAppleLedger(balance, NextLedger(r), NextOrders(r))

(* Where the page is known to let through what the server refuses: a        *)
(* receipt or a kind of payment corrected although refunds were made, and   *)
(* a change to a bank payment taken back.                                   *)
UndoesBankPayment(r) ==
  LET order == commerce.orders[r.form.target] IN
    r.form.op = "undo" /\ HasBankPayment(order) /\ Undone(order).payment # "bank"

CorrectsRefunded(r) ==
  LET order == commerce.orders[r.form.target] IN
    /\ r.form.op = "correct" /\ order.refunds # << >>
    /\ r.form.values.payment # order.payment \/ r.form.values.received = 0

Verdict(r) ==
  CASE Stale(r) -> "stale"
    [] ~Stale(r) /\ ~Eligible(r) -> "ineligible"
    [] ~Stale(r) /\ Eligible(r) /\ Accepted(r) -> "stored"
    [] OTHER -> IF r.base # StoreVersions THEN "stale copy"
                ELSE IF UndoesBankPayment(r) THEN "undo refused"
                ELSE IF CorrectsRefunded(r) THEN "refunded before" ELSE "refused"

(* Each document that was sent gets its next version, all of them or none.  *)
Stored(r) ==
  /\ commerce' = [orders |-> NextOrders(r),
                  version |-> commerce.version + IF "commerce" \in r.sends THEN 1 ELSE 0]
  /\ balance' = [NextLedger(r) EXCEPT !.version = balance.version + IF "balance" \in r.sends THEN 1 ELSE 0]
  /\ effects' = [effects EXCEPT ![r.form.n] = @ + 1]

Request(f, plan, orders, ledger, versions) ==
  [form |-> f, heard |-> TRUE, orders |-> plan.orders, ledger |-> plan.ledger,
   base |-> versions,
   sends |-> (IF f.op \in OrderForms THEN {"commerce"} ELSE {})
               \cup (IF plan.ledger = ledger THEN {} ELSE {"balance"})]

-----------------------------------------------------------------------------
(* The tab.                                                                 *)

Versions == [commerce |-> tab.commerce.version, balance |-> tab.balance.version]

At(step) == tab.step = step

Put(form, step) == [tab EXCEPT !.form = form, !.step = step, !.key = << >>, !.moved = FALSE]

Fills(F) ==
  /\ At("idle") /\ forms < MaxForms /\ Room(1)
  /\ \E f \in F : tab' = Put([f EXCEPT !.n = forms + 1, !.id = forms + 1], "filled")
  /\ forms' = forms + 1
  /\ UNCHANGED <<commerce, balance, wire, effects, verdict, others, faults>>

FillOrder == Fills(NewOrders(tab.commerce.orders, tab.balance))
FillCorrection == Fills(Corrections(tab.commerce.orders, tab.balance))
FillRefund == Fills(RefundForms(tab.commerce.orders))
FillBankReturn == Fills(BankReturnForms(tab.commerce.orders))
FillReversal == Fills(ReversalForms(tab.commerce.orders, tab.balance))
FillAdjustment == Fills(AdjustmentForms(tab.balance))
FillUndo == Fills(UndoForms(tab.balance))
FillPendingRefund == Fills(PendingRefundForms(tab.balance))

(* A form about an order is checked, with the ledger's preview, before the  *)
(* dialog asks; the ledger's own forms are checked when it is confirmed.    *)
Submit ==
  /\ At("filled")
  /\ LET f == tab.form
         ok == f.op \in OrderForms => PlanFor(f, tab.commerce.orders, tab.balance).ok
     IN  tab' = IF ok THEN [tab EXCEPT !.step = "asked",
                                       !.key = KeyFor(f, tab.commerce.orders, tab.balance)]
                ELSE Put(NoForm, "idle")
  /\ UNCHANGED <<commerce, balance, wire, forms, effects, verdict, others, faults>>

(* The order must be the very record submitted and the preview the same.    *)
Confirm ==
  /\ At("asked")
  /\ LET f == tab.form
         plan == PlanFor(f, tab.commerce.orders, tab.balance)
         same == /\ plan.ok
                 /\ f.op \in OrderForms \ {"new"} => ~tab.moved
                 /\ KeyFor(f, tab.commerce.orders, tab.balance) = tab.key
     IN  IF same
         THEN /\ tab' = [tab EXCEPT !.step = "sent"]
              /\ wire' = wire \cup {Request(f, plan, tab.commerce.orders, tab.balance, Versions)}
         ELSE tab' = Put(f, "filled") /\ UNCHANGED wire
  /\ UNCHANGED <<commerce, balance, forms, effects, verdict, others, faults>>

(* The answer brings what was stored.  After a refusal the tab reads again  *)
(* what it had sent.                                                        *)
Answered(r) ==
  [Put(NoForm, "idle") EXCEPT !.commerce = IF "commerce" \in r.sends THEN commerce' ELSE @,
                               !.balance = IF "balance" \in r.sends THEN balance' ELSE @]

Serve(r) ==
  /\ LET said == Verdict(r) IN
       /\ IF said = "stored" THEN Stored(r) ELSE UNCHANGED <<commerce, balance, effects>>
       /\ verdict' = said
       /\ wire' = wire \ {r}
       /\ \/ ~r.heard /\ UNCHANGED <<tab, faults>>
          \/ r.heard /\ tab' = Answered(r) /\ UNCHANGED faults
          \/ r.heard /\ faults < MaxFaults /\ Room(2)
             /\ tab' = [tab EXCEPT !.step = "unknown"] /\ faults' = faults + 1
  /\ UNCHANGED <<forms, others>>

(* The tab hears nothing, and the request may be served all the same.       *)
GoSilent(r) ==
  /\ r.heard /\ faults < MaxFaults /\ Room(2)
  /\ wire' = (wire \ {r}) \cup {[r EXCEPT !.heard = FALSE]}
  /\ tab' = [tab EXCEPT !.step = "unknown"]
  /\ faults' = faults + 1
  /\ UNCHANGED <<commerce, balance, forms, effects, verdict, others>>

(* The document is read again before anything can be saved.  The form keeps *)
(* what was filled in, the versions it holds for included, and is open to   *)
(* be submitted again; its next submission draws the next number.  A form   *)
(* for a new order has no version: only the notice, which tells staff to    *)
(* look for the order first, stands between it and a second one.            *)
Recover ==
  /\ At("unknown")
  /\ LET next == Put([tab.form EXCEPT !.id = @ + MaxForms], "filled")
     IN  tab' = IF tab.form.op \in OrderForms THEN [next EXCEPT !.commerce = commerce]
                ELSE [next EXCEPT !.balance = balance]
  /\ UNCHANGED <<commerce, balance, wire, forms, effects, verdict, others, faults>>

(* News reaches the tab at any time, of each document by itself.            *)
RefreshOrders ==
  /\ tab.commerce.version < commerce.version /\ ~At("unknown")
  /\ tab' = [tab EXCEPT !.commerce = commerce, !.moved = At("asked")]
  /\ UNCHANGED <<commerce, balance, wire, forms, effects, verdict, others, faults>>

RefreshBalance ==
  /\ tab.balance.version < balance.version /\ ~At("unknown")
  /\ tab' = [tab EXCEPT !.balance = balance]
  /\ UNCHANGED <<commerce, balance, wire, forms, effects, verdict, others, faults>>

(* Somebody else does with the documents as they are what this tab could.   *)
AllForms(orders, ledger) ==
  NewOrders(orders, ledger) \cup Corrections(orders, ledger) \cup RefundForms(orders)
    \cup BankReturnForms(orders) \cup ReversalForms(orders, ledger) \cup AdjustmentForms(ledger)
    \cup UndoForms(ledger) \cup PendingRefundForms(ledger)

Colleague ==
  /\ forms < MaxForms /\ others < MaxOthers /\ Room(2)
  /\ \E filled \in AllForms(commerce.orders, balance) :
       LET f == [filled EXCEPT !.n = forms + 1, !.id = forms + 1]
           plan == PlanFor(f, commerce.orders, balance)
           r == Request(f, plan, commerce.orders, balance,
                        StoreVersions)
       IN  plan.ok /\ Verdict(r) = "stored" /\ Stored(r)
  /\ forms' = forms + 1
  /\ others' = others + 1
  /\ UNCHANGED <<tab, wire, verdict, faults>>

-----------------------------------------------------------------------------
(* Form 1 has made an order, if there is one.                               *)
Init ==
  \E opening \in Openings :
    /\ commerce = [version |-> 1, orders |-> opening.orders]
    /\ balance = opening.ledger
    /\ tab = [commerce |-> commerce, balance |-> balance, form |-> NoForm, step |-> "idle",
              key |-> << >>, moved |-> FALSE]
    /\ wire = {} /\ forms = 1 /\ others = 0 /\ faults = 0
    /\ effects = [n \in 1..MaxForms |-> 0]
    /\ verdict = "none"

Next ==
  \/ FillOrder \/ FillCorrection \/ FillRefund \/ FillBankReturn \/ FillReversal
  \/ FillAdjustment \/ FillUndo \/ FillPendingRefund
  \/ Submit \/ Confirm \/ Recover
  \/ \E r \in wire : Serve(r) \/ GoSilent(r)
  \/ RefreshOrders \/ RefreshBalance
  \/ Colleague

Spec == Init /\ [][Next]_vars

-----------------------------------------------------------------------------
(* What has to hold.                                                        *)

(* The page and the server judge alike: of what a page has checked and sent *)
(* on the documents' current versions, the server refuses only what it is   *)
(* known to judge alone (saveOrder, saveRefund, saveReversal and the        *)
(* balance page against checkAppleLedger, checkBankReturns and              *)
(* checkOrderFinancialHistory).  A case the page lets through can be filled *)
(* in and submitted for ever without being saved.  Not counted: a refusal   *)
(* of the Apple ID chosen, which the page judges when it offers it          *)
(* (checkAppleOrder), and one of a request that sends one document, made    *)
(* with an older copy of the other.                                         *)
PageAgreesWithServer == verdict # "refused"

(* However often a form is submitted after an answer was lost, it takes     *)
(* effect once (the versions a form carries, saveBatch's version check).    *)
(* What a form for a new order asks for carries no version, and can be      *)
(* stored again when it is submitted again after an answer that was lost    *)
(* (saveDrafts keeps the form, saveOrder draws another number): then as     *)
(* another order each time, under a number that no order had.               *)
EnteredBy(n) == {o \in DOMAIN commerce.orders : DrawnFor(n, o)}

OneEffectPerForm ==
  \A n \in 1..MaxForms : effects[n] <= 1 \/ effects[n] = Cardinality(EnteredBy(n))

(* Balances, charges and orders agree across the two documents at any time: *)
(* each Apple ID has what was put in by hand less what its orders were      *)
(* charged and did not get back, and exactly the orders paid from one are   *)
(* charged, for what they say.                                              *)
MoneyIsAccounted ==
  LET ByHand(id) == MovesOf(balance, {id}, {"manual", "manual-undo"})
      On(id) == {o \in DOMAIN balance.allocations : balance.allocations[o].appleId = id}
  IN  /\ \A id \in AppleIds :
           balance.wallets[id].balance =
             SumOf(balance.movements, ByHand(id))
               - SumFunctionOnSet([o \in DOMAIN balance.allocations |-> Net(balance.allocations[o])], On(id))
      /\ \A o \in DOMAIN commerce.orders :
           LET order == commerce.orders[o]
               charge == AllocationOf(balance, o)
           IN  <<charge.appleId, charge.amount>> =
                 IF Charged(order) THEN <<order.appleId, order.paid>> ELSE <<"", 0>>

(* No save, however old the copies it was made from, takes away what        *)
(* somebody else recorded: orders stay, and an order's corrections, refunds *)
(* and bank returns and the ledger's movements only grow.                   *)
NothingIsLost ==
  [][/\ \A o \in DOMAIN commerce.orders :
          /\ o \in DOMAIN commerce'.orders
          /\ LET was == commerce.orders[o]
                 is == commerce'.orders[o]
             IN  /\ IsPrefix(was.corrections, is.corrections)
                 /\ IsPrefix(was.refunds, is.refunds)
                 /\ IsPrefix(was.returns, is.returns)
                 /\ was # is => is.version = was.version + 1
     /\ Len(balance.movements) <= Len(balance'.movements)]_vars
=============================================================================
