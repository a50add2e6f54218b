---------------------------- MODULE OrderClaims ----------------------------
(***************************************************************************)
(* What OrderDesk_proofs claims of OrderDesk's states and steps: the types, *)
(* the parts of the inductive invariant DeskInv, and what each action does  *)
(* in these terms.                                                         *)
(***************************************************************************)
EXTENDS OrderDesk

(* The types, and the parts of the inductive invariant. *)

LedgerForms == {"adjust", "undo-adjust", "amend", "receive"}

(* What a form gives back is something, and what it has to come back is not *)
(* below nothing.                                                           *)
AmountsFit(f) ==
  /\ f.op = "return" => f.amount > 0
  /\ f.op = "amend" => f.amount >= 0
  /\ f.op = "refund" => f.back >= 0

(* A form that was filled in. *)
FormTyped(f) ==
  /\ f \in [op : OrderForms \cup LedgerForms, target : Nat, seen : Seq(Int), n : Nat, id : Nat \ {0},
            kind : {"stock", "renewal"}, values : Value, appleId : AppleIds \cup {""},
            amount : Int, back : Int, reversal : BOOLEAN]
  /\ f.op = "adjust" => f.appleId \in AppleIds
  /\ f.op \notin {"new", "undo-adjust"} => f.seen # << >>
  /\ AmountsFit(f) /\ DrawnFor(f.n, f.id)

(* A request: it sends the orders if its form is one of an order, and the   *)
(* ledger if it is one of the ledger.                                       *)
RequestTyped(r) ==
  /\ r = [form |-> r.form, heard |-> r.heard, orders |-> r.orders, ledger |-> r.ledger,
          base |-> r.base, sends |-> r.sends]
  /\ FormTyped(r.form) /\ r.heard \in BOOLEAN
  /\ OrdersTyped(r.orders) /\ LedgerTyped(r.ledger)
  /\ r.base \in [commerce : Int, balance : Int]
  /\ r.sends \subseteq {"commerce", "balance"}
  /\ r.form.op \in OrderForms <=> "commerce" \in r.sends
  /\ r.form.op \in LedgerForms => "balance" \in r.sends

Steps == {"idle", "filled", "asked", "sent", "unknown"}

(* The orders, as stored and as copied. *)
CopyTyped(copy) ==
  /\ copy = [orders |-> copy.orders, version |-> copy.version]
  /\ copy.version \in Int /\ OrdersTyped(copy.orders)

TabTyped ==
  /\ tab = [commerce |-> tab.commerce, balance |-> tab.balance, form |-> tab.form, step |-> tab.step,
            key |-> tab.key, moved |-> tab.moved]
  /\ CopyTyped(tab.commerce) /\ LedgerTyped(tab.balance)
  /\ tab.step \in Steps
  /\ tab.step # "idle" => FormTyped(tab.form)

(* What is stored is typed, and the ledger belongs to the orders: the       *)
(* latter is what the server's own check asks of whatever it stores.        *)
StoreTyped ==
  /\ CopyTyped(commerce) /\ LedgerTyped(balance)
  /\ LedgerSound(balance, commerce.orders)

(* The tab waits for the answer to one request at most, the form's. *)
Heard ==
  /\ \A r \in wire : r.heard => tab.step = "sent" /\ r.form = tab.form
  /\ \A r, q \in wire : r.heard /\ q.heard => r = q

Typed ==
  /\ StoreTyped /\ TabTyped /\ Heard /\ \A r \in wire : RequestTyped(r)
  /\ forms \in Nat /\ effects \in [1..MaxForms -> Nat]

-----------------------------------------------------------------------------
(* What a form makes of given documents. *)

(* The order a form is about. *)
Own(f) == IF f.op = "new" THEN f.id ELSE f.target

(* An order that was changed has the next version and has lost no           *)
(* correction, no refund and no return.                                     *)
OrderGrows(was, is) ==
  /\ is.version = was.version + 1
  /\ IsPrefix(was.corrections, is.corrections)
  /\ IsPrefix(was.refunds, is.refunds)
  /\ IsPrefix(was.returns, is.returns)

(* What a form of an order does to the orders: it changes its own one only, *)
(* from the version it was filled in at.                                    *)
OrdersPlanned(f, was, is) ==
  /\ DOMAIN is = DOMAIN was \cup {Own(f)}
  /\ \A o \in DOMAIN was : o # Own(f) => is[o] = was[o]
  /\ f.op # "new" =>
       /\ f.target \in DOMAIN was /\ was[f.target].version = f.seen[1]
       /\ OrderGrows(was[f.target], is[f.target])
  /\ f.op = "refund" =>
       \E refund : refund.id = f.id /\ is[f.target].refunds = Append(was[f.target].refunds, refund)

(* What a form does to the refunds in the ledger: none goes, and the        *)
(* version of none goes back, unless it is written over by a new refund of  *)
(* the form's own number, which the server refuses when it is stored        *)
(* already (RefundIsNew).                                                   *)
RefundsPlanned(f, was, is) ==
  \A q \in DOMAIN was.refunds :
    /\ q \in DOMAIN is.refunds
    /\ \/ is.refunds[q].version >= was.refunds[q].version
       \/ f.op = "refund" /\ f.id = q /\ is.refunds[q].order = f.target

(* What a form does to the ledger: a version it was filled in at is the one *)
(* it finds and moves on, and an adjustment is undone once.                 *)
LedgerPlanned(f, was, is) ==
  /\ RefundsPlanned(f, was, is)
  /\ f.op = "adjust" =>
       was.wallets[f.appleId].version = f.seen[1] /\ is.wallets[f.appleId].version = f.seen[1] + 1
  /\ f.op = "undo-adjust" =>
       /\ f.target \in DOMAIN was.movements /\ was.movements[f.target].undone = 0
       /\ f.target \in DOMAIN is.movements /\ is.movements[f.target].undone # 0
  /\ f.op \in {"amend", "receive"} =>
       /\ f.target \in DOMAIN was.refunds /\ f.target \in DOMAIN is.refunds
       /\ was.refunds[f.target].version = f.seen[1] /\ is.refunds[f.target].version = f.seen[1] + 1

(* A request whose base is what is stored was planned from what is stored. *)
OrdersReady(r) ==
  r.base.commerce = commerce.version /\ "commerce" \in r.sends =>
    OrdersPlanned(r.form, commerce.orders, r.orders)

LedgerReady(r) ==
  r.base.balance = balance.version /\ "balance" \in r.sends => LedgerPlanned(r.form, balance, r.ledger)

(* Copies are of the documents' versions, and a request was made from what  *)
(* is stored, or is stale.                                                  *)
InStep ==
  /\ tab.commerce.version <= commerce.version
  /\ tab.commerce.version = commerce.version => tab.commerce = commerce
  /\ tab.balance.version <= balance.version
  /\ tab.balance.version = balance.version => tab.balance = balance
  /\ \A r \in wire :
       /\ r.base.commerce <= commerce.version /\ r.base.balance <= balance.version
       /\ OrdersReady(r) /\ LedgerReady(r)

-----------------------------------------------------------------------------
(* Where a form may be. *)

(* The forms in the tab and in the requests, and what two copies of one     *)
(* form have in common.                                                     *)
LiveForms == (IF tab.step = "idle" THEN {} ELSE {tab.form}) \cup {r.form : r \in wire}

Same(f, g) == <<f.op, f.target, f.seen, f.appleId>> = <<g.op, g.target, g.seen, g.appleId>>

Before == {"filled", "asked"}

(* A number was drawn for a form that took effect.                          *)
Taken(x) == \E n \in 1..MaxForms : DrawnFor(n, x) /\ effects[n] >= 1

(* A form has a number of its own, which no other form that is live has;    *)
(* and every order beside the first has a taken number.                     *)
Placed ==
  /\ forms >= 1
  /\ \A f \in LiveForms : f.n \in 2..forms /\ f.n \in 1..MaxForms
  /\ \A f, g \in LiveForms : f.n = g.n => Same(f, g)
  /\ \A n \in 1..MaxForms : n > forms => effects[n] = 0
  /\ \A o \in DOMAIN commerce.orders : o = 1 \/ Taken(o)

(* Each submission of a form for a new order has a number of its own, which *)
(* no order has until the request is stored; the form's next number is      *)
(* above all it has drawn.                                                  *)
IsNew(f) == f.op = "new"

UnderWay ==
  /\ \A r \in wire : IsNew(r.form) => r.form.id \notin DOMAIN commerce.orders
  /\ \A r, q \in wire : IsNew(r.form) /\ IsNew(q.form) /\ r.form.id = q.form.id => r = q

LastDrawn(f) ==
  /\ \A r \in wire : r.form.n = f.n => r.form.id <= f.id
  /\ \A o \in EnteredBy(f.n) : o <= f.id

Unclaimed(f) == f.id \notin DOMAIN commerce.orders /\ \A r \in wire : IsNew(r.form) => r.form.id # f.id

OwnNumbers ==
  /\ UnderWay
  /\ tab.step # "idle" /\ IsNew(tab.form) =>
       /\ LastDrawn(tab.form)
       /\ tab.step \in Before => Unclaimed(tab.form)

(* A form for a new order took effect as often as it made an order.         *)
NewCounted == \A f \in LiveForms : IsNew(f) => effects[f.n] = Cardinality(EnteredBy(f.n))

(* A form that took effect cannot do so again: what it holds for has moved  *)
(* on.                                                                      *)
Spent(f) ==
  /\ f.op \in OrderForms => f.target \in DOMAIN commerce.orders /\ commerce.orders[f.target].version > f.seen[1]
  /\ f.op = "adjust" => balance.wallets[f.appleId].version > f.seen[1]
  /\ f.op = "undo-adjust" =>
       f.target \in DOMAIN balance.movements /\ balance.movements[f.target].undone # 0
  /\ f.op \in {"amend", "receive"} =>
       f.target \in DOMAIN balance.refunds /\ balance.refunds[f.target].version > f.seen[1]

(* A form that is live and took effect is spent. *)
SpentForms == \A f \in LiveForms : f.op # "new" /\ effects[f.n] >= 1 => Spent(f)

(* The inductive invariant. *)
DeskInv ==
  Typed /\ InStep /\ Placed /\ OwnNumbers /\ NewCounted /\ SpentForms /\ OneEffectPerForm

-----------------------------------------------------------------------------
(* What a plan and an action do. *)

(* A plan is good when its documents are typed and its form did to them     *)
(* what it may.                                                             *)
PlanGood(f, orders, ledger, plan) ==
  /\ OrdersTyped(plan.orders) /\ LedgerTyped(plan.ledger)
  /\ LedgerPlanned(f, ledger, plan.ledger)
  /\ f.op \in OrderForms => OrdersPlanned(f, orders, plan.orders)
  /\ f.op \in LedgerForms => plan.orders = orders /\ plan.ledger # ledger

(* The tab, as the record it is.                                            *)
Tab(c, b, f, s, k, m) == [commerce |-> c, balance |-> b, form |-> f, step |-> s, key |-> k, moved |-> m]

TabShaped(t) == t = Tab(t.commerce, t.balance, t.form, t.step, t.key, t.moved)

(* What each action does, with types. *)
CopiesKept ==
  /\ TabShaped(tab')
  /\ tab'.commerce \in {tab.commerce, commerce'}
  /\ tab'.balance \in {tab.balance, balance'}

(* A form is filled in and gets the next number. *)
Filled ==
  /\ tab.step = "idle" /\ tab'.step = "filled" /\ CopiesKept
  /\ FormTyped(tab'.form) /\ tab'.form.n = forms + 1
  /\ forms < MaxForms /\ forms' = forms + 1
  /\ UNCHANGED <<commerce, balance, wire, effects>>

(* A request that was made from given documents. *)
PlannedBy(r, orders, ledger) ==
  LET plan == PlanFor(r.form, orders, ledger) IN
    /\ plan.ok /\ r.orders = plan.orders /\ r.ledger = plan.ledger
    /\ "balance" \notin r.sends => r.ledger = ledger

MadeFrom(r, f, orders, ledger, versions) ==
  /\ RequestTyped(r) /\ r.form = f /\ r.base = versions /\ r.heard
  /\ PlannedBy(r, orders, ledger)
  /\ PlanGood(f, orders, ledger, [orders |-> r.orders, ledger |-> r.ledger])

(* A form is submitted: it is asked about, or found unchanged or impossible *)
(* and closed.                                                              *)
Submitted ==
  /\ tab.step = "filled" /\ CopiesKept
  /\ tab'.step = "idle" \/ (tab'.step = "asked" /\ tab'.form = tab.form)
  /\ UNCHANGED <<commerce, balance, wire, forms, effects>>

(* It is confirmed: the request is on the wire, or the page has the form    *)
(* open again.                                                              *)
Confirmed ==
  /\ tab.step = "asked" /\ CopiesKept /\ tab'.form = tab.form
  /\ \/ tab'.step = "filled" /\ wire' = wire
     \/ /\ tab'.step = "sent"
        /\ \E r : /\ MadeFrom(r, tab.form, tab.commerce.orders, tab.balance, Versions)
                  /\ wire' = wire \cup {r}
  /\ UNCHANGED <<commerce, balance, forms, effects>>

(* An answer that never came: the same form is open again, and one for a    *)
(* new order has the next number.                                           *)
Recovered ==
  /\ tab.step = "unknown" /\ CopiesKept
  /\ tab'.step = "filled" /\ FormTyped(tab'.form)
  /\ tab'.form.n = tab.form.n /\ Same(tab'.form, tab.form) /\ tab'.form.id = tab.form.id + MaxForms
  /\ UNCHANGED <<commerce, balance, wire, forms, effects>>

(* A request that is kept, and any that is served. *)
Keeps(r) == ~Stale(r) /\ Accepted(r) /\ Stored(r)

Served(r) ==
  /\ CopiesKept /\ wire' = wire \ {r}
  /\ Keeps(r) \/ UNCHANGED <<commerce, balance, effects>>
  /\ \/ ~r.heard /\ tab' = tab
     \/ r.heard /\ tab'.step = "idle"
     \/ r.heard /\ tab'.step = "unknown" /\ tab'.form = tab.form
  /\ UNCHANGED forms

(* The answer to a request is given up; the request itself stays on the     *)
(* wire.                                                                    *)
SilentlyLost(r) ==
  /\ CopiesKept /\ r.heard
  /\ tab'.step = "unknown" /\ tab'.form = tab.form
  /\ \E q : /\ RequestTyped(q) /\ ~q.heard /\ wire' = (wire \ {r}) \cup {q}
            /\ q.form = r.form /\ q.orders = r.orders /\ q.ledger = r.ledger
            /\ q.base = r.base /\ q.sends = r.sends
  /\ UNCHANGED <<commerce, balance, forms, effects>>

(* The copies are read again. *)
Refreshed ==
  /\ CopiesKept /\ tab'.step = tab.step /\ tab'.form = tab.form
  /\ UNCHANGED <<commerce, balance, wire, forms, effects>>

(* Somebody else's form, filled in, sent and kept in one step. *)
SavedByOthers ==
  /\ forms < MaxForms /\ forms' = forms + 1
  /\ \E r : /\ Keeps(r) /\ r.form.n = forms + 1
            /\ MadeFrom(r, r.form, commerce.orders, balance, StoreVersions)
  /\ UNCHANGED <<tab, wire>>
=============================================================================
