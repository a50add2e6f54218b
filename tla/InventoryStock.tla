---------------------------- MODULE InventoryStock ----------------------------
(***************************************************************************)
(* Work on the stock: what the inventory and order pages make of the two   *)
(* documents when something is extracted, returned, used, registered or    *)
(* sold, and what the server makes of the documents a page sends.          *)
(* A pair of documents is a record [inv, com].                             *)
(***************************************************************************)
EXTENDS InventoryUsage

CONSTANTS
  Staff,  \* who works with the stock
  Admins  \* those of them who may end customers' use of accounts

ASSUME InventoryStockAssumption == Admins \subseteq Staff /\ IsFiniteSet(Staff)

-----------------------------------------------------------------------------
(* What the page allows, on its copy of the stock and the review list the   *)
(* server sent with it.                                                     *)

Available(inv, review, id) ==
  inv.assets[id].state = "available" /\ id \notin review /\ inv.assets[id].health = "normal"

OwnerAllowed(inv, who, c) == who \in Admins \/ inv.claims[c].owner = who

Reusable(asset) == asset.links = << >> \/ asset.disposition = "recovered"

(* A claim nothing has come of and nothing is waiting for.                  *)
Idle(inv, who, id) ==
  LET c == inv.assets[id].claim IN
    /\ c \in DOMAIN inv.claims /\ OwnerAllowed(inv, who, c)
    /\ inv.claims[c].status = "pending" /\ inv.claims[c].reg = 0
    /\ Reusable(inv.assets[id])

ReturnUnreviewed(inv, review, who, id) ==   \* mutant
  /\ Idle(inv, who, id) /\ inv.claims[inv.assets[id].claim].order = 0
  /\ inv.assets[id].state # "used"

MayReturn(inv, review, who, id) ==
  /\ Idle(inv, who, id) /\ inv.claims[inv.assets[id].claim].order = 0
  /\ inv.assets[id].state # "used" /\ id \notin review

MayUse(inv, who, id) == Idle(inv, who, id) /\ inv.assets[id].state = "claimed"

(* An account can be sold from stock, or by the one who took it for that.   *)
MayDeliver(inv, review, who, id) ==
  \/ Available(inv, review, id)
  \/ /\ inv.assets[id].state = "claimed" /\ inv.assets[id].health = "normal"
     /\ MayReturn(inv, review, who, id)
     /\ LET item == inv.claims[inv.assets[id].claim]
        IN  item.owner = who /\ item.purpose = "delivery"

-----------------------------------------------------------------------------
(* What a form makes of the documents.  A form: op, the assets `ids` it is  *)
(* about, its number n (which its claims, records and orders are named by), *)
(* and what the form's fields say.                                          *)

CreateBatch(inv, ids, n, purpose, who, now) ==
  [inv EXCEPT
     !.claims = [c \in {<<n, id>> : id \in ids} |->
                   [asset |-> c[2], owner |-> who, purpose |-> purpose, at |-> now, status |-> "pending",
                    usedAt |-> 0, returnedAt |-> 0, order |-> 0, reg |-> 0]] @@ @,
     !.assets = [id \in ids |-> [@[id] EXCEPT !.state = "claimed", !.claim = <<n, id>>,
                                              !.version = @ + 1]] @@ @]

Consume(inv, id, link, now) ==
  LET c == inv.assets[id].claim
      taken == IF c \in DOMAIN inv.claims THEN c ELSE NoClaim
  IN  [inv EXCEPT
         !.assets[id] = [@ EXCEPT !.state = "used", !.version = @ + 1,
                                  !.links = Append(@, [link EXCEPT !.at = now, !.claim = taken])],
         !.claims = IF taken = NoClaim THEN @
                    ELSE [@ EXCEPT ![c].status = "used", ![c].usedAt = now, ![c].order = link.order]]

ReturnItems(inv, ids, reason, now) ==
  [inv EXCEPT
     !.claims = [c \in {inv.assets[id].claim : id \in ids} |->
                   [@[c] EXCEPT !.status = IF reason = "unused" THEN "returned" ELSE "abnormal",
                                !.returnedAt = now]] @@ @,
     !.assets = [id \in ids |-> [@[id] EXCEPT !.state = "available", !.claim = NoClaim, !.version = @ + 1,
                                              !.health = IF reason = "unused" THEN "normal" ELSE "dead"]] @@ @]

(* The outcome of a registration done elsewhere with a mailbox, which is    *)
(* claimed by the way if nobody holds it.                                   *)
RegisterOutcome(inv, f, id, who, now) ==
  LET free == inv.assets[id].claim = NoClaim
      held == IF free THEN CreateBatch(inv, {id}, f.n, "registration", who, now) ELSE inv
      c == held.assets[id].claim
      reg == IF f.reg = 0 THEN f.n ELSE f.reg
      by == IF f.reg = 0 THEN who ELSE inv.regs[reg].by
      noted == [held EXCEPT
                  !.regs = (reg :> [asset |-> id, state |-> f.result, by |-> by, at |-> now]) @@ @,
                  !.claims[c].reg = IF f.result = "unsure" THEN reg ELSE 0]
  IN  IF f.result = "done" THEN Consume(noted, id, [Link("registration") EXCEPT !.reg = reg], now)
      ELSE [noted EXCEPT !.assets[id].version = @ + 1]

SubmitUse(inv, id, now) == Consume(inv, id, Link("manual-use"), now)

SetHealth(inv, f, id) == [inv EXCEPT !.assets[id] = [@ EXCEPT !.health = f.text, !.version = @ + 1]]

SaveAsset(inv, f, id, who, now) ==
  [inv EXCEPT !.assets = (id :> NewAsset(f.email, who, now)) @@ @]

PrepareSale(inv, f, id, now) == Consume(inv, id, [Link("order-sale") EXCEPT !.order = f.n], now)

(* Rows the form had taken hold of are no longer the page's when its copy   *)
(* was loaded again under the dialog: what it does to them is lost.         *)
Kept(f, detached, inv, next) ==
  CASE detached /\ f.op \in {"register", "health"} -> [next EXCEPT !.assets = inv.assets]
    [] detached /\ f.op = "use" -> [next EXCEPT !.claims = inv.claims]
    [] OTHER -> next

NewOrder(f, id, email, who, now) ==
  [kind |-> IF f.op = "sale" THEN "delivery" ELSE "renewal", account |-> id, email |-> email,
   customer |-> f.customer, at |-> now, paid |-> FALSE, cancelled |-> FALSE, by |-> who]

(* The page goes ahead.                                                     *)
Ready(docs, review, who, f) ==
  LET inv == docs.inv IN
    CASE f.op = "extract" -> \A id \in f.ids : Available(inv, review, id)
      [] f.op = "return" -> \A id \in f.ids : MayReturn(inv, review, who, id)
      [] f.op = "use" -> \A id \in f.ids : MayUse(inv, who, id)
      [] f.op = "register" -> \A id \in f.ids : /\ inv.assets[id].state # "used"
                                               /\ inv.assets[id].health = "normal"
                                               /\ inv.assets[id].version = f.seen
      [] f.op = "sale" -> \A id \in f.ids : /\ MayDeliver(inv, review, who, id)
                                            /\ inv.assets[id].version = f.seen
      [] f.op = "create" -> f.ids \cap DOMAIN inv.assets = {}
      [] OTHER -> TRUE

Outcome(docs, f, who, now, detached) ==
  LET inv == docs.inv
      com == docs.com
      id == CHOOSE id \in f.ids : TRUE
      Stock(next) == [docs EXCEPT !.inv = Kept(f, detached, inv, next)]
      Entered(account, email) ==
        [com EXCEPT !.orders = (f.n :> NewOrder(f, account, email, who, now)) @@ @]
  IN  CASE f.op = "extract" -> Stock(CreateBatch(inv, f.ids, f.n, f.text, who, now))
        [] f.op = "return" -> Stock(ReturnItems(inv, f.ids, f.text, now))
        [] f.op = "use" -> Stock(SubmitUse(inv, id, now))
        [] f.op = "register" -> Stock(RegisterOutcome(inv, f, id, who, now))
        [] f.op = "health" -> Stock(SetHealth(inv, f, id))
        [] f.op = "create" -> Stock(SaveAsset(inv, f, id, who, now))
        [] f.op = "sale" -> [inv |-> PrepareSale(inv, f, id, now), com |-> Entered(id, inv.assets[id].email)]
        [] f.op = "renew" -> [docs EXCEPT !.com = Entered(f.account, f.email)]
        [] f.op = "pay" -> [docs EXCEPT !.com.orders[f.order].paid = TRUE]
        [] f.op = "cancel" -> [docs EXCEPT !.com.orders[f.order].cancelled = TRUE]
        [] OTHER -> docs

SentBy(f) ==
  CASE f.op = "sale" -> {"inv", "com"}
    [] f.op \in {"renew", "pay", "cancel"} -> {"com"}
    [] OTHER -> {"inv"}

-----------------------------------------------------------------------------
(* The server: what it refuses of the documents sent.                       *)

Consumed(inv, id) ==
  \/ \E c \in DOMAIN inv.claims : inv.claims[c].asset = id /\ inv.claims[c].status = "used"
  \/ \E r \in DOMAIN inv.regs : inv.regs[r].asset = id /\ inv.regs[r].state = "done"

(* What was used stays so, unless it was released to stock.                 *)
AssetKept(prior, next, id) ==
  LET was == prior.assets[id]
      is == next.assets[id]
      used == was.state = "used" \/ was.links # << >> \/ Consumed(prior, id)
      reusable == was.disposition = "recovered" /\ is.state \in {"available", "claimed"}
  IN  /\ IsPrefix(was.links, is.links) /\ was.email = is.email
      /\ used /\ ~reusable => is.state = "used" \/ (was.state # "used" /\ is.state = was.state)

ReturnsUnlinked(prior, next, c) ==   \* mutant
  next.claims[c].status \in {"returned", "abnormal"} => prior.claims[c].order = 0 /\ prior.claims[c].reg = 0

(* A claim's outcome and the state of the asset it held go together.        *)
TransitionKept(prior, next, c) ==
  LET was == prior.claims[c]
      is == next.claims[c]
      asset == next.assets[was.asset]
  IN  prior.assets[was.asset].state = "claimed" /\ prior.assets[was.asset].claim = c =>
        CASE is.status = "pending" -> asset.state = "claimed" /\ asset.claim = c
          [] is.status = "used" -> asset.state = "used"
          [] OTHER -> asset.state = "available" /\ was.order = 0 /\ was.reg = 0

CheckHistory(prior, next, trusted) ==
  /\ \A id \in DOMAIN prior.assets :
       /\ id \in DOMAIN next.assets /\ AssetKept(prior, next, id)
       /\ prior.assets[id].corrected = next.assets[id].corrected
       /\ IsPrefix(prior.assets[id].events, next.assets[id].events)
       /\ ~trusted => prior.assets[id].events = next.assets[id].events
  /\ \A c \in DOMAIN prior.claims :
       LET was == prior.claims[c]
           is == next.claims[c]
       IN  /\ c \in DOMAIN next.claims
           /\ <<was.asset, was.owner, was.purpose, was.at>> = <<is.asset, is.owner, is.purpose, is.at>>
           /\ IF was.status = "pending" THEN TransitionKept(prior, next, c) ELSE is = was
  /\ \A r \in DOMAIN prior.regs :
       r \in DOMAIN next.regs /\ (prior.regs[r].state = "unsure" \/ next.regs[r] = prior.regs[r])

(* The evidence the stock as sent is held against.  A return is judged by   *)
(* the accounts and registrations it would leave.                           *)
ExistingUsage(docs, r, next) ==
  LET seen == Inspect(docs.inv, r.com)
      left == [docs.inv EXCEPT !.regs = next.regs,
                 !.assets = [id \in DOMAIN @ \ Accounts |-> @[id]]
                              @@ [id \in OpenAccounts(next) |-> next.assets[id]]]
      found == IF r.op = "return" THEN DOMAIN Inspect(left, r.com) ELSE {}
  IN  [id \in DOMAIN seen \cup found |-> IF id \in found THEN left.assets[id] ELSE docs.inv.assets[id]]

EvidenceOfSalesOnly(docs, r, next) ==   \* mutant
  r.op = "sale" => \A id \in DOMAIN ExistingUsage(docs, r, next) : PendingClaim(docs.inv, id) = NoClaim

(* Nothing there is evidence of use about is given out, taken back or sold. *)
EvidenceHeeded(docs, r, next) ==
  LET existing == ExistingUsage(docs, r, next) IN
    \A id \in DOMAIN existing :
      LET was == existing[id]
          is == next.assets[id]
      IN  /\ was.state = "claimed" => is.claim = was.claim /\ is.state # "available"
          /\ was.state # "claimed" => is.state # "claimed"
          /\ ~(/\ r.op = "sale" /\ is.state = "used" /\ PendingClaim(docs.inv, id) # NoClaim
               /\ id \in UsageReview(docs.inv, docs.com))

NewOrders(docs, com) == DOMAIN com.orders \ DOMAIN docs.com.orders

RenewalAllowed(docs, com, next) ==
  \A o \in NewOrders(docs, com) :
    LET order == com.orders[o]
        matches == {a \in OpenAccounts(next) : next.assets[a].email = order.email}
    IN  order.kind = "renewal" =>
          IF matches = {} THEN order.account = ""
          ELSE \E a \in matches : /\ matches = {a} /\ order.account \in {"", a}
                                  /\ MayRenew(next, docs.com, a, order.customer)

(* A delivery goes with the sale of an account that was free for it, and an *)
(* account with one delivery until that is released.                        *)
DeliveryAllowed(docs, com, next, who) ==
  \A o \in NewOrders(docs, com) :
    LET order == com.orders[o]
        a == order.account
        was == docs.inv.assets[a]
        is == next.assets[a]
        added == SubSeq(is.links, Len(was.links) + 1, Len(is.links))
        c == PendingClaim(docs.inv, a)
        item == docs.inv.claims[c]
    IN  order.kind = "delivery" =>
          /\ a \in OpenAccounts(docs.inv) /\ a \in OpenAccounts(next)
          /\ ~\E p \in DOMAIN docs.com.orders :
               /\ docs.com.orders[p].kind = "delivery" /\ docs.com.orders[p].account = a
               /\ p \notin ReleasedOrders(was)
          /\ was.state = "available"
               \/ (/\ was.state = "claimed" /\ c # NoClaim /\ item.owner = who /\ item.purpose = "delivery"
                   /\ item.reg = 0 /\ item.order = 0 /\ is.claim = c
                   /\ next.claims[c].status = "used" /\ next.claims[c].order = o)
          /\ was.health = "normal" /\ Reusable(was)
          /\ Len(added) = 1 /\ added[1].kind = "order-sale" /\ added[1].order = o
          /\ is.state = "used" /\ was.email = order.email

(* A renewal belongs to the account held under its address.                 *)
Attached(docs, com, next) ==
  [com EXCEPT !.orders =
     [o \in DOMAIN @ |->
        LET matches == {a \in OpenAccounts(next) : next.assets[a].email = @[o].email}
        IN  IF o \in NewOrders(docs, com) /\ @[o].kind = "renewal" /\ matches # {}
            THEN [@[o] EXCEPT !.account = CHOOSE a \in matches : TRUE] ELSE @[o]]]

(* Sure evidence is applied on every save, but for what was sure and left   *)
(* alone before: that waits for somebody to reconcile it.                   *)
NewMatches(docs, r, next, com) ==
  LET before == Inspect(docs.inv, docs.com)
      found == Inspect(next, com)
      returned == {c[1] : c \in {c \in DOMAIN docs.inv.claims :
                               /\ r.op = "return" /\ docs.inv.claims[c].status = "pending"
                               /\ next.claims[c].status \in {"returned", "abnormal"}}}
      old(id) == /\ r.op # "reconcile" /\ id \in DOMAIN before /\ before[id].used
                 /\ \A c \in {PendingClaim(next, id)} : c = NoClaim \/ c[1] \notin returned
                 /\ SameSource(before[id].evidence, found[id].evidence)
  IN  [id \in {id \in DOMAIN found : ~old(id)} |-> found[id]]

Refusal(docs, r, next, left) ==
  IF "inv" \in r.sends /\ ~CheckHistory(docs.inv, next, FALSE) THEN "history"
  ELSE CASE "inv" \in r.sends /\ ~EvidenceHeeded(docs, r, next) -> "evidence"
         [] ~RenewalAllowed(docs, r.com, next) -> "renewal"
         [] ~DeliveryAllowed(docs, r.com, next, r.who) -> "delivery"
         [] left # next /\ ~CheckHistory(docs.inv, left, TRUE) -> "applied"
         [] OTHER -> "none"

Judged(docs, r, next, com, left) ==
  [refusal |-> Refusal(docs, r, next, left),
   inv |-> [left EXCEPT !.version = docs.inv.version + IF "inv" \in r.sends \/ left # next THEN 1 ELSE 0],
   com |-> [com EXCEPT !.version = docs.com.version + IF "com" \in r.sends THEN 1 ELSE 0]]

WithOrder(docs, com, applied) ==
  IF NewOrders(docs, com) = {} THEN applied ELSE EnterOrder(applied, com, CHOOSE o \in NewOrders(docs, com) : TRUE)

Completed(docs, r, next, com) ==
  Judged(docs, r, next, com, WithOrder(docs, com, ApplyUsage(next, NewMatches(docs, r, next, com))))

(* The documents a save would leave, whether they may be left, and why not. *)
Save(docs, sent) ==
  LET r == IF "com" \in sent.sends THEN sent ELSE [sent EXCEPT !.com = docs.com]
      next == IF "inv" \in r.sends /\ r.op # "reconcile" THEN r.inv ELSE docs.inv
  IN  Completed(docs, r, next, Attached(docs, r.com, next))
=============================================================================
