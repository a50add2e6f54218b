---------------------------- MODULE InventoryUsage ----------------------------
(***************************************************************************)
(* Stock - mailboxes and the accounts registered with them - and what it   *)
(* has been used for: evidence of use found among registrations, accounts  *)
(* and orders and applied to the stock, its correction by an               *)
(* administrator, and the ending of a customer's use of an account.        *)
(* Operators on the inventory and on the orders, as the server runs them   *)
(* inside its transactions.                                                *)
(***************************************************************************)
EXTENDS Integers, Sequences, SequencesExt, FiniteSetsExt

CONSTANTS
  Mailboxes,  \* mailboxes; a mailbox's name is its address
  Accounts,   \* identities of accounts, each registered with one mailbox
  Customers   \* who orders

ASSUME InventoryUsageAssumption ==
  /\ IsFiniteSet(Mailboxes) /\ IsFiniteSet(Accounts) /\ Mailboxes \cap Accounts = {}
  /\ "" \notin Mailboxes \cup Accounts \cup Customers

NoClaim == << >>

NewAsset(email, by, since) ==
  [email |-> email, by |-> by, since |-> since, state |-> "available", claim |-> NoClaim,
   links |-> << >>, corrected |-> << >>, events |-> << >>, disposition |-> "new",
   customer |-> "", health |-> "normal", version |-> 1]

Link(kind) ==
  [kind |-> kind, account |-> "", order |-> 0, reg |-> 0, auto |-> FALSE, at |-> 0, claim |-> NoClaim]

OpenAccounts(inv) == DOMAIN inv.assets \cap Accounts

(* The claim an asset is held by, while nothing has come of it.             *)
PendingClaim(inv, id) ==
  LET c == inv.assets[id].claim IN
    IF c \in DOMAIN inv.claims /\ inv.claims[c].asset = id /\ inv.claims[c].status = "pending"
    THEN c ELSE NoClaim

-----------------------------------------------------------------------------
(* Evidence of use.                                                         *)

RegistrationEvidence(inv, id) ==
  {[kind |-> "registration", account |-> "", order |-> 0, reg |-> r, by |-> inv.regs[r].by,
    at |-> inv.regs[r].at, pending |-> inv.regs[r].state = "unsure", rank |-> 200 + r] :
     r \in {r \in DOMAIN inv.regs : inv.regs[r].asset = id /\ inv.regs[r].state \in {"unsure", "done"}}}

AccountEvidence(inv, id) ==
  {[kind |-> "registration", account |-> a, order |-> 0, reg |-> 0, by |-> inv.assets[a].by,
    at |-> inv.assets[a].since, pending |-> FALSE, rank |-> 100] :
     a \in {a \in OpenAccounts(inv) : id \in Mailboxes /\ inv.assets[a].email = id}}

Confirmed(order) == order.kind = "delivery" \/ order.paid

(* An order speaks for the account it names or, naming none, for what is    *)
(* held under its address.                                                  *)
Concerns(inv, order, id) ==
  LET owners == {a \in OpenAccounts(inv) : inv.assets[a].email = order.email /\ order.account \in {"", a}}
      held == inv.assets[id].state = "claimed"
  IN  /\ inv.assets[id].email = order.email
      /\ ~order.cancelled \/ Confirmed(order)
      /\ IF id \in Mailboxes THEN held \/ (order.account # "" /\ Cardinality(owners) = 1)
         ELSE id \in owners /\ (held \/ order.account # "")

OrderEvidence(inv, com, id) ==
  {[kind |-> "order-use", account |-> "", order |-> o, reg |-> 0, by |-> com.orders[o].by,
    at |-> com.orders[o].at, pending |-> ~Confirmed(com.orders[o]), rank |-> o] :
     o \in {o \in DOMAIN com.orders : Concerns(inv, com.orders[o], id)}}

SameSource(link, e) ==
  link.kind = e.kind /\ link.account = e.account /\ link.order = e.order /\ link.reg = e.reg

(* A mailbox used for an order may still get the registration it lacks.     *)
Supplements(asset, e) ==
  /\ asset.state = "used" /\ e.kind = "registration"
  /\ \E link \in Range(asset.links) : link.kind = "order-use"
  /\ \A link \in Range(asset.links) : link.kind # "registration"

Considered(inv, com, id) ==
  LET asset == inv.assets[id] IN
    {e \in RegistrationEvidence(inv, id) \cup AccountEvidence(inv, id) \cup OrderEvidence(inv, com, id) :
       /\ \A c \in Range(asset.corrected) : ~SameSource(c.link, e)
       /\ (asset.state # "used" /\ asset.links = << >>) \/ Supplements(asset, e)}

LastReturn(inv, id) ==
  Max({-1} \cup {inv.claims[c].returnedAt :
                   c \in {c \in DOMAIN inv.claims : inv.claims[c].asset = id
                                                    /\ inv.claims[c].status \in {"returned", "abnormal"}}})

(* What keeps evidence from being taken for use without a person's look.    *)
Doubtful(inv, id, e) ==
  LET c == PendingClaim(inv, id)
      item == inv.claims[c]
  IN  \/ e.pending
      \/ \E r \in DOMAIN inv.regs : inv.regs[r].asset = id /\ inv.regs[r].state = "unsure"
      \/ e.at <= LastReturn(inv, id)
      \/ inv.assets[id].state = "claimed" /\ c = NoClaim
      \/ c # NoClaim /\ (\/ item.reg \notin {0, e.reg} \/ item.order \notin {0, e.order}
                         \/ item.owner # e.by \/ item.purpose = "other product" \/ e.at < item.at)

Inspect(inv, com) ==
  [id \in {id \in DOMAIN inv.assets : Considered(inv, com, id) # {}} |->
     LET all == Considered(inv, com, id)
         sure == {e \in all : ~Doubtful(inv, id, e)}
         from == IF sure = {} THEN all ELSE sure
     IN  [used |-> sure # {}, evidence |-> CHOOSE e \in from : \A x \in from : x.rank <= e.rank]]

UsageReview(inv, com) == DOMAIN Inspect(inv, com)

-----------------------------------------------------------------------------
(* Evidence applied: the asset, its links and the claim it is held by.      *)

EvidenceLink(e, c) ==
  [kind |-> e.kind, account |-> e.account, order |-> e.order, reg |-> e.reg,
   auto |-> TRUE, at |-> e.at, claim |-> c]

ItemUsed(item, e) ==
  [item EXCEPT !.status = "used", !.usedAt = e.at, !.order = e.order,
               !.reg = IF e.reg # 0 THEN e.reg ELSE @]

ApplyUsage(inv, matches) ==
  LET used == {id \in DOMAIN matches : matches[id].used}
      Match(c) == {id \in used : PendingClaim(inv, id) = c}
  IN  [inv EXCEPT
         !.assets = [id \in DOMAIN inv.assets |->
            IF id \notin used THEN inv.assets[id]
            ELSE [inv.assets[id] EXCEPT !.state = "used", !.version = @ + 1,
                    !.links = Append(@, EvidenceLink(matches[id].evidence, PendingClaim(inv, id)))]],
         !.claims = [c \in DOMAIN inv.claims |->
            IF Match(c) = {} THEN inv.claims[c]
            ELSE ItemUsed(inv.claims[c], matches[CHOOSE id \in Match(c) : TRUE].evidence)]]

-----------------------------------------------------------------------------
(* A wrong link is taken back: the asset returns to the claim it was used   *)
(* from, or to stock, unless something else says it was used.               *)

Correctable(link) ==
  link.auto /\ (link.kind = "order-use" \/ (link.kind = "registration" /\ link.account # ""))

MayCorrect(inv, id, i) ==
  /\ id \in DOMAIN inv.assets /\ inv.assets[id].state = "used"
  /\ i \in DOMAIN inv.assets[id].links /\ Correctable(inv.assets[id].links[i])

(* The used item the asset's claim names, if any.                           *)
UsedItem(inv, id) ==
  LET c == inv.assets[id].claim IN
    IF c \in DOMAIN inv.claims /\ inv.claims[c].status = "used" THEN c ELSE NoClaim

ClaimFollows(inv, id, link) ==
  LET c == UsedItem(inv, id)
      item == inv.claims[c]
      earlier == {x \in Range(inv.assets[id].corrected) : x.claim = c}
  IN  /\ c # NoClaim
      /\ link.claim = c \/ (item.usedAt = link.at /\ earlier # {})
      /\ item.reg = 0 /\ item.order = link.order

IndependentUse(inv, com, id) ==
  \/ \E r \in DOMAIN inv.regs : inv.regs[r].asset = id /\ inv.regs[r].state \in {"done", "unsure"}
  \/ \E c \in DOMAIN inv.claims \ {UsedItem(inv, id)} :
       inv.claims[c].asset = id /\ inv.claims[c].status \in {"used", "pending"}
  \/ id \in Accounts /\ \E o \in DOMAIN com.orders :
       com.orders[o].account = id /\ (com.orders[o].kind = "delivery" \/ ~com.orders[o].cancelled)

TakeLinkBack(inv, com, id, i) ==   \* mutant
  [inv EXCEPT !.assets[id] = [@ EXCEPT !.links = RemoveAt(@, i), !.version = @ + 1,
                                       !.state = IF Len(inv.assets[id].links) = 1 THEN "available" ELSE @]]

CorrectUsage(inv, com, id, i) ==
  LET asset == inv.assets[id]
      link == asset.links[i]
      left == RemoveAt(asset.links, i)
      c == UsedItem(inv, id)
      alone == left = << >> /\ ~IndependentUse(inv, com, id)
      follows == ClaimFollows(inv, id, link) /\ (left # << >> \/ alone)
      item == IF left = << >>
              THEN [inv.claims[c] EXCEPT !.status = "pending", !.usedAt = 0, !.order = 0]
              ELSE [inv.claims[c] EXCEPT !.usedAt = left[1].at, !.order = left[1].order]
      state == IF alone /\ ClaimFollows(inv, id, link) THEN "claimed"
               ELSE IF alone /\ asset.claim = NoClaim THEN "available" ELSE "used"
      corrected == [inv EXCEPT
         !.claims = IF follows THEN [@ EXCEPT ![c] = item] ELSE @,
         !.assets[id] = [asset EXCEPT !.links = left, !.state = state, !.version = @ + 1,
            !.corrected = Append(@, [link |-> link, claim |-> IF follows THEN c ELSE NoClaim])]]
      again == Inspect(corrected, com)
  IN  ApplyUsage(corrected, [x \in DOMAIN again \cap {id} |-> again[x]])

-----------------------------------------------------------------------------
(* Whose an account is, and the end of a customer's use of it.              *)

ReleasedOrders(account) ==
  UNION {e.orders : e \in {e \in Range(account.events) : e.action \in {"release", "retire"}}}

RelatedOrders(inv, com, a) ==
  LET named == {link.order : link \in Range(inv.assets[a].links)}
      same == {o \in DOMAIN com.orders : com.orders[o].email = inv.assets[a].email}
      direct == {o \in same : com.orders[o].account = a \/ o \in named}
      customers == {com.orders[o].customer : o \in direct}
  IN  direct \cup {o \in same : com.orders[o].kind = "renewal" /\ com.orders[o].customer \in customers}

CycleOrders(inv, com, a) == RelatedOrders(inv, com, a) \ ReleasedOrders(inv.assets[a])

Closed(account) == account.disposition \in {"recovered", "retired"}

CurrentCustomers(inv, com, a) ==
  IF Closed(inv.assets[a]) THEN {}
  ELSE {com.orders[o].customer : o \in {o \in CycleOrders(inv, com, a) : ~com.orders[o].cancelled}}

(* Nobody renews an account but the one customer it is with.                *)
MayRenew(inv, com, a, customer) ==
  LET account == inv.assets[a] IN
    /\ ~Closed(account) /\ account.state = "used"
    /\ \E one \in CurrentCustomers(inv, com, a) :
         /\ CurrentCustomers(inv, com, a) = {one}
         /\ customer = IF account.customer # "" THEN account.customer ELSE one

NoReceipt(inv, a, command) == FALSE   \* mutant

Receipt(inv, a, command) == \E e \in Range(inv.assets[a].events) : e.id = command

MayEnd(inv, com, a, action) ==
  LET account == inv.assets[a] IN
    /\ account.state = "used"
    /\ action = "retire" => account.disposition # "retired"
    /\ action = "release" => account.health = "normal"
    /\ Cardinality(CurrentCustomers(inv, com, a)) <= 1

EndUse(inv, com, a, action, command, by) ==
  [inv EXCEPT !.assets[a] =
     [@ EXCEPT !.events = Append(@, [id |-> command, action |-> action, by |-> by,
                                     orders |-> CycleOrders(inv, com, a)]),
               !.disposition = IF action = "release" THEN "recovered" ELSE "retired",
               !.state = IF action = "release" THEN "available" ELSE "used",
               !.customer = "", !.claim = NoClaim, !.version = @ + 1]]

(* New orders are entered in the history of the accounts they name.         *)
EnterOrder(inv, com, o) ==
  LET order == com.orders[o]
      a == order.account
      event == [id |-> o, action |-> IF order.kind = "delivery" THEN "assign" ELSE "renew",
                by |-> order.by, orders |-> {o}]
      renewed == IF order.kind = "delivery" THEN << >>
                 ELSE <<[Link("order-renewal") EXCEPT !.order = o]>>
  IN  IF a \notin OpenAccounts(inv) THEN inv
      ELSE [inv EXCEPT !.assets[a] =
              [@ EXCEPT !.events = Append(@, event), !.links = @ \o renewed,
                        !.version = @ + Len(renewed),
                        !.disposition = IF order.kind = "delivery" THEN "in_use" ELSE @,
                        !.customer = IF order.kind = "delivery" THEN order.customer ELSE @]]
=============================================================================
