---------------------------- MODULE InventoryDesk ----------------------------
(***************************************************************************)
(* Staff at the stock: one tab step by step - forms, confirmation dialogs, *)
(* answers that do not arrive, and refreshes that land late - everybody    *)
(* else as Colleague, and the server, which saves pages' documents and     *)
(* carries out administrators' commands.                                   *)
(***************************************************************************)
EXTENDS InventoryStock

CONSTANTS
  MaxForms,   \* bound on the forms filled in, by anybody
  MaxOthers,  \* bound on what others save
  MaxFaults,  \* bound on answers that do not arrive
  MaxLoads,   \* bound on refreshes under way for long
  MaxEvents   \* bound on all of them together

VARIABLES
  docs,    \* the two documents in the database
  tab,     \* who sits there, the tab's copies, its form and how far it is
  wire,    \* the requests under way
  told,    \* per command, what the tab was told of it
  verdict, \* the server's last word
  forms,   \* how many forms were filled in; forms have numbers
  others,  \* how often others saved
  faults,  \* how often an answer did not arrive
  loads    \* how many refreshes were long under way

vars == <<docs, tab, wire, told, verdict, forms, others, faults, loads>>

ASSUME InventoryDeskAssumption ==
  {MaxForms, MaxEvents} \subseteq Nat \ {0} /\ {MaxOthers, MaxFaults, MaxLoads} \subseteq Nat

FirstForms == 4

Room(n) == forms - FirstForms + others + faults + loads + n <= MaxEvents

Commands == {"release", "retire", "correct"}

(* inv and com: the versions of the documents the form was opened on.       *)
Form(op, ids, seen) ==
  [op |-> op, ids |-> ids, n |-> 0, text |-> "", reg |-> 0, result |-> "", order |-> 0, email |-> "",
   customer |-> "", account |-> "", link |-> 0, seen |-> seen, inv |-> 0, com |-> 0]

NoForm == Form("none", {}, 0)

(* A clock that moves with every save.                                      *)
Now == docs.inv.version + docs.com.version

-----------------------------------------------------------------------------
(* The forms the pages offer on a copy of the documents.                    *)

StockForms(d, review, who) ==
  LET inv == d.inv
      all == DOMAIN inv.assets
      free == {id \in all : Available(inv, review, id)}
      mine == {id \in all : MayUse(inv, who, id)}
      open == {id \in all \cap Mailboxes : inv.assets[id].state # "used" /\ inv.assets[id].health = "normal"}
      unsure(id) == LET c == inv.assets[id].claim IN IF c \in DOMAIN inv.claims THEN inv.claims[c].reg ELSE 0
      taken == SUBSET (free \cap Mailboxes) \cup SUBSET (free \cap Accounts)
  IN  UNION {{[Form("extract", ids, 0) EXCEPT !.text = p] : p \in {"delivery", "other product"}} :
               ids \in taken \ {{}}}
        \cup {Form("use", {id}, 0) : id \in mine}
        \cup {[Form("register", {id}, inv.assets[id].version) EXCEPT !.reg = unsure(id), !.result = result] :
                id \in open, result \in {"done", "unsure", "failed"}}
        \cup {[Form("health", {id}, 0) EXCEPT !.text = IF inv.assets[id].health = "normal" THEN "dead" ELSE "normal"] :
                id \in all}
        \cup {[Form("create", {a}, 0) EXCEPT !.email = m] : a \in Accounts \ all, m \in Mailboxes}
        \cup {Form("reconcile", {}, 0) : x \in review}

OrderForms(d, review, who) ==
  LET inv == d.inv
      named(m) == {a \in OpenAccounts(inv) : inv.assets[a].email = m}
  IN  {[Form("sale", {a}, inv.assets[a].version) EXCEPT !.customer = c] :
         a \in {a \in OpenAccounts(inv) : MayDeliver(inv, review, who, a)}, c \in Customers}
        \cup UNION {{[Form("renew", {}, 0) EXCEPT !.email = m, !.customer = c, !.account = a] :
                       c \in Customers, a \in {""} \cup named(m)} : m \in Mailboxes}

(* The forms that begin with reading the stock again.                       *)
ReturnForms(d, review, who) ==
  {[Form("return", ids, 0) EXCEPT !.text = why] :
     ids \in SUBSET {id \in DOMAIN d.inv.assets : MayReturn(d.inv, review, who, id)} \ {{}},
     why \in {"unused", "dead"}}

CommandForms(d, who) ==
  LET Seen(op, id) == Form(op, {id}, d.inv.assets[id].version)
      used == {id \in DOMAIN d.inv.assets : d.inv.assets[id].state = "used"}
  IN  IF who \notin Admins THEN {}
      ELSE {Seen("release", a) : a \in used \cap Accounts}
             \cup {Seen("retire", a) : a \in {a \in used \cap Accounts : d.inv.assets[a].disposition # "retired"}}
             \cup UNION {{[Seen("correct", id) EXCEPT !.link = i] :
                            i \in {i \in DOMAIN d.inv.assets[id].links : MayCorrect(d.inv, id, i)}} : id \in used}

SettlementForms(d) ==
  {[Form("pay", {}, 0) EXCEPT !.order = o] :
     o \in {o \in DOMAIN d.com.orders : ~d.com.orders[o].paid /\ ~d.com.orders[o].cancelled}}
    \cup {[Form("cancel", {}, 0) EXCEPT !.order = o] :
            o \in {o \in DOMAIN d.com.orders : ~d.com.orders[o].cancelled /\ ~d.com.orders[o].paid}}

-----------------------------------------------------------------------------
(* The server.                                                              *)

Versions(d) == [inv |-> d.inv.version, com |-> d.com.version]

(* A command: its number tells whether it was carried out before.           *)
Carried(d, r) ==
  LET f == r.form
      id == CHOOSE id \in f.ids : TRUE
      same == f.inv = d.inv.version
  IN  IF f.op = "correct"
      THEN CASE ~same -> [said |-> "stale", inv |-> d.inv]
             [] same /\ MayCorrect(d.inv, id, f.link) -> [said |-> "stored", inv |-> CorrectUsage(d.inv, d.com, id, f.link)]
             [] OTHER -> [said |-> "unfit", inv |-> d.inv]
      ELSE CASE Receipt(d.inv, id, f.n) -> [said |-> "again", inv |-> d.inv]
             [] OTHER ->
           CASE ~same \/ f.com # d.com.version -> [said |-> "stale", inv |-> d.inv]
             [] d.inv.assets[id].version = f.seen /\ MayEnd(d.inv, d.com, id, f.op) ->
                  [said |-> "stored", inv |-> EndUse(d.inv, d.com, id, f.op, f.n, r.who)]
             [] OTHER -> [said |-> "unfit", inv |-> d.inv]

CommandAnswer(d, done) ==
  [said |-> done.said, com |-> d.com,
   inv |-> IF done.said = "stored" THEN [done.inv EXCEPT !.version = d.inv.version + 1] ELSE d.inv]

(* A save is refused for stale versions first; what the page knew it was    *)
(* not up to date with is told apart from what it took for allowed.         *)
Said(d, r, refusal) ==
  CASE \E x \in r.sends : r.base[x] # Versions(d)[x] -> "stale"
    [] (\A x \in r.sends : r.base[x] = Versions(d)[x]) /\ refusal = "none" -> "stored"
    [] OTHER -> IF r.base # Versions(d) \/ r.seenCom # d.com.version THEN "stale copy"
                ELSE IF r.detached THEN "detached"
                ELSE IF r.op = "renew" THEN "not renewable"
                ELSE IF r.op = "register" /\ r.form.ids \subseteq UsageReview(d.inv, d.com) THEN "used before"
                ELSE "refused"

SaveAnswer(d, r, saved) ==
  LET said == Said(d, r, saved.refusal) IN
    IF said = "stored" THEN [said |-> said, inv |-> saved.inv, com |-> saved.com]
    ELSE [said |-> said, inv |-> d.inv, com |-> d.com]

(* What the server says, and the documents it leaves.                       *)
Answer(d, r) ==
  IF r.op \in Commands THEN CommandAnswer(d, Carried(d, r)) ELSE SaveAnswer(d, r, Save(d, r))

Left(answer) == [inv |-> answer.inv, com |-> answer.com]

-----------------------------------------------------------------------------
(* The tab.  An inventory answer brings the review list and the version of  *)
(* the orders it was made with.                                             *)

Snapshot(d) == [inv |-> d.inv, review |-> UsageReview(d.inv, d.com), com |-> d.com.version]

(* Older stock than what is shown is passed over; the same replaces it, and *)
(* a form submitted before has hold of rows that are not shown any more.    *)
Apply(t, s) ==
  IF s.inv.version < t.inv.version THEN t
  ELSE [t EXCEPT !.inv = s.inv, !.review = s.review, !.seenCom = s.com, !.detached = t.step = "asked"]

(* A load under way is waited for rather than doubled.                      *)
Reread(t, d) ==
  IF t.load = {} THEN Apply(t, Snapshot(d))
  ELSE [Apply(t, CHOOSE s \in t.load : TRUE) EXCEPT !.load = {}]

At(step) == tab.step = step

Put(t, form, step) == [t EXCEPT !.form = form, !.step = step, !.detached = FALSE]

Done(t) == Put(t, NoForm, "idle")

Copies(t) == [inv |-> t.inv, com |-> t.com]

Fills(t, F) ==
  /\ At("idle") /\ forms < MaxForms /\ Room(1)
  /\ \E f \in F :
       tab' = Put(t, [f EXCEPT !.n = forms + 1, !.inv = t.inv.version, !.com = t.seenCom], "asked")
  /\ forms' = forms + 1
  /\ UNCHANGED <<docs, wire, told, verdict, others, faults, loads>>

FillStock == Fills(tab, StockForms(Copies(tab), tab.review, tab.who))
FillOrder == Fills(tab, OrderForms(Copies(tab), tab.review, tab.who))

(* Returns and commands begin with reading the stock.                       *)
FillReturn ==
  LET t == Reread(tab, docs) IN Fills(t, ReturnForms(Copies(t), t.review, t.who))
FillCommand ==
  LET t == Reread(tab, docs) IN Fills(t, CommandForms(Copies(t), t.who))

(* What is confirmed must be the stock as it is shown, or - for orders -    *)
(* the account as it was chosen.                                            *)
Confirm ==
  /\ At("asked")
  /\ LET f == tab.form
         command == f.op \in Commands
         go == command \/ Ready(Copies(tab), tab.review, tab.who, f)
         same == f.inv = tab.inv.version \/ f.op \in {"release", "retire", "reconcile", "sale", "renew"}
         out == IF command THEN Copies(tab) ELSE Outcome(Copies(tab), f, tab.who, Now, tab.detached)
     IN  IF go /\ same
         THEN /\ tab' = [tab EXCEPT !.step = "sent"]
              /\ wire' = wire \cup {[form |-> f, op |-> f.op, who |-> tab.who, heard |-> TRUE,
                                     detached |-> tab.detached, inv |-> out.inv, com |-> out.com,
                                     base |-> Versions(Copies(tab)), seenCom |-> tab.seenCom,
                                     sends |-> SentBy(f)]}
         ELSE tab' = Done(tab) /\ UNCHANGED wire
  /\ UNCHANGED <<docs, told, verdict, forms, others, faults, loads>>

(* The tab after an answer.  A stored document takes the place of the       *)
(* tab's; after a conflict the stock is read again, and after an order      *)
(* could not be saved or nothing was heard of it, the orders.               *)
Heard(r, said, d) ==
  LET stock == IF "inv" \in r.sends THEN (IF said = "stored" THEN Apply(Done(tab), Snapshot(d))
                                          ELSE Reread(Done(tab), d))
               ELSE Done(tab)
  IN  IF "com" \in r.sends THEN [stock EXCEPT !.com = d.com] ELSE stock

Unheard(r, d) == IF "com" \in r.sends THEN [Done(tab) EXCEPT !.com = d.com] ELSE Done(tab)

(* A command that was not confirmed is looked for in the stock, read again  *)
(* if that works; found there, it was carried out, and otherwise the form   *)
(* stays and can be sent again as it is.                                    *)
Settle(r, said, t) ==
  LET id == CHOOSE id \in r.form.ids : TRUE
      found == \E e \in Range(t.inv.assets[id].events) : e.id = r.form.n
      fine == said \in {"stored", "again"} \/ found
  IN  /\ tab' = IF fine \/ r.op = "correct" THEN Done(t) ELSE [t EXCEPT !.step = "draft"]
      /\ told' = IF r.op = "correct" THEN told
                 ELSE [told EXCEPT ![r.form.n] = IF fine THEN "saved" ELSE IF said = "nothing" THEN @ ELSE "refused"]

Lose(n) == faults + n <= MaxFaults /\ Room(n) /\ faults' = faults + n

HearSave(r, a) ==
  /\ docs' = Left(a) /\ verdict' = a.said /\ wire' = wire \ {r}
  /\ \/ ~r.heard /\ UNCHANGED <<tab, faults>>
     \/ r.heard /\ tab' = Heard(r, a.said, docs') /\ UNCHANGED faults
     \/ r.heard /\ Lose(1) /\ tab' = Unheard(r, docs')

ServeSave(r) ==
  /\ r.op \notin Commands
  /\ HearSave(r, Answer(docs, r))
  /\ UNCHANGED <<told, forms, others, loads>>

HearCommand(r, a) ==
  /\ docs' = Left(a) /\ verdict' = a.said /\ wire' = wire \ {r}
  /\ \/ ~r.heard /\ UNCHANGED <<tab, told, faults>>
     \/ r.heard /\ Settle(r, a.said, Reread(tab, docs')) /\ UNCHANGED faults
     \/ r.heard /\ a.said = "stale" /\ Settle(r, a.said, tab) /\ Lose(1)
     \/ r.heard /\ Settle(r, "nothing", Reread(tab, docs')) /\ Lose(1)
     \/ r.heard /\ Settle(r, "nothing", tab) /\ Lose(2)

ServeCommand(r) ==
  /\ r.op \in Commands
  /\ HearCommand(r, Answer(docs, r))
  /\ UNCHANGED <<forms, others, loads>>

(* The tab hears nothing, and the request may be served all the same.       *)
GoSilent(r) ==
  /\ r.heard /\ Lose(1)
  /\ wire' = (wire \ {r}) \cup {[r EXCEPT !.heard = FALSE]}
  /\ IF r.op \in Commands THEN Settle(r, "nothing", Reread(tab, docs))
     ELSE tab' = Unheard(r, docs) /\ UNCHANGED told
  /\ UNCHANGED <<docs, verdict, forms, others, loads>>

(* A command's form is sent again with the number and versions it has, or   *)
(* given up: one to review it has new ones and is another form.             *)
Retry ==
  /\ At("draft")
  /\ tab' = [tab EXCEPT !.step = "asked"]
  /\ UNCHANGED <<docs, wire, told, verdict, forms, others, faults, loads>>

GiveUp ==
  /\ At("draft")
  /\ tab' = Done(tab)
  /\ UNCHANGED <<docs, wire, told, verdict, forms, others, faults, loads>>

(* News makes the tab read; while a form or dialog is open it does not      *)
(* begin to, but what was begun before lands.                               *)
BeginLoad ==
  /\ At("idle") /\ tab.load = {} /\ loads < MaxLoads /\ Room(1)
  /\ tab' = [tab EXCEPT !.load = {Snapshot(docs)}]
  /\ loads' = loads + 1
  /\ UNCHANGED <<docs, wire, told, verdict, forms, others, faults>>

LandLoad ==
  /\ \E s \in tab.load : tab' = [Apply(tab, s) EXCEPT !.load = {}]
  /\ UNCHANGED <<docs, wire, told, verdict, forms, others, faults, loads>>

Refresh ==
  /\ At("idle") /\ tab.load = {} /\ Apply(tab, Snapshot(docs)) # tab
  /\ tab' = Apply(tab, Snapshot(docs))
  /\ UNCHANGED <<docs, wire, told, verdict, forms, others, faults, loads>>

RefreshOrders ==
  /\ At("idle") /\ tab.com # docs.com
  /\ tab' = [tab EXCEPT !.com = docs.com]
  /\ UNCHANGED <<docs, wire, told, verdict, forms, others, faults, loads>>

(* What somebody does with the documents as they are, and the answer.       *)
Does(d, who, filled, n) ==
  LET f == [filled EXCEPT !.n = n, !.inv = d.inv.version, !.com = d.com.version]
      now == d.inv.version + d.com.version
      out == IF f.op \in Commands THEN d ELSE Outcome(d, f, who, now, FALSE)
  IN  Answer(d, [form |-> f, op |-> f.op, who |-> who, detached |-> FALSE, inv |-> out.inv,
                 com |-> out.com, base |-> Versions(d), seenCom |-> d.com.version, sends |-> SentBy(f)])

Stored(answer) == answer.said = "stored" /\ docs' = Left(answer)

Colleague ==
  /\ forms < MaxForms /\ others < MaxOthers /\ Room(2)
  /\ \E who \in Staff :
       LET review == UsageReview(docs.inv, docs.com) IN
         \E f \in StockForms(docs, review, who) \cup OrderForms(docs, review, who)
                   \cup ReturnForms(docs, review, who) \cup CommandForms(docs, who) \cup SettlementForms(docs) :
           Stored(Does(docs, who, f, forms + 1))
  /\ forms' = forms + 1
  /\ others' = others + 1
  /\ UNCHANGED <<tab, wire, told, verdict, faults, loads>>

-----------------------------------------------------------------------------
(* Where the stock stands at first: new; with an account entered before     *)
(* uses were looked for; with an account delivered, taken back, and taken   *)
(* out again; with a mailbox found to be used for an order.                 *)
New ==
  [inv |-> [version |-> 1, assets |-> [m \in Mailboxes |-> NewAsset(m, "", 0)],
            claims |-> << >>, regs |-> << >>],
   com |-> [version |-> 1, orders |-> << >>]]

Someone == CHOOSE who \in Admins : TRUE

Mailbox == CHOOSE m \in Mailboxes : TRUE

Entered == [Form("create", {CHOOSE a \in Accounts : TRUE}, 0) EXCEPT !.email = Mailbox]

Old == [New EXCEPT !.inv = Outcome(New, Entered, Someone, 2, FALSE).inv]

(* The forms that lead there, the account being the only one entered.       *)
FirstForm(d, op) ==
  LET account == CHOOSE a \in Accounts : TRUE
      customer == CHOOSE c \in Customers : TRUE
      seen == d.inv.assets[account].version
  IN  CASE op = "enter" -> Entered
        [] op = "sell" -> [Form("sale", {account}, seen) EXCEPT !.customer = customer]
        [] op = "take back" -> Form("release", {account}, seen)
        [] op = "take out" -> [Form("extract", Accounts, 0) EXCEPT !.text = "delivery"]
        [] op = "take mailbox" -> [Form("extract", {Mailbox}, 0) EXCEPT !.text = "delivery"]
        [] op = "order" -> [Form("renew", {}, 0) EXCEPT !.email = Mailbox, !.customer = customer]
        [] OTHER -> [Form("pay", {}, 0) EXCEPT !.order = 2]

After(ops) ==
  LET stock[n \in 0..Len(ops)] ==
        IF n = 0 THEN New ELSE Left(Does(stock[n - 1], Someone, FirstForm(stock[n - 1], ops[n]), n))
  IN  stock[Len(ops)]

Openings ==
  {<< >>, <<"enter", "sell">>, <<"enter", "sell", "take back">>, <<"enter", "sell", "take back", "take out">>,
   <<"take mailbox", "order", "pay">>}

Init ==
  \E d \in {Old} \cup {After(ops) : ops \in Openings}, who \in Staff :
    /\ docs = d
    /\ tab = [who |-> who, inv |-> d.inv, com |-> d.com, review |-> UsageReview(d.inv, d.com),
              seenCom |-> d.com.version, form |-> NoForm, step |-> "idle", detached |-> FALSE, load |-> {}]
    /\ wire = {} /\ verdict = "none"
    /\ told = [n \in 1..MaxForms |-> "nothing"]
    /\ forms = FirstForms /\ others = 0 /\ faults = 0 /\ loads = 0

Next ==
  \/ FillStock \/ FillOrder \/ FillReturn \/ FillCommand
  \/ Confirm \/ Retry \/ GiveUp
  \/ \E r \in wire : ServeSave(r) \/ ServeCommand(r) \/ GoSilent(r)
  \/ BeginLoad \/ LandLoad \/ Refresh \/ RefreshOrders
  \/ Colleague

Spec == Init /\ [][Next]_vars

-----------------------------------------------------------------------------
(* What has to hold.                                                        *)

(* The stock adds up: what is claimed names an open claim of its own, what  *)
(* is used names none that is open, what is in stock names none, and an     *)
(* account has one delivery that was not taken back, if any, and is then    *)
(* used (createBatch, consume, applyInventoryUsage, changeAccountLifecycle, *)
(* correctInventoryUsage, checkStockDeliveries).                            *)
StockAddsUp ==
  LET inv == docs.inv
      orders == docs.com.orders
      held(a) == {o \in DOMAIN orders : orders[o].kind = "delivery" /\ orders[o].account = a}
                   \ ReleasedOrders(inv.assets[a])
  IN  /\ \A id \in DOMAIN inv.assets :
           LET asset == inv.assets[id] IN
             /\ asset.state = "claimed" <=> PendingClaim(inv, id) # NoClaim
             /\ asset.state = "available" => asset.claim = NoClaim
      /\ \A a \in OpenAccounts(inv) :
           /\ Cardinality(held(a)) <= 1
           /\ held(a) # {} => inv.assets[a].state = "used"

(* What happened stays on record: an outcome of a claim, a registration or  *)
(* a use is taken back by a correction alone, which is itself recorded, and *)
(* releases are not forgotten (checkInventoryHistory, and what the server   *)
(* changes itself: applyInventoryUsage, correctInventoryUsage,              *)
(* changeAccountLifecycle).                                                 *)
HistoryIsKept ==
  [][LET was == docs.inv
         is == docs'.inv
         corrected(id) == was.assets[id].corrected # is.assets[id].corrected
     IN  /\ \A id \in DOMAIN was.assets :
              /\ IsPrefix(was.assets[id].corrected, is.assets[id].corrected)
              /\ IsPrefix(was.assets[id].events, is.assets[id].events)
              /\ ~corrected(id) => IsPrefix(was.assets[id].links, is.assets[id].links)
         /\ \A c \in DOMAIN was.claims :
              ~corrected(was.claims[c].asset) /\ was.claims[c].status # "pending" => is.claims[c] = was.claims[c]
         /\ \A r \in DOMAIN was.regs : was.regs[r].state = "done" => is.regs[r] = was.regs[r]]_docs

(* Nothing is given out or taken back while there is evidence that it was   *)
(* used, whenever that came up (available, returnBlock, saveBatch's check   *)
(* of existing usage).                                                      *)
EvidenceIsHeeded ==
  [][\A id \in DOMAIN docs.inv.assets :
       LET was == docs.inv.assets[id]
           is == docs'.inv.assets[id]
       IN  {was.state, is.state} = {"available", "claimed"} => id \notin UsageReview(docs.inv, docs.com)]_docs

(* Of a command the tab is told the truth, whatever answers are lost: what  *)
(* was refused was not and will not be carried out, and what was saved was  *)
(* (submitAccountLifecycle, saveAccountLifecycle, changeAccountLifecycle).  *)
CommandsAnsweredTruly ==
  \A n \in DOMAIN told :
    LET carried == \E id \in DOMAIN docs.inv.assets : \E e \in Range(docs.inv.assets[id].events) :
                     e.id = n /\ e.action \in {"release", "retire"}
    IN  told[n] # "nothing" => (carried <=> told[n] = "saved")

(* What the page has checked on current copies, review list included, the   *)
(* server does not refuse (returnBlock, useAllowed, available,              *)
(* availableForDelivery against checkInventoryHistory, existingUsage and    *)
(* checkStockDeliveries).  Only the server judges renewals and registrations *)
(* with a mailbox under review; rows replaced under a dialog are refused.   *)
PageAgreesWithServer == verdict # "refused"
=============================================================================
