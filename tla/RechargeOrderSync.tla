------------------------- MODULE RechargeOrderSync --------------------------
(***************************************************************************)
(* Entering the recharge engine's successful jobs as orders:               *)
(* server/recharge-order-sync.mjs with rememberRechargeSessions and        *)
(* applyRechargeOrder of server/local-business.mjs.                        *)
(*                                                                         *)
(* Once a minute a round reads some pages of the engine's sessions,        *)
(* remembers the jobs it found and reads back a few of them; what a        *)
(* readback proves becomes an order or completes one.  Between any two     *)
(* reads the sessions change, the readback may fail or prove less than an  *)
(* earlier one, the process may restart, and staff enter orders for the    *)
(* same cards by hand.                                                     *)
(***************************************************************************)
EXTENDS Naturals, Sequences, SequencesExt

CONSTANTS
  Jobs,
  Early,            \* jobs that ended before the synchronisation was enabled
  Silent,           \* jobs of which the engine's task log shows no success
  Cards, CardOf,    \* the bank card of each job
  FirstUse,         \* jobs that were the first use of their card
  PageSize,         \* sessions in a page
  MaxSessionPages,  \* pages read in a round
  MaxChecks,        \* jobs read back in a round
  Openings          \* which jobs will succeed, and how much may be left then

VARIABLES
  sessions,    \* the engine's successful jobs, newest first
  rows,        \* the order-sync document: a row per job, last checked last
  scanOffset,  \* ... and where the next round goes on
  orders,      \* the orders of the commerce document
  scan,        \* the round under way
  coming,      \* the jobs that succeed sooner or later
  left         \* bound: failed reads and restarts, readbacks that prove only a
               \* part, and orders entered by hand that may still happen

vars == <<sessions, rows, scanOffset, orders, scan, coming, left>>
engine == <<sessions, coming>>

ASSUME OrderSyncAssumption ==
  /\ Early \subseteq Jobs /\ Silent \subseteq Jobs /\ FirstUse \subseteq Jobs
  /\ CardOf \in [Jobs -> Cards]
  /\ {PageSize, MaxSessionPages, MaxChecks} \subseteq Nat \ {0}
  /\ Openings \subseteq [jobs : SUBSET Jobs, left : [faults : Nat, gaps : Nat, manual : Nat]]

(* What a readback may prove: address and plan, the amount paid, the start, *)
(* the last digits of the card, the card, and whether it was its first use. *)
Field == {"order", "paid", "start", "tail", "card", "first"}
Evidence == {E \in SUBSET Field : ("card" \in E => "tail" \in E) /\ ("first" \in E => "card" \in E)}

(* An order keeps the fields it has been given; an order entered by hand    *)
(* has no job.                                                              *)
Order == [job : Jobs \cup {"manual"}, card : Cards, has : SUBSET (Field \ {"first"}),
          fee : {"pending", "applied", "none"}]
SyncRow == [job : Jobs, ordered : BOOLEAN, needs : BOOLEAN, excluded : BOOLEAN,
            checked : BOOLEAN, due : BOOLEAN]

NoScan == [pc |-> "idle", page |-> 0, found |-> << >>, queue |-> << >>]

Init ==
  /\ sessions = << >>
  /\ rows = << >>
  /\ scanOffset = PageSize
  /\ orders = << >>
  /\ scan = NoScan
  /\ \E o \in Openings : coming = o.jobs /\ left = o.left

(***************************************************************************)
(* applyRechargeOrder                                                      *)
(***************************************************************************)
(* Mutant: only an order that is not paid yet is found again.               *)
OldUnpaid(j) == {i \in DOMAIN orders : orders[i].job = j /\ "paid" \notin orders[i].has}

Old(j) == {i \in DOMAIN orders : orders[i].job = j}

(* Mutant: the fees of other orders are not looked at.                      *)
EarlierFeeUnseen(i, card, all) == FALSE

EarlierFee(i, card, all) ==
  \E k \in DOMAIN all : k # i /\ all[k].card = card /\ "card" \in all[k].has /\ all[k].fee = "applied"

(* Mutant: what this readback proves replaces what an earlier one proved.   *)
FilledAnew(old, E) == E \ {"first"}

(* Only what is missing is filled in.                                       *)
Filled(old, E) == old \cup (E \ {"first"})

(* The card's issue fee is decided once card and payment are known, and     *)
(* charged to one order only.                                               *)
FeeOf(i, order, E, all) ==
  LET earlier == EarlierFee(i, order.card, all) IN
  IF order.fee = "pending" /\ "card" \in order.has
       /\ (earlier \/ ("first" \in E /\ "paid" \in order.has))
  THEN IF ~earlier /\ order.job \in FirstUse THEN "applied" ELSE "none"
  ELSE order.fee

WithFee(i, order, E, all) == [order EXCEPT !.fee = FeeOf(i, order, E, all)]

Entered(j, E) ==
  LET i == Len(orders) + 1
      order == [job |-> j, card |-> CardOf[j], has |-> E \ {"first"}, fee |-> "pending"] IN
  Append(orders, WithFee(i, order, E, orders))

(* An existing order is changed when a field was filled, or when the fee of *)
(* a paid one can be decided.                                               *)
Completed(i, E) ==
  LET next == [orders[i] EXCEPT !.has = Filled(@, E)]
      decides == /\ "paid" \in next.has /\ next.fee = "pending"
                 /\ "first" \in E \/ ("card" \in next.has /\ EarlierFee(i, next.card, orders)) IN
  IF next # orders[i] \/ decides
  THEN [orders EXCEPT ![i] = WithFee(i, next, E, orders)] ELSE orders

Applied(j, E) ==
  IF "order" \notin E THEN orders
  ELSE IF Old(j) = {} THEN Entered(j, E)
  ELSE Completed(CHOOSE i \in Old(j) : TRUE, E)

(* What is left to prove; a decided fee needs no proof.                     *)
Needs(E, order) ==
  \/ ~(Field \ {"first"} \subseteq E)
  \/ order.fee = "pending" /\ "first" \notin E

Unordered == [job |-> "manual", card |-> CHOOSE c \in Cards : TRUE, has |-> {}, fee |-> "pending"]
OrderOf(j, all) ==
  LET mine == {i \in DOMAIN all : all[i].job = j} IN
  IF mine = {} THEN Unordered ELSE all[CHOOSE i \in mine : TRUE]

(* The job's row goes to the end, with what is still needed.                *)
Others(r, j) == SelectSeq(r, LAMBDA row : row.job # j)
RowAfter(j, needs, excluded) ==
  Append(Others(rows, j),
    [job |-> j, ordered |-> \E i \in DOMAIN orders' : orders'[i].job = j,
     needs |-> needs, excluded |-> excluded, checked |-> TRUE, due |-> FALSE])

(***************************************************************************)
(* A round                                                                 *)
(***************************************************************************)
JobsIn(r) == {r[i].job : i \in DOMAIN r}
Closed(r) == {row.job : row \in {q \in Range(r) : q.excluded \/ (q.ordered /\ ~q.needs)}}
Checked(r) == {row.job : row \in {q \in Range(r) : q.checked}}
Resting(r) == {row.job : row \in {q \in Range(r) : q.checked /\ ~q.due}}

(* rememberRechargeSessions                                                 *)
Remembered(found) ==
  LET new == SelectSeq(found, LAMBDA j : j \notin JobsIn(rows)) IN
  rows \o [i \in DOMAIN new |-> [job |-> new[i], ordered |-> FALSE, needs |-> TRUE,
                                 excluded |-> FALSE, checked |-> FALSE, due |-> FALSE]]

(* The jobs to be read back: those never checked first, in the order they   *)
(* were found, then those checked longest ago.                              *)
Needing(r) == LET n == SelectSeq(r, LAMBDA row : row.needs) IN [i \in DOMAIN n |-> n[i].job]
Distinct(s) == SelectSeq([i \in DOMAIN s |-> IF \E k \in 1..(i - 1) : s[k] = s[i] THEN "" ELSE s[i]],
                         LAMBDA j : j # "")
Candidates(r, found) ==
  LET all == SelectSeq(Distinct(found \o Needing(r)), LAMBDA j : j \notin Closed(r) \cup Resting(r))
      rest == SelectSeq(r, LAMBDA row : row.checked /\ row.job \in Range(all)) IN
  SelectSeq(all, LAMBDA j : j \notin Checked(r)) \o [i \in DOMAIN rest |-> rest[i].job]

(* As many as a round reads back.                                           *)
Checks(candidates) ==
  SubSeq(candidates, 1, IF Len(candidates) < MaxChecks THEN Len(candidates) ELSE MaxChecks)

Begin ==
  /\ scan.pc = "idle"
  /\ scan' = [NoScan EXCEPT !.pc = "page"]
  /\ UNCHANGED <<engine, rows, scanOffset, orders, left>>

(* An administrator has one job synchronised at once.                       *)
BeginWith(j) ==
  /\ scan.pc = "idle"
  /\ j \in Range(sessions) \ Closed(rows)
  /\ scan' = [NoScan EXCEPT !.pc = "check", !.queue = <<j>>]
  /\ UNCHANGED <<engine, rows, scanOffset, orders, left>>

Offset(page) == IF page = 0 THEN 0 ELSE scanOffset + (page - 1) * PageSize

(* Mutant: every round starts over.                                         *)
NextOffsetStartsOver(offset, end) == PageSize

(* At the end of the list the next round starts over.                       *)
NextOffset(offset, end) == IF end THEN PageSize ELSE offset + PageSize

(* The last page of a round: what was found is remembered, and some of it   *)
(* read back.                                                               *)
EndPages(found, next) ==
  /\ rows' = Remembered(found)
  /\ scanOffset' = next
  /\ \E queue \in {Checks(Candidates(Remembered(found), found))} :
       scan' = IF queue = << >> THEN NoScan ELSE [NoScan EXCEPT !.pc = "check", !.queue = queue]

ReadPage ==
  LET offset == Offset(scan.page)
      items == SubSeq(sessions, offset + 1,
                 IF offset + PageSize < Len(sessions) THEN offset + PageSize ELSE Len(sessions))
      end == offset + Len(items) >= Len(sessions) IN
  /\ scan.pc = "page"
  /\ \E found \in {Distinct(scan.found \o items)} :
       IF ~end /\ scan.page + 1 < MaxSessionPages
       THEN /\ scan' = [scan EXCEPT !.page = @ + 1, !.found = found]
            /\ UNCHANGED <<rows, scanOffset>>
       ELSE EndPages(found, NextOffset(offset, end))
  /\ UNCHANGED <<engine, orders, left>>

Proceeds ==
  scan' = IF Len(scan.queue) = 1 THEN NoScan ELSE [scan EXCEPT !.queue = Tail(@)]
Checking(j) == scan.pc = "check" /\ j = Head(scan.queue)

(* The task log shows no success of this job: on to the next one.           *)
CheckSilent(j) ==
  /\ Checking(j) /\ j \in Silent
  /\ Proceeds
  /\ UNCHANGED <<engine, rows, scanOffset, orders, left>>

TooEarly(j) == j \in Early

(* A job of the time before is excluded once its end is known.              *)
CheckEarly(j) ==
  /\ Checking(j) /\ j \notin Silent /\ TooEarly(j)
  /\ UNCHANGED <<engine, scanOffset, orders, left>>
  /\ \E known \in BOOLEAN : rows' = RowAfter(j, ~known, known)
  /\ Proceeds

Check(j) ==
  /\ Checking(j) /\ j \notin Silent /\ ~TooEarly(j)
  /\ \E E \in IF left.gaps > 0 THEN Evidence ELSE {Field} :
       /\ left' = IF E = Field THEN left ELSE [left EXCEPT !.gaps = @ - 1]
       /\ orders' = Applied(j, E)
       /\ rows' = RowAfter(j, Needs(E, OrderOf(j, orders')), FALSE)
  /\ Proceeds
  /\ UNCHANGED <<engine, scanOffset>>

Faulty == left.faults > 0 /\ left' = [left EXCEPT !.faults = @ - 1]

(* A readback that fails is recorded and tried again later.                 *)
CheckFails(j) ==
  /\ Checking(j)
  /\ Faulty
  /\ UNCHANGED <<engine, scanOffset, orders>>
  /\ rows' = RowAfter(j, TRUE, FALSE)
  /\ Proceeds

(* Another read fails, or the process restarts.                             *)
Breaks ==
  /\ scan.pc # "idle"
  /\ Faulty
  /\ scan' = NoScan
  /\ UNCHANGED <<engine, rows, scanOffset, orders>>

(***************************************************************************)
(* Surroundings                                                            *)
(***************************************************************************)
Succeeds(j) ==
  /\ j \in coming \ Range(sessions)
  /\ sessions' = <<j>> \o sessions
  /\ UNCHANGED <<coming, rows, scanOffset, orders, scan, left>>

(* Fifteen minutes after its check a row may be checked again.              *)
Rests(j) ==
  /\ \E i \in DOMAIN rows :
       /\ rows[i].job = j /\ rows[i].checked /\ ~rows[i].due
       /\ rows' = [rows EXCEPT ![i].due = TRUE]
  /\ UNCHANGED <<engine, scanOffset, orders, scan, left>>

(* deriveCardIssueFee, for an order entered by hand and paid with a card of *)
(* the pool.  The pool is read before the order is saved, so a card that    *)
(* was used in between may still look new.                                  *)
UsedBefore(card) ==
  \E i \in DOMAIN orders :
    orders[i].card = card /\ "card" \in orders[i].has
      /\ ("paid" \in orders[i].has \/ orders[i].fee = "applied")
EnterByHand(card) ==
  /\ left.manual > 0 /\ left' = [left EXCEPT !.manual = @ - 1]
  /\ \E looksNew \in {TRUE, \A j \in Range(sessions) : CardOf[j] # card} :
       orders' = Append(orders,
         [job |-> "manual", card |-> card, has |-> {"order", "paid", "tail", "card", "start"},
          fee |-> IF UsedBefore(card) THEN "none" ELSE IF looksNew THEN "applied" ELSE "pending"])
  /\ UNCHANGED <<engine, rows, scanOffset, scan>>

Next ==
  \/ Begin \/ ReadPage \/ Breaks
  \/ \E j \in Jobs : \/ BeginWith(j) \/ CheckSilent(j) \/ CheckEarly(j) \/ Check(j)
                     \/ CheckFails(j) \/ Succeeds(j) \/ Rests(j)
  \/ \E card \in Cards : EnterByHand(card)

Spec == Init /\ [][Next]_vars

(* A round goes on, the timer finds now and then that no administrator is   *)
(* synchronising, and time passes.                                          *)
FairSpec ==
  /\ Spec
  /\ WF_vars(ReadPage \/ \E j \in Jobs : CheckSilent(j) \/ CheckEarly(j) \/ Check(j) \/ CheckFails(j))
  /\ SF_vars(Begin)
  /\ \A j \in Jobs : WF_vars(Rests(j))

(***************************************************************************)
(* Properties                                                              *)
(***************************************************************************)
(* Every variable has its type.                                             *)
TypeOK ==
  /\ Range(sessions) \subseteq Jobs
  /\ Range(rows) \subseteq SyncRow /\ \A i, k \in DOMAIN rows : rows[i].job = rows[k].job => i = k
  /\ scanOffset % PageSize = 0 /\ scanOffset # 0
  /\ Range(orders) \subseteq Order
  /\ scan.pc \in {"idle", "page", "check"}
  /\ Range(scan.queue) \subseteq Jobs /\ Len(scan.queue) <= MaxChecks
  /\ scan.pc = "check" => scan.queue # << >>
  /\ Range(sessions) \subseteq coming

(* However often a job is read back, it becomes one order.                  *)
OneOrderPerJob ==
  \A i, k \in DOMAIN orders :
    orders[i].job = orders[k].job /\ orders[i].job # "manual" => i = k

(* A card's issue fee is charged to at most one order, whether entered by   *)
(* hand or from the engine, and in whatever order their proofs arrive.      *)
OneIssueFeePerCard ==
  \A i, k \in DOMAIN orders :
    orders[i].fee = "applied" /\ orders[k].fee = "applied" /\ orders[i].card = orders[k].card
      => i = k

(* A later readback that proves less never takes away what is on record,    *)
(* and a fee that was decided stays decided.                                *)
NothingForgotten ==
  [][\A i \in DOMAIN orders :
       /\ i \in DOMAIN orders'
       /\ orders'[i].job = orders[i].job /\ orders[i].has \subseteq orders'[i].has
       /\ orders[i].fee # "pending" => orders'[i].fee = orders[i].fee]_orders

(* Every success that the engine can prove becomes an order, however the    *)
(* list of sessions moves under the reader.                                 *)
EverySuccessIsEntered ==
  \A j \in Jobs \ (Early \cup Silent) :
    j \in Range(sessions) ~> \E i \in DOMAIN orders : orders[i].job = j

(***************************************************************************)
(* The inductive invariant                                                 *)
(***************************************************************************)
(* A charged fee is the only one of its card, and its order names the card: *)
(* that is how the next order of the card finds it.                         *)
OrdersOK(os) ==
  /\ os \in Seq(Order)
  /\ \A i, k \in DOMAIN os : os[i].job = os[k].job /\ os[i].job # "manual" => i = k
  /\ \A i, k \in DOMAIN os :
       os[i].fee = "applied" /\ os[k].fee = "applied" /\ os[i].card = os[k].card => i = k
  /\ \A i \in DOMAIN os : os[i].fee = "applied" => "card" \in os[i].has

IInv == OrdersOK(orders)
=============================================================================
