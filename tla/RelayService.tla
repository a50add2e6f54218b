---------------------------- MODULE RelayService ----------------------------
(***************************************************************************)
(* The Apple relay: hidden addresses registered under main mailboxes at a  *)
(* mail service outside, each with a code its buyer reads his mail with,   *)
(* and the rows of the inventory bound to them.  The server asks that      *)
(* service over the network, so a request is served in steps; what happens *)
(* between two of its answers is one step, the server's own database       *)
(* included.  The two lists of one lookup are read in one step.            *)
(***************************************************************************)
EXTENDS Integers, Sequences, FiniteSets, SequencesExt, FiniteSetsExt, TLC

CONSTANTS
  Mains,      \* addresses of main mailboxes, which are their numbers outside
  Hidden      \* hidden addresses, likewise

VARIABLES
  up,       \* the mail service: per address whether it is there, on, its code and owner
  mail,     \* a mail received: the hidden address it is filed under, or ""
  book,     \* the inventory document: its version, rows, and the claims on them
  calls,    \* requests being served
  asked,    \* how many requests were made; requests have numbers
  replies,  \* answers on their way to the page
  reviews,  \* changes prepared and not confirmed yet
  late,     \* changes sent to the mail service by requests given up since
  codes,    \* the last code given out
  record,   \* the log: resets, syncs and assignments counted, and the codes they made
  plan      \* bound: what may still be asked, and by whom, and what may still go wrong

service == <<up, mail, book, calls, asked, replies, reviews, late, codes, record, plan>>

Addresses == Mains \cup Hidden

ASSUME AddressesAssumption ==
  /\ Mains \cap Hidden = {} /\ "" \notin Addresses
  /\ IsFiniteSet(Addresses)

Nothing == [there |-> FALSE, on |-> FALSE, live |-> FALSE, code |-> 0, owner |-> ""]

Row(email, bound, owner) ==
  [email |-> email, bound |-> bound, owner |-> owner, on |-> TRUE, version |-> 1, claim |-> 0]

NoBook == [version |-> 0, rows |-> << >>]

(* What a request saw and must find again.                                  *)
NoSeen == [versions |-> << >>, identity |-> << >>, code |-> 0, mail |-> ""]

NoReview == [token |-> 0, op |-> "", by |-> "", r |-> 0, to |-> 0, arg |-> 0, seen |-> NoSeen]

-----------------------------------------------------------------------------
(* Rows and what is outside.                                                *)

IsMain(rows, r) == rows[r].owner = 0
MainOf(rows, r) == IF IsMain(rows, r) THEN r ELSE rows[r].owner
Bound(rows, r) == rows[r].bound # ""

Serves(list, row) ==
  /\ row.on /\ row.bound # "" /\ row.bound = row.email
  /\ list[row.bound].there /\ list[row.bound].on

MatchedMain(rows, list, r) == r \in DOMAIN rows /\ IsMain(rows, r) /\ Serves(list, rows[r])

MatchedAlias(rows, list, r) ==
  /\ r \in DOMAIN rows /\ ~IsMain(rows, r) /\ Serves(list, rows[r])
  /\ MatchedMain(rows, list, rows[r].owner)
  /\ list[rows[r].bound].owner = rows[rows[r].owner].bound

Matched(rows, list, r) == MatchedMain(rows, list, r) \/ MatchedAlias(rows, list, r)

Names(list, x, code) == list[x].code = code /\ list[x].live

(* The rows a code names, if there is one and the code has not expired.     *)
FindTarget(rows, list, code) ==
  {r \in DOMAIN rows : Matched(rows, list, r) /\ Names(list, rows[r].bound, code)}

Identity(rows, r) == [m \in {r, MainOf(rows, r)} |-> <<rows[m].email, rows[m].bound>>]

Versions(rows, some) == [r \in some |-> rows[r].version]

(* What an administrator reviewed of a code, and of where a mail is filed.  *)
CodeSeen(rows, list, r) ==
  [NoSeen EXCEPT !.versions = Versions(rows, {r}), !.identity = Identity(rows, r),
                 !.code = list[rows[r].bound].code]

MailSeen(rows, to, source) ==
  [NoSeen EXCEPT !.versions = Versions(rows, {to, rows[to].owner} \cup source),
                 !.identity = Identity(rows, to), !.mail = mail]

-----------------------------------------------------------------------------
(* Requests.                                                                *)

May(by, op) == <<by, op>> \in DOMAIN plan /\ plan[<<by, op>>] > 0
Spend(by, op) == plan' = [plan EXCEPT ![<<by, op>>] = @ - 1]

(* r and to: rows; x: addresses; arg: a code, claim, row or version sent.   *)
(* stale: overtaken since it looked, or its mails read under a code lost.   *)
(* catalog: what codes are taken from; before: the codes in force when it   *)
(* came, which no step uses.                                                *)
Call(by, op, r, to, x, arg, seen) ==
  [n |-> asked + 1, by |-> by, op |-> op, r |-> r, to |-> to, x |-> x, arg |-> arg, seen |-> seen,
   step |-> "asked", rows |-> book.rows, found |-> {}, todo |-> {}, token |-> 0, made |-> 0, stale |-> FALSE,
   catalog |-> << >>, before |-> IF op = "codes" THEN [a \in Addresses |-> up[a].code] ELSE << >>]

Reviewed == {"reset", "assign"}               \* changes with a review before them
Managing == {"register", "saveMain", "import"}
Saving == Managing \cup {"claim"}

(* Only the page's own answers are followed further; saves answer with the  *)
(* document saved.                                                          *)
Answered(c, status, value) ==
  IF c.by # "me" THEN replies
  ELSE replies \cup {[n |-> c.n, op |-> c.op, r |-> c.r, token |-> c.token, status |-> status, value |-> value,
                      doc |-> IF c.op \in Saving /\ status = 200 THEN book' ELSE NoBook]}

Goes(c, next) == calls' = (calls \ {c}) \cup {next} /\ UNCHANGED replies
Ends(c, status, value) == calls' = calls \ {c} /\ replies' = Answered(c, status, value)

PendingIgnored(op, r) == FALSE   \* mutant

(* A confirmed change of this code, or of the mail, is under way.           *)
Pending(op, r) == \E c \in calls : c.op = op /\ c.token # 0 /\ c.r = r

Busy == \E c \in calls : c.op \in Managing

Refused(c) ==
  \/ c.op \in Managing /\ Busy
  \/ c.op = "claim" /\ c.arg # book.version

Arrive(c) ==
  /\ asked' = c.n
  /\ IF Refused(c) THEN replies' = Answered(c, 409, 0) /\ UNCHANGED calls
     ELSE calls' = calls \cup {c} /\ UNCHANGED replies
  /\ UNCHANGED <<up, mail, book, reviews, late, codes, record>>

(* A confirmation arrives: its review is taken, and any other of that mail. *)
Confirm(by, op, token) ==
  LET mine == {v \in reviews : v.token = token /\ v.by = by /\ v.op = op} IN
    /\ asked' = asked + 1
    /\ \E v \in IF mine = {} THEN {NoReview} ELSE mine :
         LET c == [Call(by, op, v.r, v.to, {}, v.arg, v.seen) EXCEPT !.token = token] IN
           IF v = NoReview \/ Pending(op, v.r)
           THEN replies' = Answered(c, 409, 0) /\ UNCHANGED <<calls, reviews>>
           ELSE /\ calls' = calls \cup {c} /\ UNCHANGED replies
                /\ reviews' = reviews \ (IF op = "assign" THEN {w \in reviews : w.op = op} ELSE {v})
    /\ UNCHANGED <<up, mail, book, late, codes, record>>

At(c, ops, step) == c \in calls /\ c.op \in ops /\ c.step = step

Unmoved == <<up, mail, asked, late, codes, plan>>

-----------------------------------------------------------------------------
(* Codes: read, and reset after a review.                                   *)

ReadCode(c) ==
  /\ At(c, {"read"}, "asked")
  /\ IF Matched(c.rows, up, c.r) THEN Ends(c, 200, up[c.rows[c.r].bound].code) ELSE Ends(c, 409, 0)
  /\ UNCHANGED <<Unmoved, book, reviews, record>>

(* A review is entered in place of the asker's earlier ones of the same.    *)
Enter(c, seen) ==
  IF Pending(c.op, c.r) THEN Ends(c, 409, 0) /\ UNCHANGED reviews
  ELSE /\ reviews' = {v \in reviews : ~(v.op = c.op /\ v.r = c.r /\ v.by = c.by)} \cup
            {[token |-> c.n, op |-> c.op, by |-> c.by, r |-> c.r, to |-> c.to, arg |-> c.arg, seen |-> seen]}
       /\ Ends(c, 200, c.n)

PrepareReset(c) ==
  /\ At(c, {"reset"}, "asked") /\ c.token = 0
  /\ IF Matched(c.rows, up, c.r) THEN Enter(c, CodeSeen(c.rows, up, c.r))
     ELSE Ends(c, 409, 0) /\ UNCHANGED reviews
  /\ UNCHANGED <<Unmoved, book, record>>

NoOrder == [op |-> "", x |-> "", owner |-> "", on |-> FALSE]

Sends(c, orders) == Goes(c, [c EXCEPT !.step = "sent", !.todo = orders])

(* The review may have run out while the lookup was under way.              *)
ConfirmReset(c) ==
  /\ At(c, {"reset"}, "asked") /\ c.token # 0
  /\ \/ /\ Matched(c.rows, up, c.r) /\ c.seen = CodeSeen(c.rows, up, c.r)
        /\ Sends(c, {[NoOrder EXCEPT !.op = "reset", !.x = c.rows[c.r].bound]})
     \/ Ends(c, 409, 0)
  /\ UNCHANGED <<Unmoved, book, reviews, record>>

-----------------------------------------------------------------------------
(* Assigning a mail: lookup, then the mails of the main mailbox, with the   *)
(* rows looked at once more.                                                *)

LookForMail(c) ==
  /\ At(c, {"assign"}, "asked")
  /\ IF MatchedAlias(c.rows, up, c.to)
     THEN Goes(c, [c EXCEPT !.step = "found",
                            !.found = {s \in DOMAIN c.rows : MatchedAlias(c.rows, up, s)}])
     ELSE Ends(c, 409, 0)
  /\ UNCHANGED <<Unmoved, book, reviews, record>>

Source(c) == {s \in c.found : c.rows[s].bound = mail}

Unchanged(c, r) ==
  LET row == book.rows[r] IN row.on /\ row.version = c.rows[r].version /\ row.email = c.rows[r].email

(* arg: the row the page showed the mail under.                             *)
Assignable(c) ==
  /\ mail # c.rows[c.to].bound
  /\ IF c.arg = 0 THEN mail = "" ELSE c.arg \in Source(c)
  /\ \A r \in {c.to, c.rows[c.to].owner} \cup Source(c) : Unchanged(c, r)

AssignMail(c) ==
  /\ At(c, {"assign"}, "found")
  /\ LET now == MailSeen(c.rows, c.to, Source(c)) IN
       CASE ~Assignable(c) -> Ends(c, 409, 0) /\ UNCHANGED reviews
         [] Assignable(c) /\ c.token = 0 -> Enter(c, now)
         [] OTHER -> /\ \/ /\ c.seen = now
                           /\ Sends(c, {[NoOrder EXCEPT !.op = "assign", !.x = c.rows[c.to].bound]})
                        \/ Ends(c, 409, 0)
                     /\ UNCHANGED reviews
  /\ UNCHANGED <<Unmoved, book, record>>

-----------------------------------------------------------------------------
(* Changes outside: one order of a request at a time, in time or late.      *)

Recoded(item) == [item EXCEPT !.code = codes + 1, !.live = TRUE]
Switched(item, on) == [item EXCEPT !.on = on]

Took(list, m) ==
  CASE m.op = "reset" -> [list EXCEPT ![m.x] = Recoded(list[m.x])]
    [] m.op = "status" -> [list EXCEPT ![m.x] = Switched(list[m.x], m.on)]
    [] m.op = "register" /\ ~list[m.x].there ->
         [list EXCEPT ![m.x] = [there |-> TRUE, on |-> TRUE, live |-> TRUE, code |-> codes + 1, owner |-> m.owner]]
    [] OTHER -> list

Takes(m) ==
  /\ up' = Took(up, m)
  /\ mail' = IF m.op = "assign" THEN m.x ELSE mail
  /\ codes' = IF m.op \in {"reset", "register"} THEN codes + 1 ELSE codes

Change(c, m) ==
  /\ c \in calls /\ c.step = "sent" /\ m \in c.todo
  /\ Takes(m)
  /\ Goes(c, [c EXCEPT !.todo = @ \ {m}, !.made = codes',
                       !.step = IF c.todo = {m} THEN "done" ELSE "sent"])
  /\ UNCHANGED <<book, asked, reviews, late, record, plan>>

(* A change of a code or of a mail is recorded and answered.                *)
Changed(c) ==
  /\ At(c, Reviewed, "done")
  /\ record' = IF c.op = "reset"
               THEN [count |-> record.count + 1, code |-> [record.code EXCEPT ![c.rows[c.r].bound] = c.made]]
               ELSE [record EXCEPT !.count = @ + 1]
  /\ Ends(c, 200, c.made)
  /\ UNCHANGED <<Unmoved, book, reviews>>

Fault(kind) == May("fault", kind) /\ Spend("fault", kind)

(* Of changes nobody waits for any longer, some still come.                 *)
MayStill(orders) == {late \cup some : some \in SUBSET orders}

(* The mail service does not answer in time: a registration then looks what *)
(* it did, everything else is answered that it is not known.                *)
GiveUp(c) ==
  /\ Fault("lost") /\ c \in calls /\ c.op \in Reviewed \cup Managing /\ c.step \in {"sent", "done"}
  /\ late' \in MayStill(c.todo)
  /\ IF c.op = "register" THEN Goes(c, [c EXCEPT !.step = "done", !.todo = {}]) ELSE Ends(c, 502, 0)
  /\ UNCHANGED <<up, mail, book, asked, reviews, codes, record>>

(* Whoever looked before it, at this code or the mail, has not seen this    *)
(* change.                                                                  *)
Overtakes(m, c) ==
  /\ c.op = m.op /\ c.op \in Reviewed /\ c.step = "sent"
  /\ m.op = "reset" => c.rows[c.r].bound = m.x

Overtaken(m) == {IF Overtakes(m, c) THEN [c EXCEPT !.stale = TRUE] ELSE c : c \in calls}

Late(m) ==
  /\ m \in late /\ late' = late \ {m}
  /\ Takes(m)
  /\ calls' = Overtaken(m)
  /\ UNCHANGED <<book, asked, replies, reviews, record, plan>>

-----------------------------------------------------------------------------
(* Mails asked for by code or for a row: the mailbox is found, a code is    *)
(* verified, the mails are fetched and read, and for the public the mailbox *)
(* is found again.                                                          *)

FindMailbox(c) ==
  /\ At(c, {"public", "query"}, "asked")
  /\ LET targets == FindTarget(c.rows, up, c.arg) IN
       IF Cardinality(targets) # 1 THEN Ends(c, 404, 0)
       ELSE Goes(c, [c EXCEPT !.step = "found", !.found = targets])
  /\ UNCHANGED <<Unmoved, book, reviews, record>>

Target(c) == c.rows[CHOOSE r \in c.found : TRUE].bound

VerifyCode(c) ==
  /\ At(c, {"public", "query"}, "found")
  /\ IF Names(up, Target(c), c.arg) THEN Goes(c, [c EXCEPT !.step = "verified"]) ELSE Ends(c, 404, 0)
  /\ UNCHANGED <<Unmoved, book, reviews, record>>

FindRows(c) ==
  /\ At(c, {"mails"}, "asked")
  /\ IF Matched(c.rows, up, c.r) THEN Goes(c, [c EXCEPT !.step = "verified", !.found = {c.r}])
     ELSE Ends(c, 409, 0)
  /\ UNCHANGED <<Unmoved, book, reviews, record>>

SameRow(c, r) == book.rows[r].on /\ book.rows[r].email = c.rows[r].email

(* The row a mail is shown under, of those of this main mailbox.            *)
ShownUnder(c, m) ==
  LET under == {s \in DOMAIN c.rows : MatchedAlias(c.rows, up, s) /\ c.rows[s].owner = m
                                         /\ c.rows[s].bound = mail /\ SameRow(c, s)}
  IN  IF under = {} THEN 0 ELSE CHOOSE s \in under : TRUE

(* A list asked for with a refresh is counted in the log (arg 1).           *)
ReadMails(c) ==
  /\ At(c, {"public", "query", "mails"}, "verified")
  /\ \E r \in c.found :
       IF ~SameRow(c, r) \/ ~SameRow(c, MainOf(c.rows, r)) THEN Ends(c, 409, 0) /\ UNCHANGED record
       ELSE IF c.op = "public"
       THEN /\ Goes(c, [c EXCEPT !.step = "read", !.rows = book.rows, !.seen = [NoSeen EXCEPT !.identity = Identity(c.rows, r)],
                                 !.stale = ~Names(up, Target(c), c.arg)])
            /\ UNCHANGED record
       ELSE /\ Ends(c, 200, ShownUnder(c, MainOf(c.rows, r)))
            /\ record' = IF c.op = "mails" THEN [record EXCEPT !.count = @ + c.arg] ELSE record
  /\ UNCHANGED <<Unmoved, book, reviews>>

ConfirmedUnasked(c) == TRUE   \* mutant

Confirmed(c) ==
  /\ FindTarget(c.rows, up, c.arg) = c.found
  /\ \A r \in c.found : Identity(c.rows, r) = c.seen.identity

ConfirmMailbox(c) ==
  /\ At(c, {"public"}, "read")
  /\ IF Confirmed(c) THEN Goes(c, [c EXCEPT !.step = "done"]) ELSE Ends(c, 404, 0)
  /\ UNCHANGED <<Unmoved, book, reviews, record>>

AnswerPublic(c) ==
  /\ At(c, {"public"}, "done")
  /\ Ends(c, 200, 0)
  /\ UNCHANGED <<Unmoved, book, reviews, record>>

-----------------------------------------------------------------------------
(* Registering hidden addresses under a main mailbox, or binding a row that *)
(* is there (to): the main mailboxes are looked at, then the addresses,     *)
(* those missing are created, the addresses looked at again, and rows saved *)
(* in one transaction with checks of its own.                               *)

Version(c, r) == c.seen.versions[r]

Registrable(c) ==
  LET p == c.rows[c.r] IN
    /\ p.on /\ p.version = Version(c, c.r) /\ p.bound # "" /\ up[p.bound].there /\ up[p.bound].on
    /\ c.to = 0 \/ LET row == c.rows[c.to] IN
                     row.on /\ row.version = Version(c, c.to) /\ row.owner = c.r /\ row.bound = ""
    /\ \A s \in DOMAIN c.rows \ {c.to} : IsMain(c.rows, s) \/ c.rows[s].email \notin c.x

LookForMain(c) ==
  /\ At(c, {"register"}, "asked")
  /\ IF Registrable(c) THEN Goes(c, [c EXCEPT !.step = "found"]) ELSE Ends(c, 409, 0)
  /\ UNCHANGED <<Unmoved, book, reviews, record>>

Taken(c) ==
  \E x \in c.x : /\ up[x].there
                 /\ \/ ~up[x].on \/ up[x].owner # c.rows[c.r].bound
                    \/ \E s \in DOMAIN c.rows : c.rows[s].bound = x

Missing(c) == {x \in c.x : ~up[x].there}

(* Checked against the rows as they are now.                                *)
StillTheirs(c) ==
  /\ book.rows[c.r].on /\ book.rows[c.r].version = Version(c, c.r)
  /\ c.to = 0 \/ book.rows[c.to].version = Version(c, c.to)

StillOnlyTheirs(c) == StillTheirs(c)   \* mutant

MayRegister(c) ==
  /\ StillTheirs(c)
  /\ \A s \in DOMAIN book.rows \ {c.to} : IsMain(book.rows, s) \/ book.rows[s].email \notin c.x

Renewed(row, x, on) == [row EXCEPT !.bound = x, !.on = on, !.version = @ + 1]
Claimed(row, n) == [row EXCEPT !.claim = n, !.version = @ + 1]

NewRows(c) == SetToSeq({Row(x, x, c.r) : x \in c.x})

SaveAliases(c) ==
  IF ~MayRegister(c) THEN Ends(c, 409, 0) /\ UNCHANGED book
  ELSE /\ book' = [version |-> book.version + 1,
                   rows |-> IF c.to = 0 THEN book.rows \o NewRows(c)
                            ELSE [book.rows EXCEPT ![c.to] = Renewed(book.rows[c.to], book.rows[c.to].email, book.rows[c.to].on)]]
       /\ Ends(c, 200, 0)

LookForAliases(c) ==
  /\ At(c, {"register"}, "found")
  /\ CASE Taken(c) -> Ends(c, 409, 0) /\ UNCHANGED book
       [] ~Taken(c) /\ Missing(c) = {} -> SaveAliases(c)
       [] OTHER -> /\ Sends(c, {[NoOrder EXCEPT !.op = "register", !.x = x, !.owner = c.rows[c.r].bound]
                                  : x \in Missing(c)})
                   /\ UNCHANGED book
  /\ UNCHANGED <<Unmoved, reviews, record>>

LookAgain(c) ==
  /\ At(c, {"register"}, "done")
  /\ CASE Taken(c) -> Ends(c, 409, 0) /\ UNCHANGED book
       [] ~Taken(c) /\ Missing(c) = {} -> SaveAliases(c)
       [] OTHER -> Ends(c, 502, 0) /\ UNCHANGED book
  /\ UNCHANGED <<Unmoved, reviews, record>>

-----------------------------------------------------------------------------
(* Main mailboxes: one added or changed (arg 1: to be on), and all those    *)
(* outside that no row is bound to yet taken over.                          *)

MainNamed(rows, x) == {r \in DOMAIN rows : IsMain(rows, r) /\ rows[r].email = x}

MayManage(c, x) ==
  IF c.r = 0 THEN MainNamed(c.rows, x) = {} /\ ~up[x].there
  ELSE /\ c.rows[c.r].version = Version(c, c.r)
       /\ IF Bound(c.rows, c.r) THEN up[x].there ELSE ~up[x].there /\ c.arg = 1

MainOrders(c, x) ==
  IF c.r = 0 \/ ~Bound(c.rows, c.r) THEN {[NoOrder EXCEPT !.op = "register", !.x = x]}
  ELSE IF c.rows[c.r].on # (c.arg = 1) THEN {[NoOrder EXCEPT !.op = "status", !.x = x, !.on = (c.arg = 1)]}
  ELSE {}

LookForMains(c) ==
  /\ At(c, {"saveMain"}, "asked")
  /\ \E x \in c.x :
       IF ~MayManage(c, x) THEN Ends(c, 409, 0)
       ELSE Goes(c, [c EXCEPT !.todo = MainOrders(c, x),
                              !.step = IF MainOrders(c, x) = {} THEN "done" ELSE "sent"])
  /\ UNCHANGED <<Unmoved, book, reviews, record>>

(* The row is then as the mail service has the mailbox, turned as asked.    *)
TurnedOn(c, x) == IF Bound(c.rows, c.r) /\ c.rows[c.r].on = (c.arg = 1) THEN up[x].on ELSE c.arg = 1

SaveMain(c) ==
  /\ At(c, {"saveMain"}, "done")
  /\ \E x \in c.x :
       LET same == IF c.r = 0 THEN TRUE ELSE book.rows[c.r].version = Version(c, c.r)
           rows == IF c.r = 0 THEN Append(book.rows, Row(x, x, 0))
                   ELSE [book.rows EXCEPT ![c.r] = Renewed(book.rows[c.r], x, TurnedOn(c, x))]
       IN  IF same /\ MainNamed(book.rows, x) \subseteq {c.r}
           THEN book' = [version |-> book.version + 1, rows |-> rows] /\ Ends(c, 200, 0)
           ELSE UNCHANGED book /\ Ends(c, 409, 0)
  /\ UNCHANGED <<Unmoved, reviews, record>>

Unbound(rows) == {x \in Mains : up[x].there /\ \A r \in MainNamed(rows, x) : ~Bound(rows, r)}

ImportMains(c) ==
  /\ At(c, {"import"}, "asked")
  /\ LET new == {x \in Unbound(c.rows) : MainNamed(c.rows, x) = {}}
         old == UNION {MainNamed(c.rows, x) : x \in Unbound(c.rows)}
         kept == /\ \A r \in old : book.rows[r].version = c.rows[r].version
                 /\ \A x \in new : MainNamed(book.rows, x) = {}
         bind == [r \in DOMAIN book.rows |-> IF r \in old THEN Renewed(book.rows[r], book.rows[r].email,
                                                                       up[book.rows[r].email].on)
                                            ELSE book.rows[r]]
     IN  CASE new \cup old = {} -> Ends(c, 204, 0) /\ UNCHANGED book
           [] ~kept -> Ends(c, 409, 0) /\ UNCHANGED book
           [] OTHER -> /\ book' = [version |-> book.version + 1,
                                   rows |-> bind \o SetToSeq({[Row(x, x, 0) EXCEPT !.on = up[x].on] : x \in new})]
                       /\ Ends(c, 200, 0)
  /\ UNCHANGED <<Unmoved, reviews, record>>

-----------------------------------------------------------------------------
(* Claims: which rows may be given out, giving one out (its document was    *)
(* checked when it came and is again), and the codes of those given out.    *)

Extractable(rows, list, r) ==
  MatchedAlias(rows, list, r) /\ list[rows[r].bound].code # 0 /\ list[rows[r].bound].live

Eligible(rows, r) == Extractable(rows, up, r) /\ rows[r].claim = 0

CheckEligibility(c) ==
  /\ At(c, {"eligible"}, "asked")
  /\ Ends(c, 200, IF Eligible(book.rows, c.r) THEN 1 ELSE 0)
  /\ UNCHANGED <<Unmoved, book, reviews, record>>

Claim(c) ==
  /\ At(c, {"claim"}, "asked")
  /\ CASE ~Eligible(book.rows, c.r) -> Ends(c, 503, 0) /\ UNCHANGED book
       [] Eligible(book.rows, c.r) /\ c.arg # book.version -> Ends(c, 409, 0) /\ UNCHANGED book
       [] OTHER -> /\ book' = [version |-> book.version + 1,
                               rows |-> [book.rows EXCEPT ![c.r] = Claimed(book.rows[c.r], c.n)]]
                   /\ Ends(c, 200, c.n)
  /\ UNCHANGED <<Unmoved, reviews, record>>

(* The codes of a claim: a catalog is read outside, the claim checked on it,*)
(* the reading recorded, and the claim checked again on the same catalog,   *)
(* the codes of which go out.  Codes in it expire in the meantime.          *)
ReadCatalog(c) ==
  /\ At(c, {"codes"}, "asked")
  /\ Goes(c, [c EXCEPT !.step = "found", !.catalog = up])
  /\ UNCHANGED <<Unmoved, book, reviews, record>>

Aged(list) ==
  [x \in Addresses |-> [list[x] EXCEPT !.live = @ /\ (up[x].code = list[x].code => up[x].live)]]

Held(c) == {r \in DOMAIN book.rows : book.rows[r].claim = c.arg /\ Extractable(book.rows, Aged(c.catalog), r)}

CheckClaim(c) ==
  /\ At(c, {"codes"}, "found")
  /\ IF Held(c) = {} THEN Ends(c, 409, 0)
     ELSE \E r \in Held(c) : Goes(c, [c EXCEPT !.step = "read", !.found = {r}])
  /\ UNCHANGED <<Unmoved, book, reviews, record>>

CopyCheckedCodes(c) ==   \* mutant
  /\ At(c, {"codes"}, "read")
  /\ \E r \in c.found : Ends(c, 200, c.catalog[book.rows[r].bound].code)
  /\ UNCHANGED <<Unmoved, book, reviews, record>>

CopyCodes(c) ==
  /\ At(c, {"codes"}, "read")
  /\ IF c.found \cap Held(c) = {} THEN Ends(c, 409, 0)
     ELSE \E r \in c.found \cap Held(c) : Ends(c, 200, c.catalog[book.rows[r].bound].code)
  /\ UNCHANGED <<Unmoved, book, reviews, record>>

-----------------------------------------------------------------------------
(* Others: another administrator, a buyer, colleagues at the inventory, and *)
(* what goes wrong.                                                         *)

OtherAsks ==
  \/ May("other", "reset") /\ Spend("other", "reset") /\
     \E r \in {r \in DOMAIN book.rows : Bound(book.rows, r) /\ ~IsMain(book.rows, r)} :
       Arrive(Call("other", "reset", r, 0, {}, 0, NoSeen))
  \/ May("other", "assign") /\ Spend("other", "assign") /\
     \E to \in {r \in DOMAIN book.rows : ~IsMain(book.rows, r)} :
       LET under == {s \in DOMAIN book.rows : ~IsMain(book.rows, s) /\ mail # "" /\ book.rows[s].bound = mail} IN
         Arrive(Call("other", "assign", 0, to, {}, IF under = {} THEN 0 ELSE CHOOSE s \in under : TRUE, NoSeen))
  \/ May("other", "register") /\ Spend("other", "register") /\
     \E r \in {r \in DOMAIN book.rows : IsMain(book.rows, r)}, x \in Hidden :
       Arrive(Call("other", "register", r, 0, {x}, 0, [NoSeen EXCEPT !.versions = Versions(book.rows, {r})]))
  \/ May("other", "query") /\ Spend("other", "query") /\
     \E x \in Addresses : up[x].code > 0 /\ Arrive(Call("other", "query", 0, 0, {}, up[x].code, NoSeen))
  \/ May("buyer", "public") /\ Spend("buyer", "public") /\
     \E x \in Addresses : up[x].code > 0 /\ Arrive(Call("buyer", "public", 0, 0, {}, up[x].code, NoSeen))

(* A review is confirmed by another administrator while it stands.          *)
OtherConfirms ==
  \E v \in reviews : v.by = "other" /\ ~Pending(v.op, v.r) /\ Confirm("other", v.op, v.token) /\ UNCHANGED plan

Saved(rows) == book' = [version |-> book.version + 1, rows |-> rows]

(* A row turned off or on, an address noted by a page that has not heard of *)
(* the relay, a claim returned.                                             *)
ColleagueSaves ==
  /\ \/ May("other", "edit") /\ Spend("other", "edit") /\
        \E r \in DOMAIN book.rows : Saved([book.rows EXCEPT ![r] = Renewed(book.rows[r], book.rows[r].bound, ~book.rows[r].on)])
     \/ May("other", "add") /\ Spend("other", "add") /\
        \E r \in {r \in DOMAIN book.rows : IsMain(book.rows, r)}, x \in Hidden :
          /\ \A s \in DOMAIN book.rows : book.rows[s].email # x
          /\ Saved(Append(book.rows, Row(x, "", r)))
     \/ May("other", "return") /\ Spend("other", "return") /\
        \E r \in {r \in DOMAIN book.rows : book.rows[r].claim # 0} :
          Saved([book.rows EXCEPT ![r] = Claimed(book.rows[r], 0)])
  /\ UNCHANGED <<up, mail, calls, asked, replies, reviews, late, codes, record>>

ReadsOutside(c) ==
  \/ c.step \in {"asked", "found", "verified", "read"} /\ c.op # "claim"
  \/ c.op = "register" /\ c.step = "done"

FailRead(c) ==
  /\ Fault("failed") /\ c \in calls /\ ReadsOutside(c)
  /\ Ends(c, 502, 0)
  /\ UNCHANGED <<up, mail, book, asked, reviews, late, codes, record>>

Expire(x) ==
  /\ Fault("expired") /\ up[x].live
  /\ up' = [up EXCEPT ![x].live = FALSE]
  /\ UNCHANGED <<mail, book, calls, asked, replies, reviews, late, codes, record>>

(* The server stops and starts: nobody is answered, reviews are forgotten.  *)
Unanswered == {c \in calls : c.by = "me"}

Restart ==
  /\ Fault("restart") /\ calls \cup reviews # {}
  /\ late' \in MayStill(UNION {c.todo : c \in {c \in calls : c.step = "sent"}})
  /\ calls' = {} /\ reviews' = {}
  /\ replies' = replies \cup {[n |-> c.n, op |-> c.op, r |-> c.r, token |-> c.token, status |-> 0, value |-> 0,
                               doc |-> NoBook] : c \in Unanswered}
  /\ UNCHANGED <<up, mail, book, asked, codes, record>>

Step(c) ==
  \/ ReadCode(c) \/ PrepareReset(c) \/ ConfirmReset(c)
  \/ LookForMail(c) \/ AssignMail(c) \/ Changed(c)
  \/ \E m \in c.todo : Change(c, m)
  \/ FindMailbox(c) \/ VerifyCode(c) \/ FindRows(c) \/ ReadMails(c) \/ ConfirmMailbox(c) \/ AnswerPublic(c)
  \/ LookForMain(c) \/ LookForAliases(c) \/ LookAgain(c)
  \/ LookForMains(c) \/ SaveMain(c) \/ ImportMains(c)
  \/ CheckEligibility(c) \/ Claim(c) \/ ReadCatalog(c) \/ CheckClaim(c) \/ CopyCodes(c)

Serving ==
  \/ \E c \in calls : Step(c) \/ GiveUp(c) \/ FailRead(c)
  \/ \E m \in late : Late(m)
  \/ OtherAsks \/ OtherConfirms \/ ColleagueSaves
  \/ \E x \in Addresses : Expire(x)
  \/ Restart

-----------------------------------------------------------------------------
(* The inductive invariant.                                                 *)

Listing == [there : BOOLEAN, on : BOOLEAN, live : BOOLEAN, code : Nat, owner : Addresses \cup {""}]
RowRecord == [email : Addresses, bound : Addresses \cup {""}, owner : Nat, on : BOOLEAN,
              version : Nat, claim : Nat]
Order == [op : {"reset", "assign", "register", "status"}, x : Addresses,
          owner : Addresses \cup {""}, on : BOOLEAN]

(* Rows are of different addresses, bound to nothing or to their own; those *)
(* of hidden addresses are under a main mailbox, bound only if it is.       *)
RowsOK(rows) ==
  /\ rows \in Seq(RowRecord)
  /\ \A r, s \in DOMAIN rows : rows[r].email = rows[s].email => r = s
  /\ \A r \in DOMAIN rows :
       /\ rows[r].bound \in {"", rows[r].email}
       /\ IsMain(rows, r) => rows[r].email \in Mains
       /\ ~IsMain(rows, r) => /\ rows[r].email \in Hidden
                              /\ rows[r].owner \in DOMAIN rows /\ IsMain(rows, rows[r].owner)
                              /\ Bound(rows, r) => Bound(rows, rows[r].owner)

BoundOutside(rows, list) ==
  \A r \in DOMAIN rows : Bound(rows, r) =>
    /\ list[rows[r].bound].there
    /\ IsMain(rows, r) \/ list[rows[r].bound].owner = rows[rows[r].owner].bound

(* What was read of the rows earlier: a row keeps its address and its main  *)
(* mailbox, and once bound it stays bound.                                  *)
Before(rows, later) ==
  \A r \in DOMAIN rows :
    /\ r \in DOMAIN later
    /\ later[r].email = rows[r].email /\ later[r].owner = rows[r].owner
    /\ Bound(rows, r) => later[r].bound = rows[r].bound

Snapshot(rows) == RowsOK(rows) /\ Before(rows, book.rows)

WorldOK ==
  /\ up \in [Addresses -> Listing] /\ codes \in Nat /\ asked \in Nat
  /\ \A x \in Addresses : up[x].code <= codes
  /\ RowsOK(book.rows) /\ BoundOutside(book.rows, up)
  /\ late \subseteq Order

(* What a form or a request asks for fits the rows.                         *)
Registers(rows, r, to, x) ==
  /\ r \in DOMAIN rows /\ IsMain(rows, r)
  /\ \/ to = 0 /\ x \subseteq Hidden
     \/ to # 0 /\ to \in DOMAIN rows /\ ~IsMain(rows, to) /\ x = {rows[to].email}

Manages(rows, r, x) ==
  \E m \in Mains :
    /\ x = {m}
    /\ r = 0 \/ (r \in DOMAIN rows /\ IsMain(rows, r) /\ rows[r].email = m)

IsCall(c) ==
  c \in [n : Nat \ {0}, by : {c.by}, op : {c.op}, r : {c.r}, to : {c.to}, x : {c.x}, arg : {c.arg},
         seen : {c.seen}, step : {c.step}, rows : {c.rows}, found : {c.found},
         todo : SUBSET Order, token : Nat, made : {c.made}, stale : BOOLEAN, catalog : {c.catalog}, before : {c.before}]

(* Only what was sent is outstanding; a confirmed change is one order, to   *)
(* what its row is bound to.                                                *)
OrdersFit(c) ==
  /\ c.step # "sent" \/ c.op \notin Reviewed \cup Managing => c.todo = {}
  /\ \A m \in c.todo : m.op = "reset" => c.op = "reset" /\ m.x = c.rows[c.r].bound
  /\ \A m \in c.todo : m.op = "assign" => c.op = "assign"
  /\ c.op = "assign" => c.r = 0
  /\ c.op = "assign" /\ c.step = "found" => c.to \in DOMAIN c.rows /\ Bound(c.rows, c.to)
  /\ c.op \in Reviewed /\ c.step = "sent" => c.token # 0 /\ \E m \in c.todo : c.todo = {m}
  /\ c.op = "reset" /\ c.step = "sent" => c.r \in DOMAIN c.rows /\ Bound(c.rows, c.r)

(* A registration that passed the first look binds to a bound main mailbox. *)
RegisterFits(c) ==
  /\ Registers(c.rows, c.r, c.to, c.x)
  /\ c.step # "asked" => /\ Bound(c.rows, c.r)
                         /\ c.to # 0 => c.rows[c.to].owner = c.r

SaveMainFits(c) ==
  /\ Manages(c.rows, c.r, c.x)
  /\ \A x \in c.x :
       /\ c.step = "done" => up[x].there
       /\ c.step = "sent" => up[x].there \/ c.todo = {[NoOrder EXCEPT !.op = "register", !.x = x]}

(* A code that stopped naming the mailbox found never names it again.       *)
PublicFits(c) ==
  /\ c.arg \in Nat /\ c.arg <= codes
  /\ c.step \in {"found", "verified"} => \E r \in DOMAIN c.rows : c.found = {r} /\ Bound(c.rows, r)
  /\ c.step = "read" /\ c.stale =>
       \E r \in c.found : /\ c.seen.identity[r][2] \in Addresses
                          /\ ~Names(up, c.seen.identity[r][2], c.arg)
  /\ c.step = "done" => ~c.stale

CallFits(c) ==
  /\ IsCall(c) /\ c.n <= asked
  /\ Snapshot(c.rows)
  /\ OrdersFit(c)
  /\ c.op = "register" => RegisterFits(c)
  /\ c.op = "saveMain" => SaveMainFits(c)
  /\ c.op = "public" => PublicFits(c)

(* What was reviewed is still so when the change is outstanding.            *)
Heeded(c) ==
  c.op \in Reviewed /\ c.step = "sent" /\ ~c.stale =>
    IF c.op = "reset" THEN up[c.rows[c.r].bound].code = c.seen.code ELSE mail = c.seen.mail

Confirming(c, d) == c.op \in Reviewed /\ c.op = d.op /\ c.r = d.r /\ c.token # 0 /\ d.token # 0

CallsOK ==
  /\ \A c \in calls : CallFits(c) /\ Heeded(c)
  /\ \A c, d \in calls : Confirming(c, d) => c = d
  /\ \A c, d \in calls : c.op = "codes" /\ c.n = d.n => c = d

RepliesOK ==
  \A a \in replies :
    /\ a.n \in Nat /\ a.n <= asked /\ Snapshot(a.doc.rows)
    /\ \A c \in calls : c.op = "codes" => c.n # a.n

ReviewsOK ==
  \A v \in reviews : v.op \in Reviewed /\ v.token \in Nat \ {0} /\ (v.op = "assign" => v.r = 0)

ServiceOK == WorldOK /\ CallsOK /\ RepliesOK /\ ReviewsOK
=============================================================================
