------------------------------ MODULE RelayDesk ------------------------------
(***************************************************************************)
(* The page of the Apple relay in one administrator's tab: rows with the   *)
(* codes of the hidden addresses bound, each read through the tab's cache; *)
(* a drawer with the form, the review or the result of one change; and the *)
(* list of mails.  An inventory, a status or a document saved is taken     *)
(* over in the step it is asked for in; the cache, the drawers and the     *)
(* changes announced while one is open are what is told apart.             *)
(***************************************************************************)
EXTENDS RelayService

CONSTANT Openings  \* what is registered at the start, and who may ask for what

(* Rows and mail service agree at the start, and codes were given out.      *)
ASSUME OpeningsAssumption ==
  \A o \in Openings :
    /\ o.up \in [Addresses -> Listing] /\ o.codes \in Nat
    /\ \A x \in Addresses : o.up[x].code <= o.codes
    /\ RowsOK(o.book.rows) /\ BoundOutside(o.book.rows, o.up)

VARIABLES
  page,    \* the rows of the inventory the tab holds, with their version, and those bound
  cells,   \* per hidden address on the page: the code shown, or the request waited for
  cache,   \* per hidden address: the code last read, and the request under way
  drawer,  \* the form open, and how far it is
  list,    \* the mails: the newest request, and the row the mail is shown under
  heard,   \* the versions last announced to the tab
  news     \* whether something was announced and not taken up yet

vars == <<service, page, cells, cache, drawer, list, heard, news>>

Desk == <<page, cells, cache, drawer, list>>

Aliases(rows) == {r \in DOMAIN rows : ~IsMain(rows, r)}

(* What the server reports as bound: it does not ask outside for that.      *)
BoundRows(rows) ==
  {r \in DOMAIN rows : rows[r].on /\ Bound(rows, r) /\ rows[MainOf(rows, r)].on /\ Bound(rows, MainOf(rows, r))}

(* overtaken: the value came with a reset's answer after a later reset.     *)
NoEntry(shot) == [shot |-> shot, value |-> 0, stale |-> TRUE, pending |-> 0, overtaken |-> FALSE]
NoCell == [value |-> 0, waits |-> 0]

Closed == [kind |-> "", step |-> "", r |-> 0, to |-> 0, x |-> {}, arg |-> 0, n |-> 0, token |-> 0,
           value |-> 0, seen |-> NoSeen]

-----------------------------------------------------------------------------
(* Codes on the page.                                                       *)

Shot(rows, r) == <<rows[r].version, rows[rows[r].owner].version>>

(* The cache's entry for the row as it is now.                              *)
Entry(pg, kept, r) ==
  IF r \in DOMAIN kept /\ kept[r].shot = Shot(pg.rows, r) THEN kept[r] ELSE NoEntry(Shot(pg.rows, r))

Wanted(e, refresh) == e.pending = 0 /\ (refresh \/ e.value = 0 \/ e.stale)

(* Cells of some rows are filled from the cache; what it lacks is asked for.*)
Loads(pg, kept, some, refresh) ==
  LET want == {r \in some : Wanted(Entry(pg, kept, r), refresh)}
      number(r) == asked + Cardinality({s \in want : s <= r})
      entry(r) == IF r \in want THEN [Entry(pg, kept, r) EXCEPT !.pending = number(r)] ELSE Entry(pg, kept, r)
      cell(r) == IF entry(r).pending # 0 THEN [value |-> 0, waits |-> entry(r).pending]
                 ELSE [value |-> entry(r).value, waits |-> 0]
  IN  /\ cache' = [r \in Aliases(pg.rows) |-> IF r \in some THEN entry(r) ELSE Entry(pg, kept, r)]
      /\ cells' = [r \in Aliases(pg.rows) |->
                     CASE r \in some -> cell(r)
                       [] r \notin some /\ refresh /\ r \in DOMAIN cells -> cells[r]
                       [] OTHER -> NoCell]
      /\ calls' = calls \cup {[Call("me", "read", r, 0, {}, 0, NoSeen) EXCEPT !.n = number(r)] : r \in want}
      /\ asked' = asked + Cardinality(want)

(* Every render makes the cells anew.                                       *)
Renders(pg, kept) == page' = pg /\ Loads(pg, kept, Aliases(pg.rows) \cap pg.bound, FALSE)

Forgotten(kept) == [r \in DOMAIN kept |-> [kept[r] EXCEPT !.stale = TRUE, !.pending = 0]]

(* The cache of this page is dropped when a change was made from it ...     *)
KeptByWrite(kept) == kept   \* mutant
AfterWrite(kept) == Forgotten(kept)

(* ... or announced.                                                        *)
KeptByNews(kept) == kept   \* mutant
AfterNews(kept) == Forgotten(kept)

SomebodysWork == UNCHANGED <<up, mail, book, reviews, late, codes, record>>

Render ==
  /\ May("me", "render") /\ Spend("me", "render")
  /\ Renders(page, cache)
  /\ SomebodysWork /\ UNCHANGED <<replies, drawer, list, heard, news>>

RetryCode(r) ==
  /\ May("me", "render") /\ Spend("me", "render")
  /\ r \in DOMAIN cells \cap page.bound /\ cells[r] = NoCell
  /\ Loads(page, cache, {r}, TRUE)
  /\ SomebodysWork /\ UNCHANGED <<replies, page, drawer, list, heard, news>>

(* A code read is shown where it is still waited for; an answer the cache   *)
(* no longer waits for counts as failed.                                    *)
HearCode(a) ==
  /\ a \in replies /\ a.op = "read" /\ replies' = replies \ {a}
  /\ LET waited(r) == cache[r].pending = a.n
         shown(r) == waited(r) /\ a.status = 200 /\ cache[r].shot = Shot(page.rows, r) IN
       /\ cells' = [r \in DOMAIN cells |->
                      IF cells[r].waits = a.n THEN [value |-> IF shown(r) THEN a.value ELSE 0, waits |-> 0]
                      ELSE cells[r]]
       /\ cache' = [r \in DOMAIN cache |->
                      CASE waited(r) /\ a.status = 200 -> [cache[r] EXCEPT !.value = a.value, !.stale = FALSE, !.pending = 0, !.overtaken = FALSE]
                        [] waited(r) /\ a.status # 200 -> [cache[r] EXCEPT !.stale = TRUE, !.pending = 0]
                        [] OTHER -> cache[r]]
  /\ drawer' = IF drawer.kind = "code" /\ drawer.n = a.n
               THEN [drawer EXCEPT !.step = "shown", !.value = a.value] ELSE drawer
  /\ SomebodysWork /\ UNCHANGED <<calls, asked, plan, page, list, heard, news>>

-----------------------------------------------------------------------------
(* Drawers.  A form may be closed at any time; what it sent is carried out. *)

Idle == drawer.kind = ""

Opens(op, d) ==
  /\ Idle /\ May("me", op) /\ Spend("me", op)
  /\ drawer' = d
  /\ UNCHANGED <<up, mail, book, calls, asked, replies, reviews, late, codes, record, page, cells, cache, list, heard, news>>

Form(kind, r) == [Closed EXCEPT !.kind = kind, !.step = "form", !.r = r]

OpenReset == \E r \in page.bound : Opens("reset", Form("reset", r))

(* Under which row the page showed the mail when the form was opened.       *)
OpenAssign ==
  \E to \in (Aliases(page.rows) \cap page.bound) \ {list.under} :
    Opens("assign", [Form("assign", 0) EXCEPT !.to = to, !.arg = list.under])

Named(rows) == {rows[r].email : r \in DOMAIN rows}

VersionsSeen(some) == [NoSeen EXCEPT !.versions = Versions(page.rows, some)]

(* Addresses registered under a main mailbox, or a row bound that is there. *)
OpenRegister ==
  \E r \in {r \in page.bound : IsMain(page.rows, r)} :
    \/ \E xs \in SUBSET (Hidden \ Named(page.rows)) :
         /\ xs # {}
         /\ Opens("register", [Form("register", r) EXCEPT !.x = xs, !.seen = VersionsSeen({r})])
    \/ \E to \in Aliases(page.rows) :
         /\ page.rows[to].owner = r /\ page.rows[to].on /\ ~Bound(page.rows, to)
         /\ Opens("register", [Form("register", r) EXCEPT !.to = to, !.x = {page.rows[to].email},
                                                         !.seen = VersionsSeen({r, to})])

OpenMain ==
  \/ \E x \in Mains \ Named(page.rows) : Opens("saveMain", [Form("saveMain", 0) EXCEPT !.x = {x}, !.arg = 1])
  \/ \E r \in {r \in DOMAIN page.rows : IsMain(page.rows, r)}, on \in 0..1 :
       Opens("saveMain", [Form("saveMain", r) EXCEPT !.x = {page.rows[r].email}, !.arg = on,
                                                    !.seen = VersionsSeen({r})])

OpenImport == Opens("import", [Form("import", 0) EXCEPT !.step = "dialog"])

Free(pg, r) == LET row == pg.rows[r] IN r \in pg.bound /\ row.on /\ row.claim = 0

OpenClaim ==
  \E r \in {r \in Aliases(page.rows) : Free(page, r)} :
    Opens("claim", [Form("claim", r) EXCEPT !.arg = page.version])

OpenCopy ==
  \E r \in {r \in Aliases(page.rows) : page.rows[r].claim # 0} :
    Opens("codes", [Form("codes", r) EXCEPT !.arg = page.rows[r].claim])

OpenCode == \E r \in page.bound : Opens("read", Form("code", r))

Close ==
  /\ ~Idle /\ drawer' = Closed
  /\ UNCHANGED <<service, page, cells, cache, list, heard, news>>

(* A form is submitted: what has a review before it is sent to be reviewed, *)
(* a claim to be checked, a code or the codes of a claim to be read.        *)
Asks == [kind \in {"reset", "assign", "claim", "codes", "code"} |->
           CASE kind = "claim" -> "eligible" [] kind = "code" -> "read" [] OTHER -> kind]

Submit ==
  /\ drawer.step = "form" /\ drawer.kind \in DOMAIN Asks
  /\ Arrive(Call("me", Asks[drawer.kind], drawer.r, drawer.to, {}, drawer.arg, NoSeen))
  /\ drawer' = [drawer EXCEPT !.step = "asking", !.n = asked + 1]
  /\ UNCHANGED <<plan, page, cells, cache, list, heard, news>>

(* What was filled in stays after a failure, to be sent again.              *)
Again ==
  /\ drawer.step = "failed" /\ May("me", "again") /\ Spend("me", "again")
  /\ drawer' = [drawer EXCEPT !.step = "form"]
  /\ UNCHANGED <<up, mail, book, calls, asked, replies, reviews, late, codes, record, page, cells, cache, list, heard, news>>

(* The rest goes to a dialog, on the versions the page then has.            *)
Review ==
  /\ drawer.step = "form" /\ drawer.kind \in {"register", "saveMain"}
  /\ drawer' = [drawer EXCEPT !.step = "dialog"]
  /\ UNCHANGED <<service, page, cells, cache, list, heard, news>>

Waited(a) == drawer.step = "asking" /\ drawer.n = a.n

HearReview(a) ==
  /\ a \in replies /\ a.op \in Reviewed /\ a.token = 0 /\ replies' = replies \ {a}
  /\ drawer' = IF ~Waited(a) THEN drawer
               ELSE IF a.status = 200 THEN [drawer EXCEPT !.step = "dialog", !.token = a.value]
               ELSE [drawer EXCEPT !.step = "failed"]
  /\ SomebodysWork /\ UNCHANGED <<calls, asked, plan, page, cells, cache, list, heard, news>>

(* Eligibility counts for the inventory it was asked for.                   *)
HearEligible(a) ==
  /\ a \in replies /\ a.op = "eligible" /\ replies' = replies \ {a}
  /\ drawer' = IF ~Waited(a) THEN drawer
               ELSE IF a.status = 200 /\ a.value = 1 /\ drawer.arg = page.version THEN [drawer EXCEPT !.step = "dialog"]
               ELSE Closed
  /\ SomebodysWork /\ UNCHANGED <<calls, asked, plan, page, cells, cache, list, heard, news>>

HearCodes(a) ==
  /\ a \in replies /\ a.op = "codes" /\ replies' = replies \ {a}
  /\ drawer' = IF Waited(a) THEN Closed ELSE drawer
  /\ SomebodysWork /\ UNCHANGED <<calls, asked, plan, page, cells, cache, list, heard, news>>

(* What the page checks again when the dialog is confirmed.                 *)
SameVersions == \A r \in DOMAIN drawer.seen.versions : page.rows[r].version = drawer.seen.versions[r]

StillCurrent ==
  CASE drawer.kind = "register" ->
         /\ SameVersions /\ page.rows[drawer.r].on
         /\ drawer.to # 0 \/ drawer.x \cap Named(page.rows) = {}
    [] drawer.kind = "saveMain" -> SameVersions
    [] drawer.kind = "claim" -> drawer.arg = page.version /\ Free(page, drawer.r)
    [] OTHER -> TRUE

Agree ==
  /\ drawer.step = "dialog"
  /\ IF ~StillCurrent THEN /\ drawer' = [drawer EXCEPT !.step = "failed"]
                           /\ UNCHANGED service
     ELSE /\ drawer' = [drawer EXCEPT !.step = "sent", !.n = asked + 1]
          /\ IF drawer.kind \in Reviewed THEN Confirm("me", drawer.kind, drawer.token)
             ELSE Arrive(Call("me", drawer.kind, drawer.r, drawer.to, drawer.x, drawer.arg, drawer.seen))
          /\ UNCHANGED plan
  /\ UNCHANGED <<page, cells, cache, list, heard, news>>

(* The newest request for the mails is the one that counts.                 *)
Lists(refresh) ==
  /\ calls' = calls \cup {Call("me", "mails", 1, 0, {}, refresh, NoSeen)}
  /\ asked' = asked + 1
  /\ list' = [list EXCEPT !.n = asked + 1]

OpenMails ==
  /\ May("me", "mails") /\ Spend("me", "mails")
  /\ Lists(1)
  /\ SomebodysWork /\ UNCHANGED <<replies, page, cells, cache, drawer, heard, news>>

HearMails(a) ==
  /\ a \in replies /\ a.op = "mails" /\ replies' = replies \ {a}
  /\ list' = IF a.n = list.n /\ a.status = 200 THEN [list EXCEPT !.under = a.value] ELSE list
  /\ SomebodysWork /\ UNCHANGED <<calls, asked, plan, page, cells, cache, drawer, heard, news>>

-----------------------------------------------------------------------------
(* Answers to changes.                                                      *)

Mine(a) == drawer.step = "sent" /\ drawer.n = a.n

Result(a) == [Closed EXCEPT !.kind = "result", !.step = "shown", !.r = a.r, !.value = a.value]

(* A code reset while its form is open is shown in the drawer and the cell; *)
(* an unknown outcome makes the cell read again.                            *)
HearReset(a) ==
  /\ a \in replies /\ a.token # 0 /\ a.op = "reset" /\ replies' = replies \ {a}
  /\ LET kept == AfterWrite(cache)
         given(e) == IF e.pending # 0 THEN e
                     ELSE [e EXCEPT !.value = a.value, !.stale = FALSE,
                                    !.overtaken = (record.code[page.rows[a.r].email] # a.value)]
         onPage == a.r \in DOMAIN cells \cap page.bound IN
       CASE a.status = 200 /\ Mine(a) ->
              /\ drawer' = Result(a)
              /\ IF ~onPage THEN cache' = kept /\ UNCHANGED <<cells, calls, asked>>
                 ELSE LET e == given(Entry(page, kept, a.r)) IN
                   /\ cache' = [kept EXCEPT ![a.r] = e]
                   /\ cells' = [cells EXCEPT ![a.r] = IF e.pending = 0 THEN [value |-> e.value, waits |-> 0]
                                                      ELSE [value |-> 0, waits |-> e.pending]]
                   /\ UNCHANGED <<calls, asked>>
         [] a.status = 200 /\ ~Mine(a) -> cache' = kept /\ UNCHANGED <<cells, calls, asked, drawer>>
         [] a.status = 502 /\ Mine(a) ->
              /\ drawer' = [drawer EXCEPT !.step = "failed"]
              /\ IF onPage THEN Loads(page, Forgotten(cache), {a.r}, TRUE)
                 ELSE cache' = Forgotten(cache) /\ UNCHANGED <<cells, calls, asked>>
         [] OTHER -> /\ drawer' = IF Mine(a) THEN [drawer EXCEPT !.step = "failed"] ELSE drawer
                     /\ UNCHANGED <<cells, cache, calls, asked>>
  /\ SomebodysWork /\ UNCHANGED <<plan, page, list, heard, news>>

HearAssigned(a) ==
  /\ a \in replies /\ a.token # 0 /\ a.op = "assign" /\ replies' = replies \ {a}
  /\ drawer' = IF ~Mine(a) THEN drawer ELSE IF a.status = 200 THEN Closed ELSE [drawer EXCEPT !.step = "failed"]
  /\ cache' = IF a.status = 200 THEN AfterWrite(cache) ELSE cache
  /\ IF a.status \in {200, 409, 502} THEN Lists(0) ELSE UNCHANGED <<calls, asked, list>>
  /\ SomebodysWork /\ UNCHANGED <<plan, page, cells, heard, news>>

(* A document is the page's unless it has a newer one.                      *)
Taking(doc) ==
  LET newest == IF doc.version < page.version THEN page ELSE [page EXCEPT !.version = doc.version, !.rows = doc.rows]
  IN  [newest EXCEPT !.bound = BoundRows(book.rows) \cap DOMAIN newest.rows]

(* Saved: the document comes with the answer, the status is read again. A   *)
(* conflict makes the page read the inventory again where rows were to be   *)
(* registered.                                                              *)
HearSaved(a) ==
  /\ a \in replies /\ a.op \in Saving /\ replies' = replies \ {a}
  /\ CASE a.status = 200 -> Renders(Taking(a.doc), AfterWrite(cache))
       [] a.status = 409 /\ a.op = "register" -> Renders(Taking(book), cache)
       [] OTHER -> UNCHANGED <<page, cells, cache, calls, asked>>
  /\ drawer' = IF ~Mine(a) THEN drawer
               ELSE IF a.status = 200 \/ a.op \in {"import", "claim"} THEN Closed ELSE [drawer EXCEPT !.step = "failed"]
  /\ SomebodysWork /\ UNCHANGED <<plan, list, heard, news>>

-----------------------------------------------------------------------------
(* Changes announced by the server.                                         *)

Announced == [book |-> book.version, record |-> record.count]

Announce ==
  /\ heard # Announced /\ heard' = Announced
  /\ IF book.version > page.version \/ record.count > heard.record
     THEN news' = TRUE /\ cache' = AfterNews(cache)
     ELSE UNCHANGED <<news, cache>>
  /\ UNCHANGED <<service, page, cells, drawer, list>>

Writes(c) == c.op \in Managing \/ c.token # 0

(* Taken up when no form is open and nothing of the page is being saved.    *)
TakeUp ==
  /\ news /\ drawer.kind \in {"", "result", "code"}
  /\ ~\E c \in {c \in calls : c.by = "me"} : Writes(c)
  /\ ~\E a \in replies : Writes(a)
  /\ news' = FALSE
  /\ Renders(Taking(book), cache)
  /\ SomebodysWork /\ UNCHANGED <<replies, plan, drawer, list, heard>>

-----------------------------------------------------------------------------
Init ==
  \E o \in Openings :
    /\ up = o.up /\ mail = o.mail /\ book = o.book /\ codes = o.codes /\ plan = o.plan
    /\ calls = {} /\ asked = 0 /\ replies = {} /\ reviews = {} /\ late = {}
    /\ record = [count |-> 0, code |-> [x \in Addresses |-> o.up[x].code]]
    /\ page = [version |-> o.book.version, rows |-> o.book.rows, bound |-> BoundRows(o.book.rows)]
    /\ cells = [r \in Aliases(o.book.rows) |-> NoCell]
    /\ cache = [r \in Aliases(o.book.rows) |-> NoEntry(Shot(o.book.rows, r))]
    /\ drawer = Closed /\ list = [n |-> 0, under |-> 0]
    /\ heard = [book |-> o.book.version, record |-> 0] /\ news = FALSE

Opening ==
  OpenReset \/ OpenAssign \/ OpenRegister \/ OpenMain \/ OpenImport \/ OpenClaim \/ OpenCopy \/ OpenCode

Hearing ==
  \E a \in replies :
    HearCode(a) \/ HearReview(a) \/ HearEligible(a) \/ HearCodes(a) \/ HearMails(a)
      \/ HearReset(a) \/ HearAssigned(a) \/ HearSaved(a)

Next ==
  \/ Serving /\ UNCHANGED <<Desk, heard, news>>
  \/ Render \/ (\E r \in DOMAIN cells : RetryCode(r)) \/ OpenMails
  \/ Opening \/ Close \/ Submit \/ Again \/ Review \/ Agree
  \/ Hearing
  \/ Announce \/ TakeUp

Spec == Init /\ [][Next]_vars

-----------------------------------------------------------------------------
(* What must hold.                                                          *)

(* Rows stand for one address each; a bound row is bound to the address it  *)
(* carries, no two to one, and a hidden address to a row of the mailbox it  *)
(* belongs to outside.                                                      *)
BindingsHold ==
  \A r, s \in DOMAIN book.rows :
    /\ r # s => book.rows[r].email # book.rows[s].email
    /\ Bound(book.rows, r) => /\ book.rows[r].bound = book.rows[r].email
                             /\ up[book.rows[r].bound].there
                             /\ (IsMain(book.rows, r)
                                  \/ up[book.rows[r].bound].owner = book.rows[book.rows[r].owner].bound)

(* A change confirmed is a change of what was reviewed: when it takes       *)
(* effect in time the code, or the place of the mail, is the one shown in   *)
(* the review, unless a change given up earlier came in between.            *)
Effected(c) == \E d \in calls' : d.n = c.n /\ d.step = "done"

ReviewsAreHeeded ==
  [][\A c \in calls :
       c.op \in Reviewed /\ c.step = "sent" /\ ~c.stale /\ Effected(c) =>
         IF c.op = "reset" THEN up[c.rows[c.r].bound].code = c.seen.code ELSE mail = c.seen.mail]_vars

(* Mails are given to the public only when they were read while the code    *)
(* sent still named the mailbox.                                            *)
AnswersBelongToTheirCodes == \A c \in calls : c.op = "public" /\ c.step = "done" => ~c.stale

(* The code given out for a claim is of a row that carries the claim then,  *)
(* though it was looked up earlier; and it is one that row had while the    *)
(* request was served: the one in force, unless a reset came in between.    *)
HadSince(c, x, code) == c.before[x] <= code /\ code <= up[x].code

GivenWithClaim ==
  \A c \in calls, a \in replies' :
    c.op = "codes" /\ a.n = c.n /\ a.status = 200 =>
      \E r \in DOMAIN book.rows : book.rows[r].claim = c.arg /\ HadSince(c, book.rows[r].email, a.value)

CodesGoWithClaims == [][GivenWithClaim]_vars

(* A page at rest shows the code in force, and so does the cell next to the *)
(* result of a reset made on it - as far as the log knows that code, and    *)
(* except that a reset's answer is kept though a later one was announced.   *)
AtRest ==
  /\ Idle /\ ~news /\ heard = Announced /\ replies = {}
  /\ ~\E c \in calls : c.by = "me"

CodesShownAreInForce ==
  \A r \in DOMAIN cells :
    LET x == page.rows[r].email IN
      /\ cells[r].value # 0 /\ up[x].code = record.code[x]
      /\ \/ AtRest /\ ~cache[r].overtaken
         \/ drawer.kind = "result" /\ drawer.r = r /\ drawer.value = up[x].code
      => cells[r].value = up[x].code

-----------------------------------------------------------------------------
(* The inductive invariant: that of the service, and what the page holds.   *)

IsForm(d) ==
  d \in [kind : {d.kind}, step : {d.step}, r : {d.r}, to : {d.to}, x : {d.x}, arg : {d.arg}, n : {d.n},
         token : {d.token}, value : {d.value}, seen : {d.seen}]

PageOK(pg) ==
  /\ pg \in [version : {pg.version}, rows : {pg.rows}, bound : SUBSET DOMAIN pg.rows]
  /\ Snapshot(pg.rows)

FormOK(d) ==
  /\ IsForm(d) /\ d.kind # "public"
  /\ d.kind = "assign" => d.r = 0
  /\ d.kind = "register" => Registers(book.rows, d.r, d.to, d.x)
  /\ d.kind = "saveMain" => Manages(book.rows, d.r, d.x)

DeskOK == PageOK(page) /\ FormOK(drawer)

IInv == ServiceOK /\ DeskOK

(* The log is behind the mail service, and the page behind the log.         *)
LogOK ==
  /\ record \in [count : Nat, code : [Addresses -> Nat]]
  /\ heard.record \in Nat /\ heard.record <= record.count
  /\ \A x \in Addresses : record.code[x] <= up[x].code

CodeOf(r) == up[book.rows[r].email].code
LoggedFor(r) == record.code[book.rows[r].email]

(* The catalog of a request for a claim's codes is not older than it.       *)
LookedUp(c) ==
  /\ c.before \in [Addresses -> Nat]
  /\ \A x \in Addresses : c.before[x] <= up[x].code
  /\ c.step # "asked" =>
       /\ c.catalog \in [Addresses -> Listing]
       /\ \A x \in Addresses : c.before[x] <= c.catalog[x].code /\ c.catalog[x].code <= up[x].code

(* A code made by a reset was in force, if it is not any longer.            *)
MakesOK(c) ==
  /\ c.op = "mails" => c.arg \in Nat
  /\ c.op = "reset" => \A m \in c.todo : m.op = "reset"
  /\ c.op = "reset" /\ c.step = "done" =>
       c.r \in DOMAIN c.rows /\ Bound(c.rows, c.r) /\ c.made \in Nat /\ c.made <= up[c.rows[c.r].bound].code
  /\ c.op = "codes" => LookedUp(c)

Gives(a) == a.op = "reset" /\ a.token # 0 /\ a.status = 200

GivenOK(a) ==
  /\ a.n # 0
  /\ Gives(a) => a.r \in DOMAIN book.rows /\ a.value \in Nat /\ a.value <= CodeOf(a.r)

(* What may be shown for a row was in force, and is not older than what the *)
(* drawer shows for it ...                                                  *)
Shown(r) == drawer.kind = "result" /\ drawer.r = r
Sound(r, v) == v \in Nat /\ v <= CodeOf(r) /\ (Shown(r) => drawer.value <= v)

(* ... nor than what the log knows, as far as the page was told.            *)
Untold == record.count > heard.record
Timely(r, v) == LoggedFor(r) <= v \/ Untold

EntryOK(r, e) ==
  /\ e \in [shot : {e.shot}, value : Nat, stale : BOOLEAN, pending : Nat, overtaken : BOOLEAN]
  /\ ~e.stale /\ e.value # 0 => Sound(r, e.value) /\ (Timely(r, e.value) \/ e.overtaken)

(* A request waited for is one for this row's code.                         *)
PendingOK(r, n) ==
  n # 0 => /\ n <= asked
           /\ \A c \in calls : c.n = n => c.op = "read" /\ c.r = r
           /\ \A a \in replies : a.n = n /\ a.status = 200 => Sound(r, a.value) /\ Timely(r, a.value)

CellOK(r, cell, e) ==
  /\ cell \in [value : Nat, waits : Nat]
  /\ cell # NoCell => r \in page.bound
  /\ cell.value # 0 => /\ e.pending = 0
                       /\ Sound(r, cell.value) /\ (Timely(r, cell.value) \/ e.overtaken \/ news)

ShownOK ==
  /\ DOMAIN cells = Aliases(page.rows) /\ DOMAIN cache = Aliases(page.rows)
  /\ \A r \in Aliases(page.rows) :
       /\ cache[r].shot = Shot(page.rows, r)
       /\ EntryOK(r, cache[r]) /\ PendingOK(r, cache[r].pending) /\ CellOK(r, cells[r], cache[r])
  /\ drawer.kind # "mails"
  /\ drawer.kind = "result" => drawer.r \in DOMAIN book.rows /\ drawer.value \in Nat /\ drawer.value <= CodeOf(drawer.r)

CodesOK == LogOK /\ (\A c \in calls : MakesOK(c)) /\ (\A a \in replies : GivenOK(a)) /\ ShownOK
=============================================================================
