------------------------ MODULE RechargeCodeRequests ------------------------
(***************************************************************************)
(* Applications for recharge codes: server/recharge-code-requests.mjs over *)
(* one document of the business store.                                     *)
(*                                                                         *)
(* An employee applies, an administrator approves or rejects.  Approval    *)
(* draws the codes, imports them into the recharge engine's pool over HTTP *)
(* and publishes them to the applicant only after a readback found every   *)
(* one of them.  Every step may fail half-way: the import may be lost, be  *)
(* partial or arrive after its answer timed out, the process may restart,  *)
(* and other requests change the document meanwhile.                       *)
(*                                                                         *)
(* A call is one HTTP request under way.  The store is synchronous, so a   *)
(* document change is two steps: the load, and after an await the          *)
(* preparation with the save under the version that was loaded.            *)
(***************************************************************************)
EXTENDS Naturals, Sequences

CONSTANTS
  Calls,         \* HTTP requests that may be under way at once
  Applications,  \* pairs of an applicant and a request key
  Count,         \* codes in a batch
  MaxRequests,   \* bound on the applications in the document
  MaxBatches,    \* bound on the batches drawn
  MaxSent,       \* bound on the imports of one code under way
  MaxFaults,     \* bound on crashes, failed saves and reads, lost imports
  Misfiling      \* the pool may come to hold records that do not match

VARIABLES
  rows,     \* the document, oldest application first
  drawn,    \* batches drawn so far
  calls,    \* the calls under way
  current,  \* the calls whose loaded version is still the document's
  pool,     \* the recharge engine's records of our codes
  sent,     \* imports of each code that the engine has not processed yet
  faults

vars == <<rows, drawn, calls, current, pool, sent, faults>>

ASSUME RequestsAssumption ==
  /\ Count \in Nat \ {0} /\ MaxRequests \in Nat /\ MaxBatches \in Nat
  /\ MaxSent \in Nat \ {0} /\ MaxFaults \in Nat
  /\ Misfiling \in BOOLEAN

Code == (1..MaxBatches) \X (1..Count)
CodesOf(batch) == {batch} \X (1..Count)

Problem == {"none", "unreadable", "conflict", "incomplete"}
RequestRow == [application : Applications, status : {"pending", "issuing", "issued", "rejected"},
               batch : 0..MaxBatches, started : BOOLEAN, problem : Problem]

(* A call: what it was asked, the change it is about to save, the rows it   *)
(* loaded, how often it retried, and what it knows of batch and pool.       *)
Call == [op : {"none", "create", "reject", "approve", "reconcile"},
         pc : {"idle", "load", "save", "read", "import", "reread"},
         target : Applications \cup Nat,
         change : {"none", "create", "reject", "approve", "started", "note", "issue"},
         problem : Problem, seen : Seq(RequestRow), attempt : 0..3,
         batch : 0..MaxBatches, started : BOOLEAN, missing : SUBSET Code]

Idle == [op |-> "none", pc |-> "idle", target |-> 0, change |-> "none", problem |-> "none",
         seen |-> << >>, attempt |-> 0, batch |-> 0, started |-> FALSE, missing |-> {}]

Init ==
  /\ rows = << >>
  /\ drawn = 0
  /\ calls = [c \in Calls |-> Idle]
  /\ current = {}
  /\ pool = [k \in Code |-> "absent"]
  /\ sent = [k \in Code |-> 0]
  /\ faults = 0

Goes(c, next) == calls' = [calls EXCEPT ![c] = next]

(* change(): load the document anew for the change that is due.             *)
Changing(k, change) == [k EXCEPT !.pc = "load", !.change = change, !.attempt = 0]

(***************************************************************************)
(* The document                                                            *)
(***************************************************************************)
Load(c) ==
  /\ calls[c].pc = "load"
  /\ Goes(c, [calls[c] EXCEPT !.pc = "save", !.seen = rows])
  /\ current' = current \cup {c}
  /\ UNCHANGED <<rows, drawn, pool, sent, faults>>

(* The call returns without a change.                                       *)
Returns(c, next) ==
  /\ Goes(c, [next EXCEPT !.seen = << >>])
  /\ current' = current \ {c}
  /\ UNCHANGED <<rows, drawn, faults>>

(* Mutant: the version is not compared.                                     *)
SavesOver(c, saved, next) ==
  /\ rows' = saved
  /\ current' = {}
  /\ Goes(c, [next EXCEPT !.seen = << >>])
  /\ UNCHANGED faults

(* save() under the loaded version: it is written and the call goes on, or  *)
(* the version has moved on and the change is prepared again, four times at *)
(* most, or the store fails and the call ends.                              *)
Saves(c, saved, next) ==
  \/ /\ c \in current
     /\ rows' = saved
     /\ current' = {}
     /\ Goes(c, [next EXCEPT !.seen = << >>])
     /\ UNCHANGED faults
  \/ /\ c \notin current
     /\ Goes(c, IF calls[c].attempt = 3 THEN Idle
                ELSE [calls[c] EXCEPT !.pc = "load", !.seen = << >>, !.attempt = @ + 1])
     /\ UNCHANGED <<rows, current, faults>>
  \/ /\ faults < MaxFaults
     /\ faults' = faults + 1
     /\ Goes(c, Idle)
     /\ current' = current \ {c}
     /\ UNCHANGED rows

Prepares(c, change) == calls[c].pc = "save" /\ calls[c].change = change
Seen(c) == calls[c].seen[calls[c].target]
SavesRow(c, row, next) ==
  Saves(c, [calls[c].seen EXCEPT ![calls[c].target] = row], next)

(***************************************************************************)
(* Applying and rejecting                                                  *)
(***************************************************************************)
NewRow(a) == [application |-> a, status |-> "pending", batch |-> 0,
              started |-> FALSE, problem |-> "none"]

(* A request key that the applicant used before answers with that row.      *)
Known(seen, a) == \E r \in DOMAIN seen : seen[r].application = a

Create(c) ==
  /\ Prepares(c, "create")
  /\ LET k == calls[c] IN
     IF Known(k.seen, k.target) THEN Returns(c, Idle)
     ELSE Saves(c, Append(k.seen, NewRow(k.target)), Idle) /\ UNCHANGED drawn
  /\ UNCHANGED <<pool, sent>>

Reject(c) ==
  /\ Prepares(c, "reject")
  /\ IF Seen(c).status # "pending" THEN Returns(c, Idle)
     ELSE SavesRow(c, [Seen(c) EXCEPT !.status = "rejected"], Idle) /\ UNCHANGED drawn
  /\ UNCHANGED <<pool, sent>>

(***************************************************************************)
(* Approving: the batch is drawn and recorded before anything leaves       *)
(***************************************************************************)
(* From here on an approval and a reconciliation are alike.                 *)
Reading(k, row) == [k EXCEPT !.pc = "read", !.op = "approve", !.change = "none",
                             !.batch = row.batch, !.started = row.started]

(* An application whose batch was drawn goes on with that batch.            *)
Draws(row, op) == row.status = "pending" /\ op = "approve"

(* Mutant: once its import began, an application is not taken up again.     *)
ResumesUnstarted(row) == row.status = "issuing" /\ ~row.started

Resumes(row) == row.status = "issuing"

Approve(c) ==
  LET k == calls[c]
      row == Seen(c)
      approved == [row EXCEPT !.status = "issuing", !.batch = drawn + 1] IN
  /\ Prepares(c, "approve")
  /\ CASE Resumes(row) -> Returns(c, Reading(k, row))
       [] Draws(row, k.op) -> /\ drawn < MaxBatches
                              /\ SavesRow(c, approved, Reading(k, approved))
                              /\ drawn' = IF rows' = rows THEN drawn ELSE drawn + 1
       [] OTHER -> Returns(c, Idle)
  /\ UNCHANGED <<pool, sent>>

(* codeReadback: a record that is not an unused code of ours, and the codes *)
(* without a record.                                                        *)
Conflict(batch) == \E k \in CodesOf(batch) : pool[k] = "off"
Missing(batch) == {k \in CodesOf(batch) : pool[k] = "absent"}

Noting(k, problem) == [Changing(k, "note") EXCEPT !.problem = problem, !.started = FALSE]
Issues(k) == [Changing(k, "issue") EXCEPT !.started = FALSE]

(* Mutant: the import is not recorded before it is sent.                    *)
JudgedAndSent(k) ==
  IF Missing(k.batch) = {} THEN Issues(k)
  ELSE [k EXCEPT !.pc = "import", !.missing = Missing(k.batch)]

(* What follows from the first readback.  Codes that the pool knows before  *)
(* an import was recorded are not ours.                                     *)
Judged(k) ==
  LET missing == Missing(k.batch)
      found == missing # CodesOf(k.batch)
      importing == [k EXCEPT !.pc = "import", !.started = FALSE, !.missing = missing] IN
  CASE Conflict(k.batch) \/ (~k.started /\ found) -> Noting(k, "conflict")
    [] OTHER -> IF missing = {} THEN Issues(k)
                ELSE IF k.started THEN importing ELSE Changing(importing, "started")

(* After the import.                                                        *)
Rejudged(k) ==
  CASE Conflict(k.batch) -> Noting(k, "conflict")
    [] OTHER -> IF Missing(k.batch) # {} THEN Noting(k, "incomplete") ELSE Issues(k)

Readback(c) ==
  /\ \/ calls[c].pc = "read" /\ Goes(c, Judged(calls[c]))
     \/ calls[c].pc = "reread" /\ Goes(c, Rejudged(calls[c]))
  /\ UNCHANGED <<rows, drawn, current, pool, sent, faults>>

(* The pool cannot be read, or its answer makes no sense.                   *)
ReadbackFails(c) ==
  /\ faults < MaxFaults
  /\ faults' = faults + 1
  /\ \/ calls[c].pc = "read" /\ Goes(c, Noting(calls[c], "unreadable"))
     \/ calls[c].pc = "reread" /\ Goes(c, Noting(calls[c], "incomplete"))
  /\ UNCHANGED <<rows, drawn, current, pool, sent>>

(* The import of what was missing; whatever its answer, the pool is read    *)
(* again.                                                                   *)
Import(c) ==
  LET k == calls[c] IN
  /\ k.pc = "import"
  /\ sent' = [j \in Code |-> IF j \in k.missing /\ sent[j] < MaxSent
                             THEN sent[j] + 1 ELSE sent[j]]
  /\ Goes(c, [k EXCEPT !.pc = "reread", !.missing = {}])
  /\ UNCHANGED <<rows, drawn, current, pool, faults>>

(* recordIssue: an issued row is left alone.                                *)
Open(row) == row.status # "issued"

Started(c) ==
  /\ Prepares(c, "started")
  /\ IF Open(Seen(c))
     THEN SavesRow(c, [Seen(c) EXCEPT !.started = TRUE],
                   [calls[c] EXCEPT !.pc = "import", !.change = "none"])
     ELSE Returns(c, Idle)
  /\ UNCHANGED <<drawn, pool, sent>>

Note(c) ==
  /\ Prepares(c, "note")
  /\ IF Open(Seen(c)) /\ Seen(c).problem # calls[c].problem
     THEN SavesRow(c, [Seen(c) EXCEPT !.problem = calls[c].problem], Idle)
     ELSE Returns(c, Idle)
  /\ UNCHANGED <<drawn, pool, sent>>

Issue(c) ==
  /\ Prepares(c, "issue")
  /\ IF Open(Seen(c))
     THEN SavesRow(c, [Seen(c) EXCEPT !.status = "issued", !.problem = "none"], Idle)
     ELSE Returns(c, Idle)
  /\ UNCHANGED <<drawn, pool, sent>>

(***************************************************************************)
(* Calls, the engine and the process                                       *)
(***************************************************************************)
Issuing == {calls[c].target : c \in {d \in Calls : calls[d].op \in {"approve", "reconcile"}}}

Asked(op, target, change) == [Idle EXCEPT !.op = op, !.target = target, !.pc = "load", !.change = change]

Apply(c) ==
  /\ Len(rows) < MaxRequests
  /\ \E a \in Applications : Goes(c, Asked("create", a, "create"))

AskReject(c) == \E r \in DOMAIN rows : Goes(c, Asked("reject", r, "reject"))

(* A second approval of an application that is being issued is refused.     *)
AskApprove(c, r) ==
  /\ r \in DOMAIN rows \ Issuing
  /\ \E op \in {"approve", "reconcile"} : Goes(c, Asked(op, r, "approve"))

Ask(c) ==
  /\ calls[c].pc = "idle"
  /\ Apply(c) \/ AskReject(c) \/ \E r \in DOMAIN rows : AskApprove(c, r)
  /\ UNCHANGED <<rows, drawn, current, pool, sent, faults>>

(* The engine processes the import of a code, possibly long after the call  *)
(* gave up waiting.                                                         *)
Deliver(k) ==
  /\ sent[k] > 0
  /\ sent' = [sent EXCEPT ![k] = @ - 1]
  /\ \E state \in {IF pool[k] = "absent" THEN "unused" ELSE pool[k]}
                    \cup (IF Misfiling THEN {"off"} ELSE {}) :
       pool' = [pool EXCEPT ![k] = state]
  /\ UNCHANGED <<rows, drawn, calls, current, faults>>

Lose(k) ==
  /\ sent[k] > 0
  /\ faults < MaxFaults
  /\ faults' = faults + 1
  /\ sent' = [sent EXCEPT ![k] = @ - 1]
  /\ UNCHANGED <<rows, drawn, calls, current, pool>>

Restart ==
  /\ faults < MaxFaults
  /\ faults' = faults + 1
  /\ calls' = [c \in Calls |-> Idle]
  /\ current' = {}
  /\ UNCHANGED <<rows, drawn, pool, sent>>

Step(c) ==
  \/ Load(c) \/ Create(c) \/ Reject(c) \/ Approve(c) \/ Readback(c)
  \/ Import(c) \/ Started(c) \/ Note(c) \/ Issue(c)

Next ==
  \/ \E c \in Calls : Ask(c) \/ Step(c) \/ ReadbackFails(c)
  \/ \E k \in Code : Deliver(k) \/ Lose(k)
  \/ Restart

Spec == Init /\ [][Next]_vars

(***************************************************************************)
(* Fairness.  A call that began goes on unless the process stops; the      *)
(* engine works through what arrived; and an administrator takes up an     *)
(* approved application again as long as it is not issued.  The bounds on  *)
(* faults say that the failures end.                                       *)
(***************************************************************************)
Reconciles(c, r) ==
  /\ calls[c].pc = "idle"
  /\ r \in DOMAIN rows \ Issuing
  /\ rows[r].status = "issuing"
  /\ Goes(c, Asked("reconcile", r, "approve"))
  /\ UNCHANGED <<rows, drawn, current, pool, sent, faults>>

FairSpec ==
  /\ Spec
  /\ \A c \in Calls : WF_vars(Step(c))
  /\ \A k \in Code : WF_vars(Deliver(k))
  /\ \A r \in 1..MaxRequests : SF_vars(\E c \in Calls : Reconciles(c, r))

(***************************************************************************)
(* Properties                                                              *)
(***************************************************************************)
(* Every variable has its type.                                             *)
TypeOK ==
  /\ rows \in Seq(RequestRow)
  /\ drawn \in 0..MaxBatches
  /\ calls \in [Calls -> Call]
  /\ current \subseteq Calls
  /\ pool \in [Code -> {"absent", "unused", "off"}]
  /\ sent \in [Code -> 0..MaxSent]
  /\ faults \in 0..MaxFaults

(* A code leaves the service only after the document holds it as part of a  *)
(* batch whose import was recorded, and no such application is rejected:    *)
(* nothing in the engine's pool is unaccounted for after a crash.           *)
RowsOf(k) == {r \in DOMAIN rows : rows[r].batch = k[1]}
WrittenAhead ==
  \A k \in Code :
    pool[k] # "absent" \/ sent[k] > 0 =>
      \E r \in RowsOf(k) :
        RowsOf(k) = {r} /\ rows[r].started /\ rows[r].status \in {"issuing", "issued"}

(* No change of the document, of whatever call, takes back what another one *)
(* wrote: batches stay drawn, imports stay recorded, a rejected or issued   *)
(* application is final and no application disappears.                      *)
Later(status) ==
  CASE status = "pending" -> {"pending", "issuing", "rejected"}
    [] status = "issuing" -> {"issuing", "issued"}
    [] OTHER -> {status}
Keeps(old, new) ==
  /\ new.application = old.application
  /\ new.status \in Later(old.status)
  /\ old.batch # 0 => new.batch = old.batch
  /\ old.started => new.started
  /\ old.status \in {"rejected", "issued"} => new = old
NothingTakenBack ==
  [][\A r \in DOMAIN rows : r \in DOMAIN rows' /\ Keeps(rows[r], rows'[r])]_rows

(* An approved application is issued in the end, with the batch that was    *)
(* drawn for it, or the administrator is told that the pool contradicts it. *)
EveryApprovedBatchIsIssued ==
  \A r \in 1..MaxRequests :
    (r \in DOMAIN rows /\ rows[r].status = "issuing")
      ~> (r \in DOMAIN rows /\ (rows[r].status = "issued" \/ rows[r].problem = "conflict"))

(***************************************************************************)
(* The inductive invariant behind WrittenAhead and NothingTakenBack, in    *)
(* named parts                                                             *)
(***************************************************************************)
RowFits(row) ==
  /\ row.batch = 0 <=> row.status \in {"pending", "rejected"}
  /\ row.started => row.batch # 0

(* A document: no application twice and no batch twice.                     *)
RowsFit(rs, n) ==
  /\ \A r \in DOMAIN rs : RowFits(rs[r]) /\ rs[r].batch <= n
  /\ \A r, q \in DOMAIN rs :
       \/ rs[r].application = rs[q].application
       \/ rs[r].batch = rs[q].batch /\ rs[r].batch # 0
       => r = q

(* What a call remembers of a row still holds of it.                        *)
Follows(old, new) ==
  /\ old.batch # 0 => new.batch = old.batch
  /\ old.started => new.started

(* A call that carries a batch: the row it works for has that batch, what   *)
(* it knows to be recorded is, and what it sends is recorded and its own.   *)
Carries(k) == k.pc \in {"read", "import", "reread"} \/ k.change \in {"started", "note", "issue"}

CallFits(k, rs) ==
  /\ \A r \in DOMAIN k.seen : r \in DOMAIN rs /\ RowFits(k.seen[r]) /\ Follows(k.seen[r], rs[r])
  /\ k.change \in {"reject", "approve", "started", "note", "issue"} =>
       /\ k.target \in DOMAIN rs
       /\ k.pc = "save" => k.target \in DOMAIN k.seen
  /\ k.change = "create" => k.target \in Applications
  /\ Carries(k) => /\ k.target \in DOMAIN rs
                   /\ k.batch # 0 /\ rs[k.target].batch = k.batch
                   /\ k.started => rs[k.target].started
  /\ k.pc = "import" => rs[k.target].started
  /\ k.pc = "import" \/ k.change = "started" => k.missing \subseteq CodesOf(k.batch)

(* The calls whose loaded version is the document's have the document.      *)
CurrentFits == \A c \in current : calls[c].pc = "save" /\ calls[c].seen = rows

(* A code that may be outside is of a batch whose import was recorded.      *)
Accounted ==
  \A k \in Code :
    pool[k] # "absent" \/ sent[k] > 0 =>
      \E r \in DOMAIN rows : rows[r].batch = k[1] /\ rows[r].started

(* All of it together: every step preserves it.                             *)
IInv ==
  /\ TypeOK
  /\ RowsFit(rows, drawn)
  /\ \A c \in Calls : CallFits(calls[c], rows)
  /\ CurrentFits
  /\ Accounted
=============================================================================
