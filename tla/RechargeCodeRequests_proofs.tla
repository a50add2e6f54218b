--------------------- MODULE RechargeCodeRequests_proofs ---------------------
(***************************************************************************)
(* Proofs about RechargeCodeRequests for any number of calls, applications,*)
(* batches and codes and any bound on faults.                              *)
(*                                                                         *)
(* A call works on the rows it loaded and on what it read of the pool,     *)
(* both of which may be old when it goes on.  What stays true of old rows  *)
(* (Follows) is enough for calls that only carry a batch; a save succeeds  *)
(* only from the document as it is (CurrentFits, from the version check).  *)
(***************************************************************************)
EXTENDS RechargeCodeRequests, SequenceTheorems, TLAPS

(***************************************************************************)
(* Rows and documents                                                      *)
(***************************************************************************)
(* How one change may move a document.                                      *)
RowsMove(rs, new) ==
  \A r \in DOMAIN rs : r \in DOMAIN new /\ Keeps(rs[r], new[r])

LEMMA RowsStay ==
  ASSUME NEW rs, \A r \in DOMAIN rs : rs[r] \in RequestRow
  PROVE  RowsMove(rs, rs)
<1>. SUFFICES ASSUME NEW r \in DOMAIN rs PROVE Keeps(rs[r], rs[r])
  BY DEF RowsMove
<1>1. rs[r].status \in {"pending", "issuing", "issued", "rejected"}
  BY DEF RequestRow
<1>2. rs[r].status \in Later(rs[r].status)
  BY <1>1 DEF Later
<1>. QED
  BY <1>2 DEF Keeps

LEMMA RowTypes ==
  ASSUME NEW rs \in Seq(RequestRow)
  PROVE  /\ \A r \in DOMAIN rs : rs[r] \in RequestRow
         /\ RowsMove(rs, rs)
<1>1. \A r \in DOMAIN rs : rs[r] \in RequestRow
  BY ElementOfSeq, LenProperties
<1>. QED
  BY <1>1, RowsStay

(* What a call knows survives the changes other calls make.                 *)
LEMMA CallFitsMoved ==
  ASSUME NEW k, NEW rs, NEW new, CallFits(k, rs), RowsMove(rs, new)
  PROVE  CallFits(k, new)
<1>1. \A r \in DOMAIN rs : /\ r \in DOMAIN new
                           /\ rs[r].batch # 0 => new[r].batch = rs[r].batch
                           /\ rs[r].started => new[r].started
  BY DEF RowsMove, Keeps
<1>2. \A r \in DOMAIN k.seen :
        r \in DOMAIN new /\ RowFits(k.seen[r]) /\ Follows(k.seen[r], new[r])
  BY <1>1 DEF CallFits, Follows
<1>3. Carries(k) => /\ k.target \in DOMAIN new
                    /\ k.batch # 0 /\ new[k.target].batch = k.batch
                    /\ k.started => new[k.target].started
  BY <1>1 DEF CallFits
<1>4. k.pc = "import" => new[k.target].started
  BY <1>1 DEF CallFits, Carries
<1>5. /\ k.change \in {"reject", "approve", "started", "note", "issue"} =>
           /\ k.target \in DOMAIN new
           /\ k.pc = "save" => k.target \in DOMAIN k.seen
      /\ k.change = "create" => k.target \in Applications
      /\ k.pc = "import" \/ k.change = "started" => k.missing \subseteq CodesOf(k.batch)
  BY <1>1 DEF CallFits
<1>. QED
  BY <1>2, <1>3, <1>4, <1>5 DEF CallFits

LEMMA IdleFits ==
  ASSUME NEW rs
  PROVE  Idle \in Call /\ CallFits(Idle, rs) /\ Idle.pc = "idle" /\ Idle.seen = << >>
<1>1. << >> \in Seq(RequestRow) /\ DOMAIN << >> = {}
  BY EmptySeq
<1>2. Idle \in Call
  BY <1>1, RequestsAssumption DEF Idle, Call, Problem
<1>3. CallFits(Idle, rs)
  BY <1>1 DEF Idle, CallFits, Carries
<1>. QED
  BY <1>2, <1>3 DEF Idle

(* Rows without a batch outside stay accounted for.                         *)
LEMMA AccountedMoved ==
  ASSUME IInv, RowsMove(rows, rows'), UNCHANGED <<pool, sent>>
  PROVE  Accounted'
<1>1. ASSUME NEW r \in DOMAIN rows, NEW b, rows[r].batch = b, b # 0, rows[r].started
      PROVE  r \in DOMAIN rows' /\ rows'[r].batch = b /\ rows'[r].started
  BY <1>1 DEF RowsMove, Keeps
<1>2. \A k \in Code : k[1] # 0
  BY RequestsAssumption DEF Code
<1>. QED
  BY <1>1, <1>2 DEF IInv, Accounted

(***************************************************************************)
(* Steps of one call                                                       *)
(***************************************************************************)
(* A step of call c, which then is k, that moves the document legally and   *)
(* leaves no other call with the document's version unless it stays.        *)
LEMMA CallStep ==
  ASSUME IInv, NEW c \in Calls, NEW k \in Call, calls' = [calls EXCEPT ![c] = k],
         rows' \in Seq(RequestRow), drawn' \in 0..MaxBatches, faults' \in 0..MaxFaults,
         RowsFit(rows', drawn'), RowsMove(rows, rows'), CallFits(k, rows'),
         current' \subseteq Calls,
         \A d \in current' \ {c} : d \in current /\ rows' = rows,
         c \in current' => k.pc = "save" /\ k.seen = rows',
         pool' \in [Code -> {"absent", "unused", "off"}], sent' \in [Code -> 0..MaxSent],
         Accounted'
  PROVE  IInv' /\ RowsMove(rows, rows')
<1>1. calls \in [Calls -> Call]
  BY DEF IInv, TypeOK
<1>2. calls'[c] = k /\ \A d \in Calls \ {c} : calls'[d] = calls[d]
  BY <1>1
<1>3. TypeOK'
  BY <1>1 DEF TypeOK
<1>4. \A d \in Calls : CallFits(calls'[d], rows')
  BY <1>2, CallFitsMoved DEF IInv
<1>5. CurrentFits'
  BY <1>2 DEF IInv, CurrentFits
<1>. QED
  BY <1>3, <1>4, <1>5 DEF IInv

(* A step of one call that leaves the document alone and ends its hold on   *)
(* the version, if it had one.                                              *)
LEMMA QuietStep ==
  ASSUME IInv, NEW c \in Calls, NEW k \in Call, calls' = [calls EXCEPT ![c] = k],
         CallFits(k, rows), UNCHANGED <<rows, drawn, pool, sent>>,
         faults' \in 0..MaxFaults,
         \/ current' = current \ {c}
         \/ current' = current /\ calls[c].pc # "save"
  PROVE  IInv' /\ RowsMove(rows, rows')
<1>1. rows \in Seq(RequestRow)
  BY DEF IInv, TypeOK
<1>2. RowsMove(rows, rows')
  BY <1>1, RowTypes
<1>3. c \notin current' /\ current' \subseteq current
  BY DEF IInv, CurrentFits
<1>4. Accounted'
  BY <1>2, AccountedMoved
<1>. QED
  BY <1>2, <1>3, <1>4, CallStep DEF IInv, TypeOK

(* A call that may save went from the document as it is, or saves nothing.  *)
LEMMA SaveStep ==
  ASSUME IInv, NEW c \in Calls, calls[c].pc = "save",
         NEW saved, NEW next, Saves(c, saved, next), UNCHANGED <<pool, sent>>,
         c \in current => /\ saved \in Seq(RequestRow)
                         /\ RowsMove(rows, saved)
                         /\ [next EXCEPT !.seen = << >>] \in Call
                         /\ CallFits([next EXCEPT !.seen = << >>], saved)
                         /\ [next EXCEPT !.seen = << >>].pc # "save",
         drawn' \in 0..MaxBatches, RowsFit(rows', drawn')
  PROVE  IInv' /\ RowsMove(rows, rows')
<1>1. /\ rows \in Seq(RequestRow) /\ calls[c] \in Call /\ CallFits(calls[c], rows)
      /\ current \subseteq Calls /\ faults \in 0..MaxFaults
      /\ pool \in [Code -> {"absent", "unused", "off"}] /\ sent \in [Code -> 0..MaxSent]
  BY DEF IInv, TypeOK
<1>2. RowsMove(rows, rows)
  BY <1>1, RowTypes
<1>3. Idle \in Call /\ CallFits(Idle, rows)
  BY IdleFits
<1>4. CASE /\ c \in current /\ rows' = saved /\ current' = {} /\ UNCHANGED faults
           /\ Goes(c, [next EXCEPT !.seen = << >>])
  <2>1. RowsMove(rows, rows')
    BY <1>4
  <2>2. Accounted'
    BY <2>1, AccountedMoved
  <2>. QED
    BY <1>1, <1>4, <2>1, <2>2, CallStep DEF Goes
<1>5. CASE /\ c \notin current /\ UNCHANGED <<rows, current, faults>>
           /\ Goes(c, IF calls[c].attempt = 3 THEN Idle
                      ELSE [calls[c] EXCEPT !.pc = "load", !.seen = << >>, !.attempt = @ + 1])
  <2>. DEFINE again == [calls[c] EXCEPT !.pc = "load", !.seen = << >>, !.attempt = @ + 1]
              k == IF calls[c].attempt = 3 THEN Idle ELSE again
  <2>1. << >> \in Seq(RequestRow) /\ DOMAIN << >> = {}
    BY EmptySeq
  <2>2. calls[c].attempt # 3 => again \in Call
    <3>. SUFFICES ASSUME calls[c].attempt # 3 PROVE again \in Call
      OBVIOUS
    <3>. DEFINE a == calls[c].attempt + 1
    <3>1. a \in 0..3
      BY <1>1 DEF Call
    <3>2. again = [calls[c] EXCEPT !.pc = "load", !.seen = << >>, !.attempt = a]
      OBVIOUS
    <3>. HIDE DEF a, again
    <3>. QED
      BY <1>1, <2>1, <3>1, <3>2 DEF Call
  <2>3. /\ again.pc = "load" /\ again.seen = << >> /\ again.change = calls[c].change
        /\ again.target = calls[c].target /\ again.batch = calls[c].batch
        /\ again.started = calls[c].started /\ again.missing = calls[c].missing
    BY <1>1 DEF Call
  <2>. HIDE DEF again
  <2>4. CallFits(again, rows)
    BY <1>1, <2>1, <2>3 DEF CallFits, Carries
  <2>5. k \in Call /\ CallFits(k, rows) /\ calls' = [calls EXCEPT ![c] = k]
    BY <1>3, <1>5, <2>2, <2>4 DEF Goes, again
  <2>. HIDE DEF k
  <2>6. current' = current \ {c} /\ c \notin current'
    BY <1>5
  <2>7. Accounted'
    BY <1>2, <1>5, AccountedMoved
  <2>. QED
    BY <1>1, <1>2, <1>5, <2>5, <2>6, <2>7, CallStep
<1>6. CASE /\ faults < MaxFaults /\ faults' = faults + 1 /\ Goes(c, Idle)
           /\ current' = current \ {c} /\ UNCHANGED rows
  <2>1. faults' \in 0..MaxFaults
    BY <1>1, <1>6, RequestsAssumption
  <2>2. Accounted'
    BY <1>2, <1>6, AccountedMoved
  <2>. QED
    BY <1>1, <1>2, <1>3, <1>6, <2>1, <2>2, CallStep DEF Goes
<1>. QED
  BY <1>4, <1>5, <1>6 DEF Saves

LEMMA SavesWhat ==
  ASSUME NEW c, NEW saved, NEW next, Saves(c, saved, next)
  PROVE  rows' = rows \/ (c \in current /\ rows' = saved)
  BY DEF Saves

(* One row of a document replaced by a later state of it.                   *)
LEMMA RowReplaced ==
  ASSUME NEW rs \in Seq(RequestRow), NEW n \in Nat, NEW m \in Nat, n <= m, RowsFit(rs, n),
         NEW r \in DOMAIN rs, NEW row \in RequestRow, Keeps(rs[r], row), RowFits(row),
         row.batch <= m,
         \A q \in DOMAIN rs : rs[q].batch = row.batch /\ row.batch # 0 => q = r,
         NEW new, new = [rs EXCEPT ![r] = row]
  PROVE  /\ new \in Seq(RequestRow) /\ RowsMove(rs, new) /\ RowsFit(new, m)
         /\ DOMAIN new = DOMAIN rs /\ new[r] = row
<1>1. DOMAIN rs = 1..Len(rs)
  BY LenProperties
<1>2. /\ new \in Seq(RequestRow) /\ Len(new) = Len(rs)
      /\ \A q \in 1..Len(rs) : new[q] = IF q = r THEN row ELSE rs[q]
  BY <1>1, ExceptSeq
<1>3. DOMAIN new = DOMAIN rs
  BY <1>1, <1>2, LenProperties
<1>4. \A q \in DOMAIN rs : rs[q] \in RequestRow /\ Keeps(rs[q], rs[q])
  BY RowTypes DEF RowsMove
<1>5. \A q \in DOMAIN rs : new[q] = IF q = r THEN row ELSE rs[q]
  BY <1>1, <1>2
<1>6. RowsMove(rs, new)
  BY <1>3, <1>4, <1>5 DEF RowsMove
<1>7. \A q \in DOMAIN rs : RowFits(new[q]) /\ new[q].batch <= m
  <2>1. \A q \in DOMAIN rs : rs[q].batch \in Nat /\ rs[q].batch <= n /\ RowFits(rs[q])
    BY <1>4, RequestsAssumption DEF RowsFit, RequestRow
  <2>. QED
    BY <1>5, <2>1
<1>8. \A p, q \in DOMAIN rs :
         (new[p].application = new[q].application) \/ (new[p].batch = new[q].batch /\ new[p].batch # 0)
         => p = q
  <2>1. row.application = rs[r].application
    BY DEF Keeps
  <2>. QED
    BY <1>5, <2>1 DEF RowsFit
<1>9. RowsFit(new, m)
  BY <1>3, <1>7, <1>8 DEF RowsFit
<1>. QED
  BY <1>1, <1>2, <1>3, <1>5, <1>6, <1>9

(* What a call about to save knows, when it still has the document.         *)
LEMMA SeenFacts ==
  ASSUME IInv, NEW c \in Calls, NEW change, Prepares(c, change)
  PROVE  /\ calls[c] \in Call /\ CallFits(calls[c], rows) /\ calls[c].pc = "save"
         /\ rows \in Seq(RequestRow) /\ RowsFit(rows, drawn)
         /\ drawn \in 0..MaxBatches /\ drawn \in Nat /\ MaxBatches \in Nat
         /\ faults \in 0..MaxFaults
         /\ \A r \in DOMAIN rows : rows[r] \in RequestRow
         /\ c \in current => calls[c].seen = rows
         /\ change \in {"reject", "approve", "started", "note", "issue"} =>
              /\ calls[c].target \in DOMAIN rows
              /\ calls[c].target \in DOMAIN calls[c].seen
              /\ RowFits(Seen(c)) /\ Follows(Seen(c), rows[calls[c].target])
              /\ c \in current => Seen(c) = rows[calls[c].target]
         /\ change \in {"started", "note", "issue"} =>
              /\ calls[c].batch # 0 /\ rows[calls[c].target].batch = calls[c].batch
<1>1. /\ calls[c] \in Call /\ CallFits(calls[c], rows) /\ rows \in Seq(RequestRow)
      /\ RowsFit(rows, drawn) /\ drawn \in 0..MaxBatches /\ faults \in 0..MaxFaults
  BY DEF IInv, TypeOK
<1>2. calls[c].pc = "save" /\ calls[c].change = change
  BY DEF Prepares
<1>3. c \in current => calls[c].seen = rows
  BY DEF IInv, CurrentFits
<1>4. \A r \in DOMAIN rows : rows[r] \in RequestRow
  BY <1>1, RowTypes
<1>5. change \in {"reject", "approve", "started", "note", "issue"} =>
        /\ calls[c].target \in DOMAIN rows
        /\ calls[c].target \in DOMAIN calls[c].seen
        /\ RowFits(Seen(c)) /\ Follows(Seen(c), rows[calls[c].target])
        /\ c \in current => Seen(c) = rows[calls[c].target]
  BY <1>1, <1>2, <1>3 DEF CallFits, Seen
<1>6. change \in {"started", "note", "issue"} =>
        calls[c].batch # 0 /\ rows[calls[c].target].batch = calls[c].batch
  BY <1>1, <1>2 DEF CallFits, Carries
<1>. QED
  BY <1>1, <1>2, <1>3, <1>4, <1>5, <1>6, RequestsAssumption

LEMMA LoadStep ==
  ASSUME IInv, NEW c \in Calls, Load(c)
  PROVE  IInv' /\ RowsMove(rows, rows')
<1>. DEFINE k == [calls[c] EXCEPT !.pc = "save", !.seen = rows]
<1>1. /\ calls[c] \in Call /\ CallFits(calls[c], rows) /\ rows \in Seq(RequestRow)
      /\ RowsFit(rows, drawn) /\ current \subseteq Calls
  BY DEF IInv, TypeOK
<1>2. /\ calls[c].pc = "load" /\ calls' = [calls EXCEPT ![c] = k]
      /\ current' = current \cup {c} /\ UNCHANGED <<rows, drawn, pool, sent, faults>>
  BY DEF Load, Goes
<1>3. k \in Call
  BY <1>1 DEF Call
<1>4. /\ k.pc = "save" /\ k.seen = rows /\ k.change = calls[c].change
      /\ k.target = calls[c].target /\ k.batch = calls[c].batch
      /\ k.started = calls[c].started /\ k.missing = calls[c].missing
  BY <1>1 DEF Call
<1>. HIDE DEF k
<1>5. \A r \in DOMAIN rows : RowFits(rows[r]) /\ Follows(rows[r], rows[r])
  BY <1>1 DEF RowsFit, Follows
<1>6. CallFits(k, rows)
  BY <1>1, <1>2, <1>4, <1>5 DEF CallFits, Carries
<1>7. RowsMove(rows, rows')
  BY <1>1, <1>2, RowTypes
<1>8. Accounted'
  BY <1>2, <1>7, AccountedMoved
<1>. QED
  BY <1>1, <1>2, <1>3, <1>4, <1>6, <1>7, <1>8, CallStep DEF IInv, TypeOK

(* A call that returns without a change, or that the process forgets.       *)
LEMMA ReturnStep ==
  ASSUME IInv, NEW c \in Calls, calls[c].pc = "save", NEW next, Returns(c, next),
         UNCHANGED <<pool, sent>>,
         [next EXCEPT !.seen = << >>] \in Call, CallFits([next EXCEPT !.seen = << >>], rows)
  PROVE  IInv' /\ RowsMove(rows, rows')
<1>1. /\ calls' = [calls EXCEPT ![c] = [next EXCEPT !.seen = << >>]]
      /\ current' = current \ {c} /\ UNCHANGED <<rows, drawn, pool, sent, faults>>
  BY DEF Returns, Goes
<1>2. faults' \in 0..MaxFaults
  BY <1>1 DEF IInv, TypeOK
<1>. QED
  BY <1>1, <1>2, QuietStep

LEMMA IdleAgain == [Idle EXCEPT !.seen = << >>] = Idle
  BY DEF Idle

(***************************************************************************)
(* The actions                                                             *)
(***************************************************************************)
(* A change of one row that ends the call.                                  *)
LEMMA RowStep ==
  ASSUME IInv, NEW c \in Calls, NEW change, Prepares(c, change),
         change \in {"reject", "started", "note", "issue"}, UNCHANGED <<drawn, pool, sent>>,
         NEW row, NEW next, SavesRow(c, row, next),
         c \in current =>
           LET r == calls[c].target
               k == [next EXCEPT !.seen = << >>] IN
           /\ row \in RequestRow /\ RowFits(row)
           /\ Keeps(rows[r], row) /\ row.batch = rows[r].batch
           /\ k \in Call /\ k.pc # "save"
           /\ \A new : RowsMove(rows, new) /\ new[r] = row => CallFits(k, new)
  PROVE  IInv' /\ RowsMove(rows, rows')
<1>. DEFINE r == calls[c].target
            saved == [calls[c].seen EXCEPT ![r] = row]
            k == [next EXCEPT !.seen = << >>]
<1>1. /\ calls[c].pc = "save" /\ rows \in Seq(RequestRow) /\ RowsFit(rows, drawn)
      /\ drawn \in 0..MaxBatches /\ drawn \in Nat /\ r \in DOMAIN rows
      /\ \A q \in DOMAIN rows : rows[q] \in RequestRow
      /\ c \in current => calls[c].seen = rows
  BY SeenFacts
<1>2. Saves(c, saved, next)
  BY DEF SavesRow
<1>3. ASSUME c \in current
      PROVE  /\ saved \in Seq(RequestRow) /\ RowsMove(rows, saved) /\ RowsFit(saved, drawn)
             /\ k \in Call /\ k.pc # "save" /\ CallFits(k, saved)
  <2>1. /\ row \in RequestRow /\ RowFits(row)
        /\ Keeps(rows[r], row) /\ row.batch = rows[r].batch
        /\ k \in Call /\ k.pc # "save"
        /\ \A new : RowsMove(rows, new) /\ new[r] = row => CallFits(k, new)
    BY <1>3
  <2>2. saved = [rows EXCEPT ![r] = row]
    BY <1>1, <1>3
  <2>3. /\ row.batch <= drawn /\ drawn <= drawn
        /\ \A q \in DOMAIN rows : rows[q].batch = row.batch /\ row.batch # 0 => q = r
    BY <1>1, <2>1 DEF RowsFit
  <2>. HIDE DEF saved, k, r
  <2>4. /\ saved \in Seq(RequestRow) /\ RowsMove(rows, saved) /\ RowsFit(saved, drawn)
        /\ saved[r] = row
    BY <1>1, <2>1, <2>2, <2>3, RowReplaced
  <2>. QED
    BY <2>1, <2>4
<1>4. RowsFit(rows', drawn') /\ drawn' \in 0..MaxBatches
  BY <1>1, <1>2, <1>3, SavesWhat
<1>. HIDE DEF saved, r
<1>. QED
  BY <1>1, <1>2, <1>3, <1>4, SaveStep

LEMMA CreateStep ==
  ASSUME IInv, NEW c \in Calls, Create(c)
  PROVE  IInv' /\ RowsMove(rows, rows')
<1>. DEFINE k == calls[c]
            row == NewRow(k.target)
            saved == Append(k.seen, row)
<1>1. /\ k \in Call /\ CallFits(k, rows) /\ k.pc = "save" /\ k.change = "create"
      /\ rows \in Seq(RequestRow) /\ RowsFit(rows, drawn)
      /\ drawn \in 0..MaxBatches /\ drawn \in Nat
      /\ c \in current => k.seen = rows
  BY SeenFacts DEF Create, Prepares
<1>2. Idle \in Call /\ CallFits(Idle, rows) /\ Idle.pc # "save"
  BY IdleFits
<1>3. CASE Known(k.seen, k.target)
  BY <1>1, <1>2, <1>3, IdleAgain, ReturnStep DEF Create
<1>4. CASE ~Known(k.seen, k.target)
  <2>1. Saves(c, saved, Idle) /\ UNCHANGED <<drawn, pool, sent>>
    BY <1>4 DEF Create
  <2>2. k.target \in Applications
    BY <1>1 DEF CallFits
  <2>3. row \in RequestRow /\ RowFits(row) /\ row.application = k.target /\ row.batch = 0
    BY <2>2, RequestsAssumption DEF NewRow, RequestRow, RowFits, Problem
  <2>. HIDE DEF row
  <2>4. ASSUME c \in current
        PROVE  saved \in Seq(RequestRow) /\ RowsMove(rows, saved) /\ RowsFit(saved, drawn)
    <3>1. /\ saved \in Seq(RequestRow) /\ Len(saved) = Len(rows) + 1
          /\ \A q \in 1..Len(rows) : saved[q] = rows[q]
          /\ saved[Len(rows) + 1] = row
      BY <1>1, <2>3, <2>4, AppendProperties
    <3>2. /\ DOMAIN rows = 1..Len(rows) /\ DOMAIN saved = 1..(Len(rows) + 1) /\ Len(rows) \in Nat
      BY <1>1, <3>1, LenProperties
    <3>3. \A q \in DOMAIN rows : rows[q].application # k.target
      BY <1>1, <1>4, <2>4 DEF Known
    <3>. HIDE DEF saved, k
    <3>4. \A q \in DOMAIN rows : q \in DOMAIN saved /\ saved[q] = rows[q]
      BY <3>1, <3>2
    <3>5. \A q \in DOMAIN saved : q \in DOMAIN rows \/ (q = Len(rows) + 1 /\ saved[q] = row)
      BY <3>1, <3>2
    <3>6. RowsMove(rows, rows)
      BY <1>1, RowTypes
    <3>7. RowsMove(rows, saved)
      BY <3>4, <3>6 DEF RowsMove
    <3>8. \A q \in DOMAIN saved : RowFits(saved[q]) /\ saved[q].batch <= drawn
      BY <1>1, <2>3, <3>4, <3>5 DEF RowsFit
    <3>9. \A p, q \in DOMAIN saved :
            \/ saved[p].application = saved[q].application
            \/ saved[p].batch = saved[q].batch /\ saved[p].batch # 0
            => p = q
      BY <1>1, <2>3, <3>3, <3>4, <3>5 DEF RowsFit
    <3>. QED
      BY <3>1, <3>7, <3>8, <3>9 DEF RowsFit
  <2>5. RowsFit(rows', drawn') /\ drawn' \in 0..MaxBatches
    BY <1>1, <2>1, <2>4, SavesWhat
  <2>6. c \in current => CallFits(Idle, saved)
    BY IdleFits
  <2>. HIDE DEF saved
  <2>. QED
    BY <1>1, <1>2, <2>1, <2>4, <2>5, <2>6, IdleAgain, SaveStep
<1>. QED
  BY <1>3, <1>4

(* An unchanged or changed row that stays with its batch.                   *)
LEMMA RejectStep ==
  ASSUME IInv, NEW c \in Calls, Reject(c)
  PROVE  IInv' /\ RowsMove(rows, rows')
<1>. DEFINE r == calls[c].target
            row == [Seen(c) EXCEPT !.status = "rejected"]
<1>1. /\ calls[c].pc = "save" /\ RowsFit(rows, drawn) /\ r \in DOMAIN rows
      /\ rows[r] \in RequestRow
      /\ c \in current => Seen(c) = rows[r]
  BY SeenFacts DEF Reject
<1>2. /\ Idle \in Call /\ Idle.pc # "save" /\ CallFits(Idle, rows)
      /\ \A new : CallFits(Idle, new)
  BY IdleFits
<1>3. CASE Seen(c).status # "pending"
  BY <1>1, <1>2, <1>3, IdleAgain, ReturnStep DEF Reject
<1>4. CASE Seen(c).status = "pending"
  <2>1. SavesRow(c, row, Idle) /\ UNCHANGED <<drawn, pool, sent>> /\ Prepares(c, "reject")
    BY <1>4 DEF Reject
  <2>2. ASSUME c \in current
        PROVE  /\ row \in RequestRow /\ RowFits(row)
               /\ Keeps(rows[r], row) /\ row.batch = rows[r].batch
    <3>1. /\ row \in RequestRow /\ row.status = "rejected" /\ row.batch = rows[r].batch
          /\ row.started = rows[r].started /\ row.application = rows[r].application
      BY <1>1, <2>2 DEF RequestRow
    <3>2. RowFits(rows[r]) /\ rows[r].status = "pending"
      BY <1>1, <1>4, <2>2 DEF RowsFit
    <3>. HIDE DEF row
    <3>. QED
      BY <3>1, <3>2 DEF RowFits, Keeps, Later
  <2>. HIDE DEF row
  <2>. QED
    BY <1>2, <2>1, <2>2, IdleAgain, RowStep
<1>. QED
  BY <1>3, <1>4

LEMMA StartedStep ==
  ASSUME IInv, NEW c \in Calls, Started(c)
  PROVE  IInv' /\ RowsMove(rows, rows')
<1>. DEFINE r == calls[c].target
            row == [Seen(c) EXCEPT !.started = TRUE]
            next == [calls[c] EXCEPT !.pc = "import", !.change = "none"]
            k == [next EXCEPT !.seen = << >>]
<1>1. /\ calls[c].pc = "save" /\ RowsFit(rows, drawn) /\ r \in DOMAIN rows
      /\ rows[r] \in RequestRow /\ calls[c].batch # 0 /\ rows[r].batch = calls[c].batch
      /\ calls[c] \in Call /\ CallFits(calls[c], rows) /\ calls[c].change = "started"
      /\ c \in current => Seen(c) = rows[r]
  BY SeenFacts DEF Started, Prepares
<1>2. Idle \in Call /\ CallFits(Idle, rows)
  BY IdleFits
<1>3. CASE ~Open(Seen(c))
  BY <1>1, <1>2, <1>3, IdleAgain, ReturnStep DEF Started
<1>4. CASE Open(Seen(c))
  <2>1. SavesRow(c, row, next) /\ UNCHANGED <<drawn, pool, sent>> /\ Prepares(c, "started")
    BY <1>4 DEF Started
  <2>2. << >> \in Seq(RequestRow) /\ DOMAIN << >> = {}
    BY EmptySeq
  <2>3. /\ k \in Call /\ k.pc = "import" /\ k.change = "none" /\ k.seen = << >>
        /\ k.target = r /\ k.batch = calls[c].batch /\ k.started = calls[c].started
        /\ k.missing = calls[c].missing
    BY <1>1, <2>2 DEF Call
  <2>4. ASSUME c \in current
        PROVE  /\ row \in RequestRow /\ RowFits(row) /\ row.started
               /\ Keeps(rows[r], row) /\ row.batch = rows[r].batch
    <3>1. /\ row \in RequestRow /\ row.status = rows[r].status /\ row.batch = rows[r].batch
          /\ row.started = TRUE /\ row.application = rows[r].application
      BY <1>1, <2>4 DEF RequestRow
    <3>2. /\ RowFits(rows[r]) /\ rows[r].status # "issued"
          /\ rows[r].status \in {"pending", "issuing", "issued", "rejected"}
      BY <1>1, <1>4, <2>4 DEF RowsFit, Open, RequestRow
    <3>3. rows[r].status = "issuing"
      BY <1>1, <3>2 DEF RowFits
    <3>. HIDE DEF row
    <3>. QED
      BY <1>1, <3>1, <3>3 DEF RowFits, Keeps, Later
  <2>5. calls[c].missing \subseteq CodesOf(calls[c].batch)
    BY <1>1 DEF CallFits
  <2>. HIDE DEF row, k, r
  <2>6. ASSUME c \in current, NEW new, RowsMove(rows, new), new[r] = row
        PROVE  CallFits(k, new)
    <3>1. r \in DOMAIN new /\ new[r].batch = calls[c].batch /\ new[r].started
      BY <1>1, <2>4, <2>6 DEF RowsMove
    <3>. QED
      BY <1>1, <2>2, <2>3, <2>5, <3>1 DEF CallFits, Carries
  <2>7. k.pc # "save"
    BY <2>3
  <2>. QED
    BY <2>1, <2>3, <2>4, <2>6, <2>7, RowStep DEF k, r
<1>. QED
  BY <1>3, <1>4

(* What a call that carries a batch may write into its row, ending itself.  *)
LEMMA EndStep ==
  ASSUME IInv, NEW c \in Calls, Note(c) \/ Issue(c)
  PROVE  IInv' /\ RowsMove(rows, rows')
<1>. DEFINE r == calls[c].target
<1>1. PICK change \in {"note", "issue"} : Prepares(c, change)
  BY DEF Note, Issue
<1>2. /\ calls[c].pc = "save" /\ RowsFit(rows, drawn) /\ r \in DOMAIN rows
      /\ rows[r] \in RequestRow /\ calls[c].batch # 0 /\ rows[r].batch = calls[c].batch
      /\ calls[c] \in Call
      /\ c \in current => Seen(c) = rows[r]
  BY <1>1, SeenFacts
<1>3. /\ Idle \in Call /\ Idle.pc # "save" /\ CallFits(Idle, rows)
      /\ \A new : CallFits(Idle, new)
  BY IdleFits
<1>4. CASE Returns(c, Idle) /\ UNCHANGED <<pool, sent>>
  BY <1>2, <1>3, <1>4, IdleAgain, ReturnStep
<1>5. ASSUME Open(Seen(c)), c \in current
      PROVE  rows[r].status = "issuing" /\ RowFits(rows[r])
  <2>1. /\ RowFits(rows[r]) /\ rows[r].status # "issued"
        /\ rows[r].status \in {"pending", "issuing", "issued", "rejected"}
    BY <1>2, <1>5 DEF RowsFit, Open, RequestRow
  <2>. QED
    BY <1>2, <2>1 DEF RowFits
<1>6. ASSUME NEW row, SavesRow(c, row, Idle), UNCHANGED <<drawn, pool, sent>>,
             c \in current => /\ row \in RequestRow /\ RowFits(row)
                             /\ Keeps(rows[r], row) /\ row.batch = rows[r].batch
      PROVE  IInv' /\ RowsMove(rows, rows')
  BY <1>1, <1>3, <1>6, IdleAgain, RowStep
<1>7. CASE /\ Open(Seen(c)) /\ UNCHANGED <<drawn, pool, sent>>
           /\ SavesRow(c, [Seen(c) EXCEPT !.problem = calls[c].problem], Idle)
  <2>. DEFINE row == [Seen(c) EXCEPT !.problem = calls[c].problem]
  <2>1. ASSUME c \in current
        PROVE  /\ row \in RequestRow /\ RowFits(row)
               /\ Keeps(rows[r], row) /\ row.batch = rows[r].batch
    <3>1. /\ row \in RequestRow /\ row.status = rows[r].status /\ row.batch = rows[r].batch
          /\ row.started = rows[r].started /\ row.application = rows[r].application
      BY <1>2, <2>1 DEF RequestRow, Call
    <3>2. rows[r].status = "issuing" /\ RowFits(rows[r])
      BY <1>5, <1>7, <2>1
    <3>. HIDE DEF row
    <3>. QED
      BY <3>1, <3>2 DEF RowFits, Keeps, Later
  <2>. HIDE DEF row
  <2>. QED
    BY <1>6, <1>7, <2>1 DEF row
<1>8. CASE /\ Open(Seen(c)) /\ UNCHANGED <<drawn, pool, sent>>
           /\ SavesRow(c, [Seen(c) EXCEPT !.status = "issued", !.problem = "none"], Idle)
  <2>. DEFINE row == [Seen(c) EXCEPT !.status = "issued", !.problem = "none"]
  <2>1. ASSUME c \in current
        PROVE  /\ row \in RequestRow /\ RowFits(row)
               /\ Keeps(rows[r], row) /\ row.batch = rows[r].batch
    <3>1. /\ row \in RequestRow /\ row.status = "issued" /\ row.batch = rows[r].batch
          /\ row.started = rows[r].started /\ row.application = rows[r].application
      BY <1>2, <2>1 DEF RequestRow, Problem
    <3>2. rows[r].status = "issuing" /\ RowFits(rows[r])
      BY <1>5, <1>8, <2>1
    <3>. HIDE DEF row
    <3>. QED
      BY <3>1, <3>2 DEF RowFits, Keeps, Later
  <2>. HIDE DEF row
  <2>. QED
    BY <1>6, <1>8, <2>1 DEF row
<1>. QED
  BY <1>4, <1>7, <1>8 DEF Note, Issue

(* An approval and a reconciliation carry the row's batch from here on.     *)
LEMMA ReadingFits ==
  ASSUME NEW k \in Call, NEW row \in RequestRow, NEW rs, k.target \in DOMAIN rs,
         row.batch # 0, Follows(row, rs[k.target])
  PROVE  /\ [Reading(k, row) EXCEPT !.seen = << >>] \in Call
         /\ CallFits([Reading(k, row) EXCEPT !.seen = << >>], rs)
         /\ [Reading(k, row) EXCEPT !.seen = << >>].pc = "read"
<1>. DEFINE u == [Reading(k, row) EXCEPT !.seen = << >>]
<1>1. << >> \in Seq(RequestRow) /\ DOMAIN << >> = {}
  BY EmptySeq
<1>2. /\ u \in Call /\ u.pc = "read" /\ u.change = "none" /\ u.seen = << >>
      /\ u.target = k.target /\ u.batch = row.batch /\ u.started = row.started
  BY <1>1 DEF Reading, Call, RequestRow
<1>. HIDE DEF u
<1>3. CallFits(u, rs)
  BY <1>1, <1>2 DEF CallFits, Carries, Follows
<1>. QED
  BY <1>2, <1>3 DEF u

LEMMA ApproveStep ==
  ASSUME IInv, NEW c \in Calls, Approve(c)
  PROVE  IInv' /\ RowsMove(rows, rows')
<1>. DEFINE r == calls[c].target
            row == Seen(c)
            approved == [row EXCEPT !.status = "issuing", !.batch = drawn + 1]
            next == Reading(calls[c], approved)
            saved == [calls[c].seen EXCEPT ![r] = approved]
<1>1. /\ calls[c].pc = "save" /\ RowsFit(rows, drawn) /\ r \in DOMAIN rows
      /\ rows \in Seq(RequestRow) /\ rows[r] \in RequestRow /\ calls[c] \in Call
      /\ RowFits(row) /\ Follows(row, rows[r]) /\ r \in DOMAIN calls[c].seen
      /\ c \in current => row = rows[r]
      /\ c \in current => calls[c].seen = rows
      /\ drawn \in 0..MaxBatches /\ drawn \in Nat /\ MaxBatches \in Nat
  BY SeenFacts DEF Approve
<1>2. row \in RequestRow
  <2>1. calls[c].seen \in Seq(RequestRow)
    BY <1>1 DEF Call
  <2>. QED
    BY <1>1, <2>1, RowTypes DEF Seen
<1>3. Idle \in Call /\ CallFits(Idle, rows)
  BY IdleFits
<1>4. CASE Returns(c, Idle) /\ UNCHANGED <<pool, sent>>
  BY <1>1, <1>3, <1>4, IdleAgain, ReturnStep
<1>5. CASE Resumes(row) /\ Returns(c, Reading(calls[c], row)) /\ UNCHANGED <<pool, sent>>
  <2>1. row.batch # 0
    BY <1>1, <1>5 DEF Resumes, RowFits
  <2>. HIDE DEF row
  <2>2. /\ [Reading(calls[c], row) EXCEPT !.seen = << >>] \in Call
        /\ CallFits([Reading(calls[c], row) EXCEPT !.seen = << >>], rows)
    BY <1>1, <1>2, <2>1, ReadingFits
  <2>. QED
    BY <1>1, <1>5, <2>2, ReturnStep
<1>6. CASE /\ row.status = "pending" /\ drawn < MaxBatches
           /\ SavesRow(c, approved, next)
           /\ drawn' = IF rows' = rows THEN drawn ELSE drawn + 1
           /\ UNCHANGED <<pool, sent>>
  <2>1. Saves(c, saved, next)
    BY <1>6 DEF SavesRow
  <2>2. drawn + 1 \in 0..MaxBatches /\ drawn + 1 \in Nat /\ drawn <= drawn + 1 /\ drawn + 1 # 0
    BY <1>1, <1>6
  <2>3. /\ approved \in RequestRow /\ approved.status = "issuing" /\ approved.batch = drawn + 1
        /\ approved.started = row.started /\ approved.application = row.application
    BY <1>2, <2>2 DEF RequestRow
  <2>. HIDE DEF approved, row, r
  <2>4. ASSUME c \in current
        PROVE  /\ saved \in Seq(RequestRow) /\ RowsMove(rows, saved) /\ RowsFit(saved, drawn + 1)
               /\ saved # rows
               /\ [next EXCEPT !.seen = << >>] \in Call
               /\ CallFits([next EXCEPT !.seen = << >>], saved)
               /\ [next EXCEPT !.seen = << >>].pc = "read"
    <3>1. row = rows[r] /\ RowFits(rows[r]) /\ rows[r].batch = 0 /\ ~rows[r].started
      <4>1. row = rows[r]
        BY <1>1, <2>4
      <4>2. rows[r].batch = 0
        BY <1>1, <1>6, <4>1 DEF RowFits
      <4>. QED
        BY <1>1, <4>1, <4>2 DEF RowFits
    <3>2. RowFits(approved)
      BY <2>2, <2>3 DEF RowFits
    <3>3. Keeps(rows[r], approved)
      BY <1>6, <2>3, <3>1 DEF Keeps, Later
    <3>4. \A q \in DOMAIN rows : rows[q].batch # approved.batch
      <4>1. \A q \in DOMAIN rows : rows[q].batch <= drawn /\ rows[q].batch \in Nat
        <5>1. \A q \in DOMAIN rows : rows[q] \in RequestRow
          BY <1>1, RowTypes
        <5>. QED
          BY <1>1, <5>1, RequestsAssumption DEF RowsFit, RequestRow
      <4>. QED
        BY <1>1, <2>3, <4>1
    <3>5. saved = [rows EXCEPT ![r] = approved] /\ approved.batch <= drawn + 1
      BY <1>1, <2>2, <2>3, <2>4
    <3>. HIDE DEF saved
    <3>6. /\ saved \in Seq(RequestRow) /\ RowsMove(rows, saved) /\ RowsFit(saved, drawn + 1)
          /\ DOMAIN saved = DOMAIN rows /\ saved[r] = approved
      BY <1>1, <2>2, <2>3, <3>2, <3>3, <3>4, <3>5, RowReplaced
    <3>7. saved # rows
      BY <2>2, <2>3, <3>1, <3>6
    <3>8. Follows(approved, saved[r]) /\ r \in DOMAIN saved /\ approved.batch # 0
      BY <1>1, <2>2, <2>3, <3>6 DEF Follows
    <3>9. calls[c].target = r
      BY DEF r
    <3>. QED
      BY <1>1, <2>3, <3>6, <3>7, <3>8, <3>9, ReadingFits
  <2>5. RowsFit(rows', drawn') /\ drawn' \in 0..MaxBatches
    BY <1>1, <1>6, <2>1, <2>2, <2>4, SavesWhat
  <2>. HIDE DEF saved, next
  <2>. QED
    BY <1>1, <1>6, <2>1, <2>4, <2>5, SaveStep
<1>. QED
  BY <1>4, <1>5, <1>6 DEF Approve, Draws

LEMMA ChangingTyped ==
  ASSUME NEW k \in Call, NEW change \in {"started", "note", "issue"}
  PROVE  LET v == Changing(k, change) IN
         /\ v \in Call /\ v.pc = "load" /\ v.change = change /\ v.seen = k.seen
         /\ v.target = k.target /\ v.batch = k.batch /\ v.missing = k.missing
<1>1. 0 \in 0..3
  OBVIOUS
<1>. QED
  BY <1>1 DEF Changing, Call

(* A call that carries a batch goes on to its next save.                    *)
LEMMA ChangingFits ==
  ASSUME NEW k \in Call, NEW rs, CallFits(k, rs), k.pc \in {"read", "reread"}
  PROVE  /\ \A problem \in Problem : Noting(k, problem) \in Call /\ CallFits(Noting(k, problem), rs)
         /\ Issues(k) \in Call /\ CallFits(Issues(k), rs)
<1>1. /\ k.target \in DOMAIN rs /\ k.batch # 0 /\ rs[k.target].batch = k.batch
      /\ \A r \in DOMAIN k.seen : r \in DOMAIN rs /\ RowFits(k.seen[r]) /\ Follows(k.seen[r], rs[r])
  BY DEF CallFits, Carries
<1>2. ASSUME NEW problem \in Problem
      PROVE  Noting(k, problem) \in Call /\ CallFits(Noting(k, problem), rs)
  <2>. DEFINE v == Changing(k, "note")
              u == [v EXCEPT !.problem = problem, !.started = FALSE]
  <2>0. /\ v \in Call /\ v.pc = "load" /\ v.change = "note" /\ v.seen = k.seen
        /\ v.target = k.target /\ v.batch = k.batch /\ v.missing = k.missing
    BY ChangingTyped, Zenon
  <2>. HIDE DEF v
  <2>1. /\ u \in Call /\ u.pc = "load" /\ u.change = "note" /\ u.started = FALSE
        /\ u.seen = k.seen /\ u.target = k.target /\ u.batch = k.batch
    BY <2>0 DEF Call
  <2>. HIDE DEF u
  <2>2. CallFits(u, rs)
    BY <1>1, <2>1 DEF CallFits, Carries
  <2>3. u = Noting(k, problem)
    BY DEF u, v, Noting
  <2>. QED
    BY <2>1, <2>2, <2>3
<1>3. Issues(k) \in Call /\ CallFits(Issues(k), rs)
  <2>. DEFINE v == Changing(k, "issue")
              u == [v EXCEPT !.started = FALSE]
  <2>0. /\ v \in Call /\ v.pc = "load" /\ v.change = "issue" /\ v.seen = k.seen
        /\ v.target = k.target /\ v.batch = k.batch /\ v.missing = k.missing
    BY ChangingTyped, Zenon
  <2>. HIDE DEF v
  <2>1. /\ u \in Call /\ u.pc = "load" /\ u.change = "issue" /\ u.started = FALSE
        /\ u.seen = k.seen /\ u.target = k.target /\ u.batch = k.batch
    BY <2>0 DEF Call
  <2>. HIDE DEF u
  <2>2. CallFits(u, rs)
    BY <1>1, <2>1 DEF CallFits, Carries
  <2>3. u = Issues(k)
    BY DEF u, v, Issues
  <2>. QED
    BY <2>1, <2>2, <2>3
<1>. QED
  BY <1>2, <1>3

(* After the first readback: what is sent at once was recorded, and what    *)
(* was not is recorded first.                                               *)
LEMMA JudgedFits ==
  ASSUME NEW k \in Call, NEW rs, CallFits(k, rs), k.pc = "read",
         rs[k.target].started \in BOOLEAN
  PROVE  Judged(k) \in Call /\ CallFits(Judged(k), rs)
<1>. DEFINE missing == Missing(k.batch)
            u == [k EXCEPT !.pc = "import", !.started = FALSE, !.missing = missing]
            v == Changing(u, "started")
<1>1. /\ k.target \in DOMAIN rs /\ k.batch # 0 /\ rs[k.target].batch = k.batch
      /\ k.started => rs[k.target].started
      /\ \A r \in DOMAIN k.seen : r \in DOMAIN rs /\ RowFits(k.seen[r]) /\ Follows(k.seen[r], rs[r])
      /\ k.change = "create" => k.target \in Applications
  BY DEF CallFits, Carries
<1>2. k.batch \in 1..MaxBatches
  BY <1>1, RequestsAssumption DEF Call
<1>3. missing \subseteq CodesOf(k.batch) /\ missing \in SUBSET Code
  BY <1>2 DEF Missing, CodesOf, Code
<1>. HIDE DEF missing
<1>4. /\ u \in Call /\ u.pc = "import" /\ u.started = FALSE /\ u.missing = missing
      /\ u.seen = k.seen /\ u.target = k.target /\ u.batch = k.batch /\ u.change = k.change
  BY <1>3 DEF Call
<1>. HIDE DEF u
<1>5. /\ v \in Call /\ v.pc = "load" /\ v.change = "started" /\ v.seen = u.seen
      /\ v.target = u.target /\ v.batch = u.batch /\ v.missing = u.missing
  BY <1>4, ChangingTyped, Zenon
<1>5a. v.started = FALSE
  BY <1>4 DEF Changing, Call
<1>. HIDE DEF v
<1>6. CallFits(v, rs)
  BY <1>1, <1>3, <1>4, <1>5, <1>5a DEF CallFits, Carries
<1>7. k.started => CallFits(u, rs)
  BY <1>1, <1>3, <1>4 DEF CallFits, Carries
<1>8. /\ Noting(k, "conflict") \in Call /\ CallFits(Noting(k, "conflict"), rs)
      /\ Issues(k) \in Call /\ CallFits(Issues(k), rs)
  BY ChangingFits DEF Problem
<1>9. Judged(k) \in {Noting(k, "conflict"), Issues(k), v} \/ (k.started /\ Judged(k) = u)
  BY DEF Judged, u, v, missing
<1>. QED
  BY <1>4, <1>5, <1>6, <1>7, <1>8, <1>9

LEMMA ReadbackStep ==
  ASSUME IInv, NEW c \in Calls, Readback(c) \/ ReadbackFails(c)
  PROVE  IInv' /\ RowsMove(rows, rows')
<1>1. /\ calls[c] \in Call /\ CallFits(calls[c], rows) /\ rows \in Seq(RequestRow)
      /\ faults \in 0..MaxFaults
  BY DEF IInv, TypeOK
<1>2. \A r \in DOMAIN rows : rows[r].started \in BOOLEAN
  BY <1>1, RowTypes DEF RequestRow
<1>3. /\ calls[c].pc \in {"read", "reread"} /\ UNCHANGED <<rows, drawn, pool, sent, current>>
      /\ faults' \in 0..MaxFaults
  BY <1>1, RequestsAssumption DEF Readback, ReadbackFails
<1>4. calls[c].target \in DOMAIN rows
  BY <1>1, <1>3 DEF CallFits, Carries
<1>5. /\ \A problem \in Problem : /\ Noting(calls[c], problem) \in Call
                                 /\ CallFits(Noting(calls[c], problem), rows)
      /\ Issues(calls[c]) \in Call /\ CallFits(Issues(calls[c]), rows)
  BY <1>1, <1>3, ChangingFits
<1>6. PICK k : /\ calls' = [calls EXCEPT ![c] = k]
               /\ \/ calls[c].pc = "read" /\ k = Judged(calls[c])
                  \/ k = Rejudged(calls[c])
                  \/ k \in {Noting(calls[c], "unreadable"), Noting(calls[c], "incomplete")}
  BY DEF Readback, ReadbackFails, Goes
<1>7. k \in Call /\ CallFits(k, rows)
  <2>1. CASE calls[c].pc = "read" /\ k = Judged(calls[c])
    BY <1>1, <1>2, <1>4, <2>1, JudgedFits
  <2>2. CASE k = Rejudged(calls[c])
    <3>1. k \in {Noting(calls[c], "conflict"), Noting(calls[c], "incomplete"), Issues(calls[c])}
      BY <2>2 DEF Rejudged
    <3>. QED
      BY <1>5, <3>1 DEF Problem
  <2>3. CASE k \in {Noting(calls[c], "unreadable"), Noting(calls[c], "incomplete")}
    BY <1>5, <2>3 DEF Problem
  <2>. QED
    BY <1>6, <2>1, <2>2, <2>3
<1>. QED
  BY <1>3, <1>6, <1>7, QuietStep

(* What an import sends is of a batch whose import the document records.    *)
LEMMA ImportStep ==
  ASSUME IInv, NEW c \in Calls, Import(c)
  PROVE  IInv' /\ RowsMove(rows, rows')
<1>. DEFINE k == calls[c]
            u == [k EXCEPT !.pc = "reread", !.missing = {}]
<1>1. /\ k \in Call /\ CallFits(k, rows) /\ rows \in Seq(RequestRow) /\ RowsFit(rows, drawn)
      /\ current \subseteq Calls /\ sent \in [Code -> 0..MaxSent]
  BY DEF IInv, TypeOK
<1>2. /\ k.pc = "import" /\ calls' = [calls EXCEPT ![c] = u]
      /\ UNCHANGED <<rows, drawn, current, pool, faults>>
      /\ sent' = [j \in Code |-> IF j \in k.missing /\ sent[j] < MaxSent
                                THEN sent[j] + 1 ELSE sent[j]]
  BY DEF Import, Goes
<1>3. /\ k.target \in DOMAIN rows /\ rows[k.target].batch = k.batch /\ rows[k.target].started
      /\ k.missing \subseteq CodesOf(k.batch) /\ k.batch # 0
      /\ k.started => rows[k.target].started
  BY <1>1, <1>2 DEF CallFits, Carries
<1>4. /\ u \in Call /\ u.pc = "reread" /\ u.missing = {} /\ u.change = k.change
      /\ u.seen = k.seen /\ u.target = k.target /\ u.batch = k.batch /\ u.started = k.started
  BY <1>1 DEF Call
<1>. HIDE DEF u
<1>5. CallFits(u, rows)
  BY <1>1, <1>3, <1>4 DEF CallFits, Carries
<1>6. sent' \in [Code -> 0..MaxSent]
  <2>1. \A j \in Code : (IF j \in k.missing /\ sent[j] < MaxSent THEN sent[j] + 1 ELSE sent[j])
                         \in 0..MaxSent
    BY <1>1, RequestsAssumption
  <2>. QED
    BY <1>2, <2>1
<1>7. Accounted'
  <2>. SUFFICES ASSUME NEW j \in Code, pool[j] # "absent" \/ sent'[j] > 0
                PROVE  \E r \in DOMAIN rows : rows[r].batch = j[1] /\ rows[r].started
    BY <1>2 DEF Accounted
  <2>1. CASE j \in k.missing
    <3>1. j[1] = k.batch
      BY <1>3, <2>1 DEF CodesOf
    <3>. QED
      BY <1>3, <3>1
  <2>2. CASE j \notin k.missing
    <3>1. sent'[j] = sent[j]
      BY <1>2, <2>2
    <3>. QED
      BY <3>1 DEF IInv, Accounted
  <2>. QED
    BY <2>1, <2>2
<1>8. RowsMove(rows, rows')
  BY <1>1, <1>2, RowTypes
<1>9. c \notin current
  BY <1>2 DEF IInv, CurrentFits
<1>. HIDE DEF k
<1>. QED
  BY <1>1, <1>2, <1>4, <1>5, <1>6, <1>7, <1>8, <1>9, CallStep DEF IInv, TypeOK

LEMMA AskStep ==
  ASSUME IInv, NEW c \in Calls, Ask(c)
  PROVE  IInv' /\ RowsMove(rows, rows')
<1>1. rows \in Seq(RequestRow) /\ calls[c].pc = "idle" /\ UNCHANGED <<rows, drawn, current, pool, sent, faults>>
  BY DEF Ask, IInv, TypeOK
<1>2. DOMAIN rows \subseteq Nat
  BY <1>1, LenProperties
<1>3. PICK op \in {"create", "reject", "approve", "reconcile"}, target \in Applications \cup DOMAIN rows,
           change \in {"create", "reject", "approve"} :
        /\ calls' = [calls EXCEPT ![c] = Asked(op, target, change)]
        /\ change = "create" => target \in Applications
        /\ change # "create" => target \in DOMAIN rows
  BY DEF Ask, Apply, AskReject, AskApprove, Goes
<1>. DEFINE k == Asked(op, target, change)
<1>4. Idle \in Call /\ Idle.seen = << >> /\ DOMAIN << >> = {}
  BY IdleFits, EmptySeq
<1>5. /\ k \in Call /\ k.pc = "load" /\ k.seen = << >> /\ k.change = change /\ k.target = target
  BY <1>2, <1>4 DEF Asked, Call
<1>. HIDE DEF k
<1>6. CallFits(k, rows)
  BY <1>3, <1>4, <1>5 DEF CallFits, Carries
<1>7. faults' \in 0..MaxFaults
  BY <1>1 DEF IInv, TypeOK
<1>. QED
  BY <1>1, <1>3, <1>5, <1>6, <1>7, QuietStep DEF k

(* The engine, the network and the process.                                 *)
LEMMA OutsideStep ==
  ASSUME IInv, Restart \/ UNCHANGED vars \/ \E k \in Code : Deliver(k) \/ Lose(k)
  PROVE  IInv' /\ RowsMove(rows, rows')
<1>1. /\ rows \in Seq(RequestRow) /\ UNCHANGED <<rows, drawn>>
      /\ faults' \in {faults, faults + 1} /\ (faults' # faults => faults < MaxFaults)
      /\ faults \in 0..MaxFaults
  BY DEF IInv, TypeOK, Restart, Deliver, Lose, vars
<1>2. RowsMove(rows, rows')
  BY <1>1, RowTypes
<1>3. faults' \in 0..MaxFaults
  BY <1>1, RequestsAssumption
<1>4. \/ UNCHANGED <<calls, current>>
      \/ /\ calls' = [c \in Calls |-> Idle] /\ current' = {} /\ UNCHANGED <<pool, sent>>
  BY DEF Restart, Deliver, Lose, vars
<1>5. /\ pool' \in [Code -> {"absent", "unused", "off"}] /\ sent' \in [Code -> 0..MaxSent]
      /\ \A k \in Code : pool'[k] # "absent" \/ sent'[k] > 0 => pool[k] # "absent" \/ sent[k] > 0
  <2>1. pool \in [Code -> {"absent", "unused", "off"}] /\ sent \in [Code -> 0..MaxSent]
    BY DEF IInv, TypeOK
  <2>2. CASE Restart \/ UNCHANGED vars
    BY <2>1, <2>2 DEF Restart, vars
  <2>3. ASSUME NEW k \in Code, Deliver(k) \/ Lose(k)
        PROVE  /\ pool' \in [Code -> {"absent", "unused", "off"}] /\ sent' \in [Code -> 0..MaxSent]
               /\ \A j \in Code : pool'[j] # "absent" \/ sent'[j] > 0 => pool[j] # "absent" \/ sent[j] > 0
    <3>1. sent[k] > 0 /\ sent' = [sent EXCEPT ![k] = sent[k] - 1]
      BY <2>3 DEF Deliver, Lose
    <3>2. sent[k] \in 0..MaxSent /\ sent[k] - 1 \in 0..MaxSent
      BY <2>1, <3>1, RequestsAssumption
    <3>3. sent' \in [Code -> 0..MaxSent] /\ \A j \in Code \ {k} : sent'[j] = sent[j]
      BY <2>1, <3>1, <3>2
    <3>4. \E state \in {"absent", "unused", "off"} : pool' = [pool EXCEPT ![k] = state]
      <4>1. CASE Lose(k)
        BY <2>1, <4>1 DEF Lose
      <4>2. CASE Deliver(k)
        BY <2>1, <4>2 DEF Deliver
      <4>. QED
        BY <2>3, <4>1, <4>2
    <3>5. pool' \in [Code -> {"absent", "unused", "off"}] /\ \A j \in Code \ {k} : pool'[j] = pool[j]
      BY <2>1, <3>4
    <3>. QED
      BY <3>1, <3>3, <3>5
  <2>. QED
    BY <2>2, <2>3
<1>6. Accounted'
  BY <1>1, <1>5 DEF IInv, Accounted
<1>7. TypeOK'
  <2>1. calls' \in [Calls -> Call]
    BY <1>4, IdleFits DEF IInv, TypeOK
  <2>. QED
    BY <1>1, <1>3, <1>4, <1>5, <2>1 DEF IInv, TypeOK
<1>8. (\A c \in Calls : CallFits(calls'[c], rows)) /\ CurrentFits'
  <2>1. CASE UNCHANGED <<calls, current>>
    BY <1>1, <2>1 DEF IInv, CurrentFits
  <2>2. CASE calls' = [c \in Calls |-> Idle] /\ current' = {}
    BY <2>2, IdleFits DEF CurrentFits
  <2>. QED
    BY <1>4, <2>1, <2>2
<1>. QED
  BY <1>1, <1>2, <1>6, <1>7, <1>8 DEF IInv

(***************************************************************************)
(* The invariant                                                           *)
(***************************************************************************)
LEMMA InitInvariant == Init => IInv
<1>. SUFFICES ASSUME Init PROVE IInv
  OBVIOUS
<1>1. << >> \in Seq(RequestRow) /\ DOMAIN << >> = {}
  BY EmptySeq
<1>2. TypeOK
  BY <1>1, IdleFits, RequestsAssumption DEF Init, TypeOK
<1>3. \A c \in Calls : CallFits(calls[c], rows)
  BY IdleFits DEF Init
<1>4. Accounted
  BY DEF Init, Accounted
<1>. QED
  BY <1>1, <1>2, <1>3, <1>4 DEF Init, IInv, RowsFit, CurrentFits

LEMMA NextInvariant == IInv /\ [Next]_vars => IInv' /\ RowsMove(rows, rows')
<1>. SUFFICES ASSUME IInv, [Next]_vars PROVE IInv' /\ RowsMove(rows, rows')
  OBVIOUS
<1>1. ASSUME NEW c \in Calls, Step(c) PROVE IInv' /\ RowsMove(rows, rows')
  BY <1>1, LoadStep, CreateStep, RejectStep, ApproveStep, ReadbackStep, ImportStep,
     StartedStep, EndStep DEF Step
<1>2. ASSUME NEW c \in Calls, Ask(c) \/ ReadbackFails(c) PROVE IInv' /\ RowsMove(rows, rows')
  BY <1>2, AskStep, ReadbackStep
<1>3. CASE Restart \/ UNCHANGED vars \/ \E k \in Code : Deliver(k) \/ Lose(k)
  BY <1>3, OutsideStep
<1>. QED
  BY <1>1, <1>2, <1>3 DEF Next

(* Every reachable state satisfies the inductive invariant.                 *)
THEOREM Invariance == Spec => []IInv
  BY InitInvariant, NextInvariant, PTL DEF Spec

(* Nothing leaves the service that the document does not account for: a     *)
(* code that the engine holds, or may yet receive, is of a batch recorded   *)
(* as being imported, of one application, which is not rejected.            *)
THEOREM CodesAreWrittenAhead == Spec => []WrittenAhead
<1>1. IInv => WrittenAhead
  <2>. SUFFICES ASSUME IInv, NEW k \in Code, pool[k] # "absent" \/ sent[k] > 0
                PROVE  \E r \in RowsOf(k) : /\ RowsOf(k) = {r} /\ rows[r].started
                                           /\ rows[r].status \in {"issuing", "issued"}
    BY DEF WrittenAhead
  <2>1. PICK r \in DOMAIN rows : rows[r].batch = k[1] /\ rows[r].started
    BY DEF IInv, Accounted
  <2>2. RowFits(rows[r]) /\ \A q \in DOMAIN rows : rows[r].batch = rows[q].batch /\ rows[r].batch # 0 => r = q
    BY DEF IInv, RowsFit
  <2>3. RowsOf(k) = {r}
    BY <2>1, <2>2 DEF RowsOf, RowFits
  <2>4. rows[r].status \in {"pending", "issuing", "issued", "rejected"}
    BY RowTypes DEF IInv, TypeOK, RequestRow
  <2>. QED
    BY <2>1, <2>2, <2>3, <2>4 DEF RowFits
<1>. QED
  BY <1>1, Invariance, PTL

(* No call takes back what another one wrote, whatever it had loaded.       *)
THEOREM NothingIsTakenBack == Spec => NothingTakenBack
<1>1. RowsMove(rows, rows') =>
        [\A r \in DOMAIN rows : r \in DOMAIN rows' /\ Keeps(rows[r], rows'[r])]_rows
  BY DEF RowsMove
<1>. QED
  BY <1>1, Invariance, NextInvariant, PTL DEF Spec, NothingTakenBack

=============================================================================
