--------------------------- MODULE RelayDesk_proofs ---------------------------
(***************************************************************************)
(* Proofs about RelayDesk for any addresses, any plan of requests and any  *)
(* rows registered at the start.                                           *)
(*                                                                         *)
(* Rows are changed by requests that looked at them, and at the mail       *)
(* service, some time before.  What they rely on is what later changes     *)
(* leave alone (Before): which address a row is of, under which main       *)
(* mailbox, and to what it is bound.                                       *)
(***************************************************************************)
EXTENDS RelayDesk, FiniteSetTheorems, SequenceTheorems, TLAPS

(***************************************************************************)
(* Sequences                                                               *)
(***************************************************************************)
\* The sequence "new" is seq with e behind it.
IsAppended(new, seq, e) ==
  /\ new \in Seq(RowRecord)
  /\ \A i \in DOMAIN seq : i \in DOMAIN new /\ new[i] = seq[i]
  /\ \A i \in DOMAIN new \ DOMAIN seq : i = Len(seq) + 1 /\ new[i] = e

LEMMA Appended ==
  ASSUME NEW seq \in Seq(RowRecord), NEW e \in RowRecord,
         NEW new, new = Append(seq, e)
  PROVE  IsAppended(new, seq, e)
<1>. DEFINE n == Len(seq)
<1>1. n \in Nat /\ DOMAIN seq = 1..n
  BY LenProperties
<1>2. /\ new \in Seq(RowRecord) /\ DOMAIN new = 1..(n + 1) /\ new[n + 1] = e
      /\ \A i \in 1..n : new[i] = seq[i]
  BY AppendProperties, LenProperties
<1>. HIDE DEF n
<1>3. \A i \in 1..n : i \in 1..(n + 1)
  BY <1>1
<1>4. \A i \in 1..(n + 1) : i \notin 1..n => i = n + 1
  BY <1>1
<1>5. \A i \in DOMAIN seq : i \in DOMAIN new /\ new[i] = seq[i]
  BY <1>1, <1>2, <1>3
<1>6. \A i \in DOMAIN new \ DOMAIN seq : i = n + 1 /\ new[i] = e
  BY <1>1, <1>2, <1>4
<1>. QED
  BY <1>2, <1>5, <1>6 DEF n, IsAppended

LEMMA Joined ==
  ASSUME NEW R, NEW seq \in Seq(R), NEW more \in Seq(R)
  PROVE  /\ seq \o more \in Seq(R)
         /\ \A i \in DOMAIN seq : i \in DOMAIN (seq \o more) /\ (seq \o more)[i] = seq[i]
         /\ \A i \in DOMAIN (seq \o more) \ DOMAIN seq :
              i - Len(seq) \in DOMAIN more /\ (seq \o more)[i] = more[i - Len(seq)]
         /\ \A i, j \in DOMAIN (seq \o more) : i - Len(seq) = j - Len(seq) => i = j
<1>. DEFINE new == seq \o more
            n == Len(seq)
            m == Len(more)
<1>1. n \in Nat /\ m \in Nat /\ DOMAIN seq = 1..n /\ DOMAIN more = 1..m
  BY LenProperties
<1>2. /\ new \in Seq(R) /\ DOMAIN new = 1..(n + m)
      /\ \A i \in 1..(n + m) : new[i] = IF i <= n THEN seq[i] ELSE more[i - n]
  BY ConcatProperties, LenProperties
<1>. HIDE DEF new, n, m
<1>3. \A i \in 1..n : i \in 1..(n + m) /\ i <= n
  BY <1>1
<1>4. \A i \in 1..(n + m) : i \notin 1..n => i - n \in 1..m /\ ~(i <= n)
  BY <1>1
<1>5. \A i \in DOMAIN seq : i \in DOMAIN new /\ new[i] = seq[i]
  BY <1>1, <1>2, <1>3
<1>6. \A i \in DOMAIN new \ DOMAIN seq : i - n \in DOMAIN more /\ new[i] = more[i - n]
  BY <1>1, <1>2, <1>4
<1>7. \A i, j \in 1..(n + m) : i - n = j - n => i = j
  BY <1>1
<1>. QED
  BY <1>2, <1>5, <1>6, <1>7 DEF new, n

(***************************************************************************)
(* Rows                                                                    *)
(***************************************************************************)
LEMMA RowTypes ==
  ASSUME NEW rows, RowsOK(rows)
  PROVE  /\ rows \in Seq(RowRecord) /\ Len(rows) \in Nat /\ DOMAIN rows = 1..Len(rows)
         /\ 0 \notin DOMAIN rows
         /\ \A r \in DOMAIN rows :
              /\ rows[r] \in RowRecord /\ rows[r].email \in Addresses
              /\ rows[r].email # "" /\ (Bound(rows, r) => rows[r].bound = rows[r].email)
<1>1. rows \in Seq(RowRecord) /\ Len(rows) \in Nat /\ DOMAIN rows = 1..Len(rows)
  BY LenProperties DEF RowsOK
<1>2. \A r \in DOMAIN rows : rows[r] \in RowRecord
  BY <1>1, ElementOfSeq
<1>3. \A r \in DOMAIN rows : rows[r].email \in Addresses
  BY <1>2 DEF RowRecord
<1>4. \A r \in DOMAIN rows : rows[r].email # "" /\ (Bound(rows, r) => rows[r].bound = rows[r].email)
  BY <1>3, AddressesAssumption DEF RowsOK, Bound
<1>5. 0 \notin DOMAIN rows
  BY <1>1
<1>. QED
  BY <1>1, <1>2, <1>3, <1>4, <1>5

LEMMA BeforeSelf == ASSUME NEW rows PROVE Before(rows, rows)
  BY DEF Before

LEMMA BeforeTwice ==
  ASSUME NEW rows, NEW some, NEW later, Before(rows, some), Before(some, later)
  PROVE  Before(rows, later)
  BY DEF Before, Bound

(* Rows bound to their addresses, or not.                                   *)
LEMMA RowsRebound ==
  ASSUME NEW rows, RowsOK(rows), NEW later \in Seq(RowRecord), DOMAIN later = DOMAIN rows,
         \A r \in DOMAIN rows :
           /\ later[r].email = rows[r].email /\ later[r].owner = rows[r].owner
           /\ later[r].bound \in {rows[r].bound, rows[r].email}
           /\ ~IsMain(rows, r) /\ later[r].bound # "" => Bound(rows, rows[r].owner)
  PROVE  RowsOK(later) /\ Before(rows, later)
<1>1. \A r \in DOMAIN rows : rows[r].bound \in {"", rows[r].email}
  BY DEF RowsOK
<1>2. \A r \in DOMAIN rows : Bound(rows, r) => later[r].bound = rows[r].bound
  BY <1>1 DEF Bound
<1>3. Before(rows, later)
  BY <1>2 DEF Before
<1>4. ASSUME NEW r \in DOMAIN later
      PROVE  /\ later[r].bound \in {"", later[r].email}
             /\ IsMain(later, r) => later[r].email \in Mains
             /\ ~IsMain(later, r) =>
                  /\ later[r].email \in Hidden
                  /\ later[r].owner \in DOMAIN later /\ IsMain(later, later[r].owner)
                  /\ Bound(later, r) => Bound(later, later[r].owner)
  <2>1. /\ r \in DOMAIN rows /\ later[r].email = rows[r].email /\ later[r].owner = rows[r].owner
        /\ IsMain(rows, r) => rows[r].email \in Mains
        /\ ~IsMain(rows, r) => /\ rows[r].email \in Hidden
                               /\ rows[r].owner \in DOMAIN rows /\ IsMain(rows, rows[r].owner)
    BY DEF RowsOK
  <2>2. ~IsMain(rows, r) => later[rows[r].owner].owner = 0
    BY <2>1 DEF IsMain
  <2>3. ~IsMain(rows, r) /\ later[r].bound # "" => later[rows[r].owner].bound # ""
    BY <1>2, <2>1 DEF Bound
  <2>4. later[r].bound \in {"", later[r].email}
    BY <1>1, <2>1
  <2>. QED
    BY <2>1, <2>2, <2>3, <2>4 DEF IsMain, Bound
<1>5. \A r, s \in DOMAIN later : later[r].email = later[s].email => r = s
  BY DEF RowsOK
<1>. QED
  BY <1>3, <1>4, <1>5 DEF RowsOK

(* What a row is bound to is outside and belongs to its main mailbox.       *)
Backed(rows, outside, r) ==
  /\ outside[rows[r].email].there
  /\ IsMain(rows, r) \/ outside[rows[r].email].owner = rows[rows[r].owner].bound

LEMMA ReboundOutside ==
  ASSUME NEW rows, RowsOK(rows), NEW later, RowsOK(later), Before(rows, later),
         DOMAIN later = DOMAIN rows, NEW outside, BoundOutside(rows, outside),
         \A r \in DOMAIN rows :
           ~Bound(rows, r) /\ Bound(later, r) =>
             Backed(rows, outside, r) /\ (~IsMain(rows, r) => Bound(rows, rows[r].owner))
  PROVE  BoundOutside(later, outside)
<1>. SUFFICES ASSUME NEW r \in DOMAIN rows, Bound(later, r)
              PROVE  /\ outside[later[r].bound].there
                     /\ IsMain(later, r) \/ outside[later[r].bound].owner = later[later[r].owner].bound
  BY DEF BoundOutside
<1>1. /\ later[r].bound = rows[r].email /\ later[r].email = rows[r].email
      /\ later[r].owner = rows[r].owner /\ (Bound(rows, r) => rows[r].bound = rows[r].email)
  BY RowTypes DEF Before
<1>2. Backed(rows, outside, r) /\ (~IsMain(rows, r) => Bound(rows, rows[r].owner))
  <2>1. CASE ~Bound(rows, r)
    BY <2>1
  <2>2. CASE Bound(rows, r)
    <3>1. Backed(rows, outside, r)
      BY <1>1, <2>2 DEF BoundOutside, Backed
    <3>2. ~IsMain(rows, r) => Bound(rows, rows[r].owner)
      BY <2>2 DEF RowsOK
    <3>. QED
      BY <3>1, <3>2
  <2>. QED
    BY <2>1, <2>2
<1>3. ~IsMain(rows, r) => later[rows[r].owner].bound = rows[rows[r].owner].bound
  BY <1>2 DEF Before, RowsOK
<1>. QED
  BY <1>1, <1>2, <1>3 DEF Backed, IsMain

(* Rows added: of main mailboxes, or of hidden addresses under one.         *)
NewRow(rows, row) ==
  /\ row.bound \in {"", row.email}
  /\ row.owner = 0 => row.email \in Mains
  /\ row.owner # 0 => /\ row.email \in Hidden
                      /\ row.owner \in DOMAIN rows /\ IsMain(rows, row.owner)
                      /\ row.bound # "" => Bound(rows, row.owner)

Grown(rows, later) ==
  /\ later \in Seq(RowRecord)
  /\ \A r \in DOMAIN rows : r \in DOMAIN later /\ later[r] = rows[r]
  /\ \A r \in DOMAIN later \ DOMAIN rows :
       /\ NewRow(rows, later[r])
       /\ \A s \in DOMAIN later : later[s].email = later[r].email => s = r

LEMMA RowsGrown ==
  ASSUME NEW rows, RowsOK(rows), NEW later, Grown(rows, later)
  PROVE  RowsOK(later) /\ Before(rows, later)
<1>1. Before(rows, later)
  BY DEF Before, Grown
<1>2. \A r, s \in DOMAIN later : later[r].email = later[s].email => r = s
  BY DEF RowsOK, Grown
<1>3. ASSUME NEW r \in DOMAIN rows
      PROVE  /\ later[r].bound \in {"", later[r].email}
             /\ IsMain(later, r) => later[r].email \in Mains
             /\ ~IsMain(later, r) =>
                  /\ later[r].email \in Hidden
                  /\ later[r].owner \in DOMAIN later /\ IsMain(later, later[r].owner)
                  /\ Bound(later, r) => Bound(later, later[r].owner)
  <2>1. /\ later[r] = rows[r]
        /\ rows[r].owner \in DOMAIN rows => later[rows[r].owner] = rows[rows[r].owner]
        /\ rows[r].owner \in DOMAIN rows => rows[r].owner \in DOMAIN later
    BY DEF Grown
  <2>2. /\ rows[r].bound \in {"", rows[r].email}
        /\ IsMain(rows, r) => rows[r].email \in Mains
        /\ ~IsMain(rows, r) => /\ rows[r].email \in Hidden
                               /\ rows[r].owner \in DOMAIN rows /\ IsMain(rows, rows[r].owner)
                               /\ Bound(rows, r) => Bound(rows, rows[r].owner)
    BY DEF RowsOK
  <2>. QED
    BY <2>1, <2>2 DEF IsMain, Bound
<1>4. ASSUME NEW r \in DOMAIN later \ DOMAIN rows
      PROVE  /\ later[r].bound \in {"", later[r].email}
             /\ IsMain(later, r) => later[r].email \in Mains
             /\ ~IsMain(later, r) =>
                  /\ later[r].email \in Hidden
                  /\ later[r].owner \in DOMAIN later /\ IsMain(later, later[r].owner)
                  /\ Bound(later, r) => Bound(later, later[r].owner)
  <2>1. NewRow(rows, later[r])
    BY DEF Grown
  <2>2. later[r].owner \in DOMAIN rows => /\ later[r].owner \in DOMAIN later
                                         /\ later[later[r].owner] = rows[later[r].owner]
    BY DEF Grown
  <2>. QED
    BY <2>1, <2>2 DEF NewRow, IsMain, Bound
<1>. QED
  BY <1>1, <1>2, <1>3, <1>4 DEF RowsOK, Grown

LEMMA GrownOutside ==
  ASSUME NEW rows, RowsOK(rows), NEW later, Grown(rows, later),
         NEW outside, BoundOutside(rows, outside),
         \A r \in DOMAIN later \ DOMAIN rows : later[r].bound # "" =>
           /\ outside[later[r].bound].there
           /\ later[r].owner = 0 \/ outside[later[r].bound].owner = rows[later[r].owner].bound
  PROVE  BoundOutside(later, outside)
<1>1. ASSUME NEW r \in DOMAIN rows, Bound(later, r)
      PROVE  /\ outside[later[r].bound].there
             /\ IsMain(later, r) \/ outside[later[r].bound].owner = later[later[r].owner].bound
  <2>1. /\ later[r] = rows[r]
        /\ rows[r].owner \in DOMAIN rows => later[rows[r].owner] = rows[rows[r].owner]
        /\ rows[r].owner # 0 => rows[r].owner \in DOMAIN rows
    BY DEF Grown, RowsOK, IsMain
  <2>2. /\ outside[rows[r].bound].there
        /\ rows[r].owner = 0 \/ outside[rows[r].bound].owner = rows[rows[r].owner].bound
    BY <1>1, <2>1 DEF BoundOutside, Bound, IsMain
  <2>. QED
    BY <2>1, <2>2 DEF IsMain
<1>2. ASSUME NEW r \in DOMAIN later \ DOMAIN rows, Bound(later, r)
      PROVE  /\ outside[later[r].bound].there
             /\ IsMain(later, r) \/ outside[later[r].bound].owner = later[later[r].owner].bound
  BY <1>2 DEF Grown, NewRow, Bound, IsMain
<1>. QED
  BY <1>1, <1>2 DEF BoundOutside

(* SetToSeq lists each element of a finite set once.                        *)
LEMMA ListedOnce ==
  ASSUME NEW S, IsFiniteSet(S)
  PROVE  /\ SetToSeq(S) \in Seq(S) /\ DOMAIN SetToSeq(S) = 1..Cardinality(S)
         /\ \A j, k \in DOMAIN SetToSeq(S) : SetToSeq(S)[j] = SetToSeq(S)[k] => j = k
<1>1. Cardinality(S) \in Nat
  BY FS_CardinalityType
<1>2. ExistsBijection(1..Cardinality(S), S)
  BY FS_CardinalityType
<1>3. \E g \in [1..Cardinality(S) -> S] : IsInjective(g)
  BY <1>2 DEF ExistsBijection, Bijection, Injection, IsInjective
<1>4. SetToSeq(S) \in [1..Cardinality(S) -> S] /\ IsInjective(SetToSeq(S))
  BY <1>3 DEF SetToSeq
<1>5. SetToSeq(S) \in Seq(S)
  BY <1>1, <1>4, SeqDef
<1>. QED
  BY <1>4, <1>5 DEF IsInjective

(***************************************************************************)
(* Requests                                                                *)
(***************************************************************************)
(* What a step may do to rows, addresses and codes: rows move on, what is   *)
(* at the mail service stays there, and a code given out that does not name *)
(* an address never will.                                                   *)
WorldMoves ==
  /\ Before(book.rows, book'.rows)
  /\ codes <= codes' /\ asked <= asked'
  /\ \A x \in Addresses :
       /\ up[x].there => up'[x].there
       /\ \A k \in Nat : k <= codes /\ ~Names(up, x, k) => ~Names(up', x, k)

(* A step that leaves all of that alone, but for requests' numbers.         *)
Quiet == UNCHANGED <<up, mail, book, codes, late>> /\ asked' \in Nat /\ asked <= asked'

LEMMA QuietMoves ==
  ASSUME WorldOK, Quiet
  PROVE  WorldOK' /\ WorldMoves
<1>1. WorldOK'
  BY DEF WorldOK, Quiet
<1>2. codes <= codes'
  BY DEF WorldOK, Quiet
<1>. QED
  BY <1>1, <1>2, BeforeSelf DEF WorldMoves, Quiet

LEMMA SnapshotStays ==
  ASSUME WorldMoves, NEW rows, Snapshot(rows)
  PROVE  Snapshot(rows)'
<1>1. Before(rows, book'.rows)
  BY BeforeTwice DEF Snapshot, WorldMoves
<1>. QED
  BY <1>1 DEF Snapshot

LEMMA OwnSnapshot ==
  ASSUME WorldOK
  PROVE  Snapshot(book.rows)
  BY BeforeSelf DEF WorldOK, Snapshot

(* What was true of a request stays true while others are served.           *)
LEMMA FitsStay ==
  ASSUME WorldOK, WorldOK', WorldMoves, NEW c, CallFits(c)
  PROVE  CallFits(c)'
<1>1. IsCall(c) /\ c.n <= asked' /\ OrdersFit(c) /\ (c.op = "register" => RegisterFits(c))
  <2>1. c.n \in Nat
    BY DEF CallFits, IsCall
  <2>. QED
    BY <2>1 DEF CallFits, WorldMoves, WorldOK
<1>2. Snapshot(c.rows)'
  BY SnapshotStays DEF CallFits
<1>3. c.op = "saveMain" => SaveMainFits(c)'
  <2>1. c.op = "saveMain" => c.x \subseteq Addresses
    BY DEF CallFits, SaveMainFits, Manages, Addresses
  <2>. QED
    BY <2>1 DEF CallFits, SaveMainFits, WorldMoves
<1>4. c.op = "public" => PublicFits(c)'
  <2>. SUFFICES ASSUME c.op = "public" PROVE PublicFits(c)'
    OBVIOUS
  <2>1. PublicFits(c)
    BY DEF CallFits
  <2>2. c.arg \in Nat /\ c.arg <= codes'
    BY <2>1 DEF PublicFits, WorldMoves, WorldOK
  <2>3. c.step = "read" /\ c.stale =>
          \E r \in c.found : /\ c.seen.identity[r][2] \in Addresses
                             /\ ~Names(up', c.seen.identity[r][2], c.arg)
    BY <2>1 DEF PublicFits, WorldMoves
  <2>. QED
    BY <2>1, <2>2, <2>3 DEF PublicFits
<1>. QED
  BY <1>1, <1>2, <1>3, <1>4 DEF CallFits

LEMMA AnswersFit ==
  ASSUME WorldOK', NEW c, NEW status, NEW value, NEW a \in Answered(c, status, value), a \notin replies
  PROVE  a.n = c.n /\ a.status = status /\ Snapshot(a.doc.rows)'
<1>1. a = [n |-> c.n, op |-> c.op, r |-> c.r, token |-> c.token, status |-> status, value |-> value,
           doc |-> IF c.op \in Saving /\ status = 200 THEN book' ELSE NoBook]
  BY DEF Answered
<1>2. a.doc.rows \in {book'.rows, << >>}
  BY <1>1 DEF NoBook
<1>3. RowsOK(<< >>) /\ Before(<< >>, book'.rows)
  BY DEF RowsOK, Before
<1>4. RowsOK(book'.rows) /\ Before(book'.rows, book'.rows)
  BY BeforeSelf DEF WorldOK
<1>. QED
  BY <1>1, <1>2, <1>3, <1>4 DEF Snapshot

(* A request answered.                                                      *)
LEMMA EndsKeeps ==
  ASSUME ServiceOK, WorldOK', WorldMoves, UNCHANGED <<up, mail>>,
         NEW c \in calls, NEW status, NEW value, Ends(c, status, value)
  PROVE  CallsOK' /\ RepliesOK'
<1>1. calls' = calls \ {c} /\ replies' = Answered(c, status, value)
  BY DEF Ends
<1>2. \A d \in calls' : CallFits(d)' /\ Heeded(d)'
  <2>1. \A d \in calls : CallFits(d) /\ Heeded(d)
    BY DEF ServiceOK, CallsOK
  <2>2. \A d \in calls : CallFits(d)'
    BY <2>1, FitsStay DEF ServiceOK
  <2>3. \A d \in calls : Heeded(d)'
    BY <2>1 DEF Heeded
  <2>. QED
    BY <1>1, <2>2, <2>3
<1>3. CallsOK'
  BY <1>1, <1>2 DEF ServiceOK, CallsOK
<1>4. ASSUME NEW a \in replies'
      PROVE  /\ a.n \in Nat /\ a.n <= asked' /\ Snapshot(a.doc.rows)'
             /\ \A d \in calls' : d.op = "codes" => d.n # a.n
  <2>1. CASE a \in replies
    <3>1. a.n \in Nat /\ a.n <= asked /\ Snapshot(a.doc.rows) /\ (\A d \in calls : d.op = "codes" => d.n # a.n)
      BY <2>1 DEF ServiceOK, RepliesOK
    <3>2. Snapshot(a.doc.rows)'
      BY <3>1, SnapshotStays
    <3>. QED
      BY <1>1, <3>1, <3>2 DEF WorldMoves, ServiceOK, WorldOK
  <2>2. CASE a \notin replies
    <3>1. a.n = c.n /\ Snapshot(a.doc.rows)'
      BY <1>1, <2>2, AnswersFit
    <3>2. c.n \in Nat /\ c.n <= asked'
      BY DEF ServiceOK, CallsOK, CallFits, IsCall, WorldMoves, WorldOK
    <3>3. \A d \in calls : d.op = "codes" /\ d.n = c.n => d = c
      BY DEF ServiceOK, CallsOK
    <3>. QED
      BY <1>1, <3>1, <3>2, <3>3
  <2>. QED
    BY <2>1, <2>2
<1>. QED
  BY <1>3, <1>4 DEF RepliesOK

(* A request that goes on.                                                  *)
LEMMA GoesKeeps ==
  ASSUME ServiceOK, WorldOK', WorldMoves, NEW c \in calls, NEW next, Goes(c, next),
         CallFits(next)', Heeded(next)', \A d \in calls \ {c} : Heeded(d)',
         next.n = c.n, next.op = c.op, next.r = c.r, next.token = c.token
  PROVE  CallsOK' /\ RepliesOK'
<1>1. calls' = (calls \ {c}) \cup {next} /\ replies' = replies
  BY DEF Goes
<1>2. \A d \in calls' : CallFits(d)' /\ Heeded(d)'
  <2>1. \A d \in calls : CallFits(d)'
    BY FitsStay DEF ServiceOK, CallsOK
  <2>. QED
    BY <1>1, <2>1
<1>3. \A d, e \in calls' : Confirming(d, e) => d = e
  BY <1>1 DEF Confirming, ServiceOK, CallsOK
<1>4. \A d, e \in calls' : d.op = "codes" /\ d.n = e.n => d = e
  BY <1>1 DEF ServiceOK, CallsOK
<1>5. RepliesOK'
  <2>1. \A a \in replies : a.n \in Nat /\ a.n <= asked /\ Snapshot(a.doc.rows)'
    BY SnapshotStays DEF ServiceOK, RepliesOK
  <2>2. \A a \in replies : \A d \in calls' : d.op = "codes" => d.n # a.n
    BY <1>1 DEF ServiceOK, RepliesOK
  <2>. QED
    BY <1>1, <2>1, <2>2 DEF RepliesOK, WorldMoves, ServiceOK, WorldOK
<1>. QED
  BY <1>2, <1>3, <1>4, <1>5 DEF CallsOK

(* Requests that come.                                                      *)
LEMMA CallsAdded ==
  ASSUME ServiceOK, Quiet, NEW new, calls' = calls \cup new, replies' \subseteq replies,
         \A c \in new : CallFits(c)' /\ c.n > asked /\ c.step = "asked",
         \A c, d \in new : c.op = "codes" \/ c.token # 0 => c = d,
         \A c \in new : c.token # 0 => ~Pending(c.op, c.r)
  PROVE  CallsOK' /\ RepliesOK' /\ WorldOK'
<1>1. WorldOK' /\ WorldMoves
  BY QuietMoves DEF ServiceOK
<1>2. \A c \in calls : CallFits(c)' /\ Heeded(c)' /\ c.n \in Nat /\ c.n <= asked
  <2>1. \A c \in calls : CallFits(c) /\ Heeded(c)
    BY DEF ServiceOK, CallsOK
  <2>2. \A c \in calls : CallFits(c)'
    BY <1>1, <2>1, FitsStay DEF ServiceOK
  <2>3. \A c \in calls : Heeded(c)'
    BY <2>1 DEF Heeded, Quiet
  <2>. QED
    BY <2>1, <2>2, <2>3 DEF CallFits, IsCall
<1>3. \A c \in new : CallFits(c)' /\ Heeded(c)' /\ c.n \in Nat
  BY DEF Heeded, CallFits, IsCall
<1>4. \A c \in new, d \in calls : c.n # d.n
  BY <1>2, <1>3 DEF ServiceOK, WorldOK
<1>5. \A c, d \in calls' : Confirming(c, d) => c = d
  BY DEF Confirming, Pending, ServiceOK, CallsOK
<1>6. \A c, d \in calls' : c.op = "codes" /\ c.n = d.n => c = d
  BY <1>4 DEF ServiceOK, CallsOK
<1>7. RepliesOK'
  <2>1. \A a \in replies : a.n \in Nat /\ a.n <= asked /\ Snapshot(a.doc.rows)'
    BY <1>1, SnapshotStays DEF ServiceOK, RepliesOK
  <2>2. \A a \in replies : \A d \in calls : d.op = "codes" => d.n # a.n
    BY DEF ServiceOK, RepliesOK
  <2>3. \A a \in replies : \A d \in new : d.n # a.n
    BY <1>3, <2>1 DEF ServiceOK, WorldOK
  <2>. QED
    BY <2>1, <2>2, <2>3 DEF RepliesOK, Quiet, ServiceOK, WorldOK
<1>. QED
  BY <1>1, <1>2, <1>3, <1>5, <1>6, <1>7 DEF CallsOK

(* A request turned away.                                                   *)
LEMMA CallRefused ==
  ASSUME ServiceOK, Quiet, NEW c, c.n = asked + 1, asked' = asked + 1, NEW status, NEW value,
         replies' = Answered(c, status, value), calls' = calls
  PROVE  CallsOK' /\ RepliesOK' /\ WorldOK'
<1>1. WorldOK' /\ WorldMoves
  BY QuietMoves DEF ServiceOK
<1>2. \A d \in calls : CallFits(d)' /\ Heeded(d)' /\ d.n \in Nat /\ d.n <= asked
  <2>1. \A d \in calls : CallFits(d) /\ Heeded(d)
    BY DEF ServiceOK, CallsOK
  <2>2. \A d \in calls : CallFits(d)'
    BY <1>1, <2>1, FitsStay DEF ServiceOK
  <2>3. \A d \in calls : Heeded(d)'
    BY <2>1 DEF Heeded, Quiet
  <2>. QED
    BY <2>1, <2>2, <2>3 DEF CallFits, IsCall
<1>3. CallsOK'
  BY <1>2 DEF ServiceOK, CallsOK
<1>4. ASSUME NEW a \in replies'
      PROVE  /\ a.n \in Nat /\ a.n <= asked' /\ Snapshot(a.doc.rows)'
             /\ \A d \in calls' : d.op = "codes" => d.n # a.n
  <2>1. CASE a \in replies
    <3>1. a.n \in Nat /\ a.n <= asked /\ Snapshot(a.doc.rows) /\ (\A d \in calls : d.op = "codes" => d.n # a.n)
      BY <2>1 DEF ServiceOK, RepliesOK
    <3>2. Snapshot(a.doc.rows)'
      BY <1>1, <3>1, SnapshotStays
    <3>. QED
      BY <1>1, <3>1, <3>2 DEF WorldMoves, ServiceOK, WorldOK
  <2>2. CASE a \notin replies
    <3>1. a.n = c.n /\ Snapshot(a.doc.rows)'
      BY <1>1, <2>2, AnswersFit
    <3>. QED
      BY <1>2, <3>1 DEF ServiceOK, WorldOK
  <2>. QED
    BY <2>1, <2>2
<1>. QED
  BY <1>1, <1>3, <1>4 DEF RepliesOK

(***************************************************************************)
(* Steps that change nothing but requests                                  *)
(***************************************************************************)
LEMMA EndsQuiet ==
  ASSUME ServiceOK, NEW c \in calls, NEW status, NEW value, Ends(c, status, value),
         UNCHANGED <<Unmoved, book>>
  PROVE  WorldOK' /\ CallsOK' /\ RepliesOK'
<1>1. Quiet
  BY DEF Quiet, Unmoved, ServiceOK, WorldOK
<1>2. WorldOK' /\ WorldMoves
  BY <1>1, QuietMoves DEF ServiceOK
<1>3. UNCHANGED <<up, mail>>
  BY DEF Unmoved
<1>. QED
  BY <1>2, <1>3, EndsKeeps

LEMMA EndsOnly ==
  ASSUME ServiceOK, NEW c \in calls, NEW status, NEW value, Ends(c, status, value),
         UNCHANGED <<Unmoved, book, reviews>>
  PROVE  ServiceOK' /\ Before(book.rows, book'.rows)
<1>1. WorldOK' /\ CallsOK' /\ RepliesOK'
  BY EndsQuiet
<1>2. ReviewsOK'
  BY DEF ServiceOK, ReviewsOK
<1>. QED
  BY <1>1, <1>2, BeforeSelf DEF ServiceOK

LEMMA GoesOn ==
  ASSUME ServiceOK, NEW c \in calls, NEW next, Goes(c, next),
         UNCHANGED <<Unmoved, book, reviews>>, CallFits(next), Heeded(next),
         next.n = c.n, next.op = c.op, next.r = c.r, next.token = c.token
  PROVE  ServiceOK' /\ Before(book.rows, book'.rows)
<1>1. Quiet
  BY DEF Quiet, Unmoved, ServiceOK, WorldOK
<1>2. WorldOK' /\ WorldMoves
  BY <1>1, QuietMoves DEF ServiceOK
<1>3. CallFits(next)'
  BY <1>2, FitsStay DEF ServiceOK
<1>4. Heeded(next)' /\ \A d \in calls \ {c} : Heeded(d)'
  BY DEF Heeded, Unmoved, ServiceOK, CallsOK
<1>5. CallsOK' /\ RepliesOK'
  BY <1>2, <1>3, <1>4, GoesKeeps
<1>6. ReviewsOK'
  BY DEF ServiceOK, ReviewsOK
<1>. QED
  BY <1>2, <1>5, <1>6 DEF ServiceOK, WorldMoves

LEMMA KnownCall ==
  ASSUME ServiceOK, NEW c \in calls
  PROVE  /\ CallFits(c) /\ Heeded(c) /\ IsCall(c) /\ OrdersFit(c)
         /\ RowsOK(c.rows) /\ Before(c.rows, book.rows)
  BY DEF ServiceOK, CallsOK, CallFits, Snapshot

LEMMA EnterKeeps ==
  ASSUME ServiceOK, NEW c \in calls, c.op \in Reviewed, NEW seen, Enter(c, seen),
         UNCHANGED <<Unmoved, book>>
  PROVE  ServiceOK'
<1>1. WorldOK' /\ CallsOK' /\ RepliesOK'
  BY EndsQuiet DEF Enter
<1>2. c.n \in Nat \ {0} /\ (c.op = "assign" => c.r = 0)
  BY KnownCall DEF IsCall, OrdersFit
<1>3. ReviewsOK'
  <2>1. CASE UNCHANGED reviews
    BY <2>1 DEF ServiceOK, ReviewsOK
  <2>2. CASE ~UNCHANGED reviews
    <3>. DEFINE v == [token |-> c.n, op |-> c.op, by |-> c.by, r |-> c.r, to |-> c.to, arg |-> c.arg, seen |-> seen]
    <3>1. \A w \in reviews' : w \in reviews \/ w = v
      BY <2>2 DEF Enter
    <3>2. v.op = c.op /\ v.token = c.n /\ v.r = c.r
      OBVIOUS
    <3>. QED
      BY <1>2, <3>1, <3>2 DEF ServiceOK, ReviewsOK
  <2>. QED
    BY <2>1, <2>2
<1>. QED
  BY <1>1, <1>3 DEF ServiceOK

(* Reads that answer at once.                                               *)
LEMMA AnswersStep ==
  ASSUME ServiceOK, NEW c \in calls,
         ReadCode(c) \/ Changed(c) \/ AnswerPublic(c) \/ CheckEligibility(c) \/ CopyCodes(c)
  PROVE  ServiceOK'
<1>1. UNCHANGED <<Unmoved, book, reviews>>
  BY DEF ReadCode, Changed, AnswerPublic, CheckEligibility, CopyCodes
<1>2. \E status, value : Ends(c, status, value)
  BY DEF ReadCode, Changed, AnswerPublic, CheckEligibility, CopyCodes
<1>. QED
  BY <1>1, <1>2, EndsOnly

LEMMA PrepareResetStep ==
  ASSUME ServiceOK, NEW c \in calls, PrepareReset(c)
  PROVE  ServiceOK'
<1>1. UNCHANGED <<Unmoved, book>> /\ c.op \in Reviewed
  BY DEF PrepareReset, At, Reviewed
<1>2. CASE Matched(c.rows, up, c.r)
  BY <1>1, <1>2, EnterKeeps DEF PrepareReset
<1>3. CASE ~Matched(c.rows, up, c.r)
  <2>1. Ends(c, 409, 0) /\ UNCHANGED <<Unmoved, book, reviews>>
    BY <1>1, <1>3 DEF PrepareReset
  <2>. QED
    BY <2>1, EndsOnly
<1>. QED
  BY <1>2, <1>3

LEMMA MatchedRow ==
  ASSUME NEW rows, RowsOK(rows), NEW outside, NEW r, Matched(rows, outside, r)
  PROVE  /\ r \in DOMAIN rows /\ Bound(rows, r)
         /\ rows[r].bound = rows[r].email /\ rows[r].bound \in Addresses
<1>1. r \in DOMAIN rows /\ Bound(rows, r)
  BY DEF Matched, MatchedMain, MatchedAlias, Serves, Bound
<1>. QED
  BY <1>1, RowTypes

(* A confirmed change sent: one order, and what was reviewed is still so.   *)
LEMMA SendsReviewed ==
  ASSUME ServiceOK, NEW c \in calls, c.op \in Reviewed, c.token # 0,
         NEW r \in DOMAIN c.rows, Bound(c.rows, r), c.op = "reset" => r = c.r,
         Sends(c, {[NoOrder EXCEPT !.op = c.op, !.x = c.rows[r].bound]}),
         IF c.op = "reset" THEN up[c.rows[c.r].bound].code = c.seen.code ELSE mail = c.seen.mail,
         UNCHANGED <<Unmoved, book, reviews>>
  PROVE  ServiceOK'
<1>1. PICK m : m = [NoOrder EXCEPT !.op = c.op, !.x = c.rows[r].bound]
  OBVIOUS
<1>2. m.op = c.op /\ m.x = c.rows[r].bound /\ m \in Order
  <2>1. c.rows[r].bound \in Addresses
    BY KnownCall, RowTypes
  <2>2. m = [op |-> c.op, x |-> c.rows[r].bound, owner |-> "", on |-> FALSE]
    BY <1>1 DEF NoOrder
  <2>. QED
    BY <2>1, <2>2 DEF Order, Reviewed
<1>3. PICK next : next = [c EXCEPT !.step = "sent", !.todo = {m}]
  OBVIOUS
<1>4. Goes(c, next)
  BY <1>1, <1>3 DEF Sends
<1>5. /\ CallFits(c) /\ IsCall(c) /\ OrdersFit(c) /\ Heeded(c)
  BY KnownCall
<1>6. /\ IsCall(next) /\ next.step = "sent" /\ next.todo = {m} /\ next.n = c.n /\ next.op = c.op
      /\ next.r = c.r /\ next.token = c.token /\ next.rows = c.rows /\ next.seen = c.seen
  <2>1. {m} \in SUBSET Order
    BY <1>2
  <2>. QED
    BY <1>3, <1>5, <2>1 DEF IsCall
<1>7. OrdersFit(next)
  BY <1>2, <1>5, <1>6 DEF OrdersFit, Reviewed
<1>8. CallFits(next)
  BY <1>5, <1>6, <1>7 DEF CallFits, Reviewed
<1>9. Heeded(next)
  BY <1>6 DEF Heeded
<1>. QED
  BY <1>4, <1>6, <1>8, <1>9, GoesOn

LEMMA ConfirmResetStep ==
  ASSUME ServiceOK, NEW c \in calls, ConfirmReset(c)
  PROVE  ServiceOK'
<1>1. UNCHANGED <<Unmoved, book, reviews>> /\ c.op = "reset" /\ c.token # 0
  BY DEF ConfirmReset, At
<1>2. CASE Ends(c, 409, 0)
  BY <1>1, <1>2, EndsOnly
<1>3. CASE ~Ends(c, 409, 0)
  <2>1. /\ Matched(c.rows, up, c.r) /\ c.seen = CodeSeen(c.rows, up, c.r)
        /\ Sends(c, {[NoOrder EXCEPT !.op = c.op, !.x = c.rows[c.r].bound]})
    BY <1>1, <1>3 DEF ConfirmReset
  <2>2. c.r \in DOMAIN c.rows /\ Bound(c.rows, c.r)
    BY <2>1, KnownCall, MatchedRow
  <2>3. up[c.rows[c.r].bound].code = c.seen.code
    BY <2>1 DEF CodeSeen, NoSeen
  <2>. QED
    BY <1>1, <2>1, <2>2, <2>3, SendsReviewed DEF Reviewed
<1>. QED
  BY <1>2, <1>3

LEMMA LookForMailStep ==
  ASSUME ServiceOK, NEW c \in calls, LookForMail(c)
  PROVE  ServiceOK'
<1>1. UNCHANGED <<Unmoved, book, reviews>> /\ c.op = "assign" /\ c.step = "asked"
  BY DEF LookForMail, At
<1>2. CASE ~MatchedAlias(c.rows, up, c.to)
  <2>1. Ends(c, 409, 0)
    BY <1>2 DEF LookForMail
  <2>. QED
    BY <1>1, <2>1, EndsOnly
<1>3. CASE MatchedAlias(c.rows, up, c.to)
  <2>1. PICK next : next = [c EXCEPT !.step = "found", !.found = {s \in DOMAIN c.rows : MatchedAlias(c.rows, up, s)}]
    OBVIOUS
  <2>2. Goes(c, next)
    BY <1>3, <2>1 DEF LookForMail
  <2>3. CallFits(c) /\ IsCall(c) /\ OrdersFit(c) /\ RowsOK(c.rows)
    BY KnownCall
  <2>4. /\ IsCall(next) /\ next.step = "found" /\ next.todo = c.todo /\ next.n = c.n /\ next.op = c.op
        /\ next.r = c.r /\ next.token = c.token /\ next.rows = c.rows /\ next.to = c.to
    BY <2>1, <2>3 DEF IsCall
  <2>5. c.to \in DOMAIN c.rows /\ Bound(c.rows, c.to)
    BY <1>3, <2>3, MatchedRow DEF Matched
  <2>6. OrdersFit(next)
    BY <1>1, <2>3, <2>4, <2>5 DEF OrdersFit
  <2>7. CallFits(next) /\ Heeded(next)
    BY <1>1, <2>3, <2>4, <2>6 DEF CallFits, Heeded
  <2>. QED
    BY <1>1, <2>2, <2>4, <2>7, GoesOn
<1>. QED
  BY <1>2, <1>3

LEMMA AssignMailStep ==
  ASSUME ServiceOK, NEW c \in calls, AssignMail(c)
  PROVE  ServiceOK'
<1>. DEFINE now == MailSeen(c.rows, c.to, Source(c))
<1>1. UNCHANGED <<Unmoved, book>> /\ c.op = "assign" /\ c.step = "found"
  BY DEF AssignMail, At
<1>2. \/ Ends(c, 409, 0) /\ UNCHANGED reviews
      \/ Enter(c, now)
      \/ /\ c.token # 0 /\ c.seen = now /\ UNCHANGED reviews
         /\ Sends(c, {[NoOrder EXCEPT !.op = c.op, !.x = c.rows[c.to].bound]})
  BY <1>1 DEF AssignMail
<1>3. CASE Ends(c, 409, 0) /\ UNCHANGED reviews
  BY <1>1, <1>3, EndsOnly
<1>4. CASE Enter(c, now)
  BY <1>1, <1>4, EnterKeeps DEF Reviewed
<1>5. CASE /\ c.token # 0 /\ c.seen = now /\ UNCHANGED reviews
           /\ Sends(c, {[NoOrder EXCEPT !.op = c.op, !.x = c.rows[c.to].bound]})
  <2>1. c.to \in DOMAIN c.rows /\ Bound(c.rows, c.to)
    BY <1>1, KnownCall DEF OrdersFit
  <2>2. mail = c.seen.mail
    BY <1>5 DEF MailSeen, NoSeen
  <2>. QED
    BY <1>1, <1>5, <2>1, <2>2, SendsReviewed DEF Reviewed
<1>. QED
  BY <1>2, <1>3, <1>4, <1>5

LEMMA TargetsFinite ==
  ASSUME NEW rows, RowsOK(rows), NEW outside, NEW code
  PROVE  IsFiniteSet(FindTarget(rows, outside, code))
<1>1. IsFiniteSet(DOMAIN rows)
  <2>1. DOMAIN rows = 1..Len(rows) /\ Len(rows) \in Nat
    BY RowTypes
  <2>2. Len(rows) \in Int /\ 1 \in Int
    BY <2>1
  <2>. QED
    BY <2>1, <2>2, FS_Interval
<1>2. FindTarget(rows, outside, code) \in SUBSET DOMAIN rows
  BY DEF FindTarget
<1>. QED
  BY <1>1, <1>2, FS_Subset

LEMMA FindMailboxStep ==
  ASSUME ServiceOK, NEW c \in calls, FindMailbox(c)
  PROVE  ServiceOK'
<1>. DEFINE targets == FindTarget(c.rows, up, c.arg)
<1>1. UNCHANGED <<Unmoved, book, reviews>> /\ c.op \in {"public", "query"} /\ c.step = "asked"
  BY DEF FindMailbox, At
<1>2. CASE Cardinality(targets) # 1
  <2>1. Ends(c, 404, 0)
    BY <1>2 DEF FindMailbox
  <2>. QED
    BY <1>1, <2>1, EndsOnly
<1>3. CASE Cardinality(targets) = 1
  <2>1. PICK r : targets = {r}
    BY <1>3, KnownCall, TargetsFinite, FS_Singleton
  <2>2. PICK next : next = [c EXCEPT !.step = "found", !.found = targets]
    OBVIOUS
  <2>3. Goes(c, next)
    BY <1>3, <2>2 DEF FindMailbox
  <2>4. CallFits(c) /\ IsCall(c) /\ OrdersFit(c) /\ RowsOK(c.rows)
    BY KnownCall
  <2>5. /\ IsCall(next) /\ next.step = "found" /\ next.todo = c.todo /\ next.n = c.n /\ next.op = c.op
        /\ next.r = c.r /\ next.token = c.token /\ next.rows = c.rows /\ next.arg = c.arg
        /\ next.found = {r}
    BY <2>1, <2>2, <2>4 DEF IsCall
  <2>6. r \in DOMAIN c.rows /\ Bound(c.rows, r)
    BY <2>1, <2>4, MatchedRow DEF FindTarget
  <2>7. OrdersFit(next)
    BY <1>1, <2>4, <2>5 DEF OrdersFit, Reviewed
  <2>8. c.op = "public" => PublicFits(next)
    BY <2>4, <2>5, <2>6 DEF CallFits, PublicFits
  <2>9. CallFits(next) /\ Heeded(next)
    BY <1>1, <2>4, <2>5, <2>7, <2>8 DEF CallFits, Heeded
  <2>. QED
    BY <1>1, <2>3, <2>5, <2>9, GoesOn
<1>. QED
  BY <1>2, <1>3

LEMMA VerifyCodeStep ==
  ASSUME ServiceOK, NEW c \in calls, VerifyCode(c)
  PROVE  ServiceOK'
<1>1. UNCHANGED <<Unmoved, book, reviews>> /\ c.op \in {"public", "query"} /\ c.step = "found"
  BY DEF VerifyCode, At
<1>2. CASE Ends(c, 404, 0)
  BY <1>1, <1>2, EndsOnly
<1>3. CASE ~Ends(c, 404, 0)
  <2>1. PICK next : next = [c EXCEPT !.step = "verified"]
    OBVIOUS
  <2>2. Goes(c, next)
    BY <1>3, <2>1 DEF VerifyCode
  <2>3. CallFits(c) /\ IsCall(c) /\ OrdersFit(c)
    BY KnownCall
  <2>4. /\ IsCall(next) /\ next.step = "verified" /\ next.todo = c.todo /\ next.n = c.n /\ next.op = c.op
        /\ next.r = c.r /\ next.token = c.token /\ next.rows = c.rows /\ next.arg = c.arg
        /\ next.found = c.found
    BY <2>1, <2>3 DEF IsCall
  <2>5. OrdersFit(next)
    BY <1>1, <2>3, <2>4 DEF OrdersFit, Reviewed
  <2>6. c.op = "public" => PublicFits(next)
    BY <1>1, <2>3, <2>4 DEF CallFits, PublicFits
  <2>7. CallFits(next) /\ Heeded(next)
    BY <1>1, <2>3, <2>4, <2>5, <2>6 DEF CallFits, Heeded
  <2>. QED
    BY <1>1, <2>2, <2>4, <2>7, GoesOn
<1>. QED
  BY <1>2, <1>3

LEMMA FindRowsStep ==
  ASSUME ServiceOK, NEW c \in calls, FindRows(c)
  PROVE  ServiceOK'
<1>1. UNCHANGED <<Unmoved, book, reviews>> /\ c.op = "mails" /\ c.step = "asked"
  BY DEF FindRows, At
<1>2. CASE Ends(c, 409, 0)
  BY <1>1, <1>2, EndsOnly
<1>3. CASE ~Ends(c, 409, 0)
  <2>1. PICK next : next = [c EXCEPT !.step = "verified", !.found = {c.r}]
    OBVIOUS
  <2>2. Goes(c, next)
    BY <1>3, <2>1 DEF FindRows
  <2>3. CallFits(c) /\ IsCall(c) /\ OrdersFit(c)
    BY KnownCall
  <2>4. /\ IsCall(next) /\ next.step = "verified" /\ next.todo = c.todo /\ next.n = c.n /\ next.op = c.op
        /\ next.r = c.r /\ next.token = c.token /\ next.rows = c.rows
    BY <2>1, <2>3 DEF IsCall
  <2>5. OrdersFit(next)
    BY <1>1, <2>3, <2>4 DEF OrdersFit, Reviewed
  <2>6. CallFits(next) /\ Heeded(next)
    BY <1>1, <2>3, <2>4, <2>5 DEF CallFits, Heeded
  <2>. QED
    BY <1>1, <2>2, <2>4, <2>6, GoesOn
<1>. QED
  BY <1>2, <1>3

(* What a reader of mails for the public remembers of the code is about the *)
(* address the mailbox found is bound to.                                   *)
LEMMA ReadMailsStep ==
  ASSUME ServiceOK, NEW c \in calls, ReadMails(c)
  PROVE  ServiceOK'
<1>1. UNCHANGED <<Unmoved, book, reviews>> /\ c.op \in {"public", "query", "mails"} /\ c.step = "verified"
  BY DEF ReadMails, At
<1>2. PICK r \in c.found :
        \/ Ends(c, 409, 0)
        \/ /\ c.op = "public"
           /\ Goes(c, [c EXCEPT !.step = "read", !.rows = book.rows,
                                !.seen = [NoSeen EXCEPT !.identity = Identity(c.rows, r)],
                                !.stale = ~Names(up, Target(c), c.arg)])
        \/ Ends(c, 200, ShownUnder(c, MainOf(c.rows, r)))
  BY DEF ReadMails
<1>3. CASE Ends(c, 409, 0)
  BY <1>1, <1>3, EndsOnly
<1>4. CASE Ends(c, 200, ShownUnder(c, MainOf(c.rows, r)))
  BY <1>1, <1>4, EndsOnly
<1>5. CASE /\ c.op = "public"
           /\ Goes(c, [c EXCEPT !.step = "read", !.rows = book.rows,
                                !.seen = [NoSeen EXCEPT !.identity = Identity(c.rows, r)],
                                !.stale = ~Names(up, Target(c), c.arg)])
  <2>1. PICK seen : seen = [NoSeen EXCEPT !.identity = Identity(c.rows, r)]
    OBVIOUS
  <2>2. PICK lost \in BOOLEAN : lost = ~Names(up, Target(c), c.arg)
    OBVIOUS
  <2>3. PICK next : next = [c EXCEPT !.step = "read", !.rows = book.rows, !.seen = seen, !.stale = lost]
    OBVIOUS
  <2>4. Goes(c, next)
    BY <1>5, <2>1, <2>2, <2>3
  <2>5. CallFits(c) /\ IsCall(c) /\ OrdersFit(c) /\ RowsOK(c.rows) /\ PublicFits(c)
    BY <1>5, KnownCall DEF CallFits
  <2>6. /\ IsCall(next) /\ next.step = "read" /\ next.todo = c.todo /\ next.n = c.n /\ next.op = c.op
        /\ next.r = c.r /\ next.token = c.token /\ next.rows = book.rows /\ next.arg = c.arg
        /\ next.found = c.found /\ next.seen = seen /\ next.stale = lost
    BY <2>3, <2>5 DEF IsCall
  <2>7. c.found = {r} /\ r \in DOMAIN c.rows /\ Bound(c.rows, r)
    BY <1>1, <2>5 DEF PublicFits
  <2>8. Target(c) = c.rows[r].bound /\ c.rows[r].bound \in Addresses
    BY <2>5, <2>7, RowTypes DEF Target
  <2>9. seen.identity[r][2] = c.rows[r].bound
    BY <2>1 DEF NoSeen, Identity
  <2>10. PublicFits(next)
    BY <2>2, <2>5, <2>6, <2>7, <2>8, <2>9 DEF PublicFits
  <2>11. OrdersFit(next)
    BY <1>1, <1>5, <2>5, <2>6 DEF OrdersFit, Reviewed
  <2>12. Snapshot(next.rows)
    BY <2>6, OwnSnapshot DEF ServiceOK
  <2>13. CallFits(next) /\ Heeded(next)
    BY <1>1, <1>5, <2>5, <2>6, <2>10, <2>11, <2>12 DEF CallFits, Heeded
  <2>. QED
    BY <1>1, <2>4, <2>6, <2>13, GoesOn
<1>. QED
  BY <1>2, <1>3, <1>4, <1>5

(* Mails read under a code lost are not given out: the code cannot have     *)
(* come back.                                                               *)
LEMMA ConfirmMailboxStep ==
  ASSUME ServiceOK, NEW c \in calls, ConfirmMailbox(c)
  PROVE  ServiceOK'
<1>1. UNCHANGED <<Unmoved, book, reviews>> /\ c.op = "public" /\ c.step = "read"
  BY DEF ConfirmMailbox, At
<1>2. CASE ~Confirmed(c)
  <2>1. Ends(c, 404, 0)
    BY <1>2 DEF ConfirmMailbox
  <2>. QED
    BY <1>1, <2>1, EndsOnly
<1>3. CASE Confirmed(c)
  <2>1. PICK next : next = [c EXCEPT !.step = "done"]
    OBVIOUS
  <2>2. Goes(c, next)
    BY <1>3, <2>1 DEF ConfirmMailbox
  <2>3. CallFits(c) /\ IsCall(c) /\ OrdersFit(c) /\ PublicFits(c)
    BY <1>1, KnownCall DEF CallFits
  <2>4. /\ IsCall(next) /\ next.step = "done" /\ next.todo = c.todo /\ next.n = c.n /\ next.op = c.op
        /\ next.r = c.r /\ next.token = c.token /\ next.rows = c.rows /\ next.arg = c.arg
        /\ next.stale = c.stale
    BY <2>1, <2>3 DEF IsCall
  <2>5. ~c.stale
    <3>. SUFFICES ASSUME c.stale PROVE FALSE
      OBVIOUS
    <3>1. PICK r \in c.found : ~Names(up, c.seen.identity[r][2], c.arg)
      BY <1>1, <2>3 DEF PublicFits
    <3>2. Names(up, c.rows[r].bound, c.arg)
      BY <1>3, <3>1 DEF Confirmed, FindTarget
    <3>3. c.seen.identity[r][2] = c.rows[r].bound
      <4>1. c.seen.identity = Identity(c.rows, r)
        BY <1>3, <3>1 DEF Confirmed
      <4>2. Identity(c.rows, r)[r] = <<c.rows[r].email, c.rows[r].bound>>
        BY DEF Identity
      <4>. QED
        BY <4>1, <4>2
    <3>. QED
      BY <3>1, <3>2, <3>3
  <2>6. OrdersFit(next)
    BY <1>1, <2>3, <2>4 DEF OrdersFit, Reviewed
  <2>7. PublicFits(next)
    BY <2>3, <2>4, <2>5 DEF PublicFits
  <2>8. CallFits(next) /\ Heeded(next)
    BY <1>1, <2>3, <2>4, <2>6, <2>7 DEF CallFits, Heeded
  <2>. QED
    BY <1>1, <2>2, <2>4, <2>8, GoesOn
<1>. QED
  BY <1>2, <1>3

LEMMA LookForMainStep ==
  ASSUME ServiceOK, NEW c \in calls, LookForMain(c)
  PROVE  ServiceOK'
<1>1. UNCHANGED <<Unmoved, book, reviews>> /\ c.op = "register" /\ c.step = "asked"
  BY DEF LookForMain, At
<1>2. CASE ~Registrable(c)
  <2>1. Ends(c, 409, 0)
    BY <1>2 DEF LookForMain
  <2>. QED
    BY <1>1, <2>1, EndsOnly
<1>3. CASE Registrable(c)
  <2>1. PICK next : next = [c EXCEPT !.step = "found"]
    OBVIOUS
  <2>2. Goes(c, next)
    BY <1>3, <2>1 DEF LookForMain
  <2>3. CallFits(c) /\ IsCall(c) /\ OrdersFit(c) /\ RegisterFits(c)
    BY <1>1, KnownCall DEF CallFits
  <2>4. /\ IsCall(next) /\ next.step = "found" /\ next.todo = c.todo /\ next.n = c.n /\ next.op = c.op
        /\ next.r = c.r /\ next.token = c.token /\ next.rows = c.rows /\ next.to = c.to /\ next.x = c.x
    BY <2>1, <2>3 DEF IsCall
  <2>5. RegisterFits(next)
    BY <1>3, <2>3, <2>4 DEF RegisterFits, Registrable, Bound
  <2>6. OrdersFit(next)
    BY <1>1, <2>3, <2>4 DEF OrdersFit, Reviewed
  <2>7. CallFits(next) /\ Heeded(next)
    BY <1>1, <2>3, <2>4, <2>5, <2>6 DEF CallFits, Heeded, Reviewed
  <2>. QED
    BY <1>1, <2>2, <2>4, <2>7, GoesOn
<1>. QED
  BY <1>2, <1>3

(***************************************************************************)
(* Changes outside                                                         *)
(***************************************************************************)
(* What an order does to an address: it is there and stays whose it was, an *)
(* old code does not come back, and the code changes by a reset or by       *)
(* making the address only.                                                 *)
Becomes(m, item) ==
  /\ up[m.x].there => item.there /\ item.owner = up[m.x].owner
  /\ item.code <= codes'
  /\ \/ item.code = up[m.x].code /\ (item.live => up[m.x].live)
     \/ item.code = codes + 1
  /\ \/ item.code = up[m.x].code
     \/ m.op = "reset"
     \/ m.op = "register" /\ ~up[m.x].there
  /\ m.op = "register" => item.there

LEMMA TakesItem ==
  ASSUME WorldOK, NEW m \in Order, Takes(m)
  PROVE  /\ codes' \in Nat /\ codes <= codes'
         /\ \E item \in Listing : up' = [up EXCEPT ![m.x] = item] /\ Becomes(m, item)
<1>1. /\ m.x \in Addresses /\ m.on \in BOOLEAN /\ m.owner \in Addresses \cup {""}
      /\ m.op \in {"reset", "assign", "register", "status"}
  BY DEF Order
<1>2. /\ up[m.x] \in Listing /\ up[m.x].code \in Nat /\ up[m.x].code <= codes /\ codes \in Nat
      /\ up \in [Addresses -> Listing]
  BY <1>1 DEF WorldOK, Listing
<1>3. codes' = IF m.op \in {"reset", "register"} THEN codes + 1 ELSE codes
  BY DEF Takes
<1>4. codes' \in Nat /\ codes <= codes'
  BY <1>2, <1>3
<1>5. CASE m.op = "reset"
  <2>. DEFINE item == Recoded(up[m.x])
  <2>1. PICK new : new = codes + 1
    OBVIOUS
  <2>2. item = [up[m.x] EXCEPT !.code = new, !.live = TRUE] /\ new \in Nat
    BY <1>2, <2>1 DEF Recoded
  <2>3. item \in Listing /\ item.there = up[m.x].there /\ item.owner = up[m.x].owner /\ item.code = new
    BY <1>2, <2>2 DEF Listing
  <2>4. up' = [up EXCEPT ![m.x] = item]
    BY <1>5 DEF Takes, Took
  <2>. HIDE DEF item
  <2>5. Becomes(m, item)
    BY <1>2, <1>3, <1>5, <2>1, <2>3 DEF Becomes
  <2>. QED
    BY <1>4, <2>3, <2>4, <2>5
<1>6. CASE m.op = "status"
  <2>. DEFINE item == Switched(up[m.x], m.on)
  <2>1. /\ item \in Listing /\ item.there = up[m.x].there /\ item.owner = up[m.x].owner
        /\ item.code = up[m.x].code /\ item.live = up[m.x].live
    BY <1>1, <1>2 DEF Switched, Listing
  <2>2. up' = [up EXCEPT ![m.x] = item]
    BY <1>6 DEF Takes, Took
  <2>. HIDE DEF item
  <2>3. Becomes(m, item)
    BY <1>2, <1>3, <1>6, <2>1 DEF Becomes
  <2>. QED
    BY <1>4, <2>1, <2>2, <2>3
<1>7. CASE m.op = "register" /\ ~up[m.x].there
  <2>1. PICK new : new = codes + 1
    OBVIOUS
  <2>2. new \in Nat
    BY <1>2, <2>1
  <2>3. PICK item : item = [there |-> TRUE, on |-> TRUE, live |-> TRUE, code |-> new, owner |-> m.owner]
    OBVIOUS
  <2>4. item \in Listing /\ item.there = TRUE /\ item.code = new
    BY <1>1, <2>2, <2>3 DEF Listing
  <2>5. up' = [up EXCEPT ![m.x] = item]
    BY <1>7, <2>1, <2>3 DEF Takes, Took
  <2>6. Becomes(m, item)
    BY <1>2, <1>3, <1>7, <2>1, <2>4 DEF Becomes
  <2>. QED
    BY <1>4, <2>4, <2>5, <2>6
<1>8. CASE m.op = "assign" \/ (m.op = "register" /\ up[m.x].there)
  <2>1. up' = up
    BY <1>8 DEF Takes, Took
  <2>2. PICK item \in Listing : item = up[m.x]
    BY <1>2
  <2>3. up' = [up EXCEPT ![m.x] = item]
    BY <1>2, <2>1, <2>2
  <2>4. Becomes(m, item)
    BY <1>2, <1>3, <1>8, <2>2 DEF Becomes
  <2>. QED
    BY <1>4, <2>3, <2>4
<1>. QED
  BY <1>1, <1>5, <1>6, <1>7, <1>8

LEMMA ItemMoves ==
  ASSUME WorldOK, NEW z \in Addresses, NEW item \in Listing, up' = [up EXCEPT ![z] = item],
         codes' \in Nat, codes <= codes',
         up[z].there => item.there /\ item.owner = up[z].owner, item.code <= codes',
         \/ item.code = up[z].code /\ (item.live => up[z].live)
         \/ item.code = codes + 1,
         UNCHANGED <<book, asked>>, late' \subseteq Order
  PROVE  WorldOK' /\ WorldMoves
<1>1. /\ up \in [Addresses -> Listing] /\ codes \in Nat /\ \A x \in Addresses : up[x].code <= codes
      /\ asked \in Nat /\ RowsOK(book.rows) /\ BoundOutside(book.rows, up)
  BY DEF WorldOK
<1>2. up' \in [Addresses -> Listing] /\ \A x \in Addresses : up'[x] = IF x = z THEN item ELSE up[x]
  BY <1>1
<1>3. \A x \in Addresses : up[x].code \in Nat
  BY <1>1 DEF Listing
<1>4. \A x \in Addresses : up'[x].code <= codes'
  BY <1>1, <1>2, <1>3
<1>5. \A x \in Addresses : up[x].there => up'[x].there /\ up'[x].owner = up[x].owner
  BY <1>2
<1>6. BoundOutside(book.rows, up')
  <2>1. \A r \in DOMAIN book.rows : Bound(book.rows, r) => book.rows[r].bound \in Addresses
    BY <1>1, RowTypes
  <2>. QED
    BY <1>1, <1>5, <2>1 DEF BoundOutside
<1>7. ASSUME NEW x \in Addresses, NEW k \in Nat, k <= codes, ~Names(up, x, k)
      PROVE  ~Names(up', x, k)
  BY <1>1, <1>2, <1>7 DEF Names
<1>8. WorldOK'
  BY <1>1, <1>2, <1>4, <1>6 DEF WorldOK
<1>9. asked <= asked'
  BY <1>1
<1>10. Before(book.rows, book'.rows)
  BY BeforeSelf
<1>. QED
  BY <1>5, <1>7, <1>8, <1>9, <1>10 DEF WorldMoves

LEMMA TakesMoves ==
  ASSUME WorldOK, NEW m \in Order, Takes(m), UNCHANGED <<book, asked>>, late' \subseteq Order
  PROVE  /\ WorldOK' /\ WorldMoves
         /\ \A x \in Addresses :
              \/ up'[x].code = up[x].code
              \/ x = m.x /\ (m.op = "reset" \/ (m.op = "register" /\ ~up[x].there))
         /\ m.op = "register" => up'[m.x].there
         /\ mail' = mail \/ m.op = "assign"
<1>1. m.x \in Addresses
  BY DEF Order
<1>2. PICK item \in Listing : up' = [up EXCEPT ![m.x] = item] /\ Becomes(m, item)
  BY TakesItem
<1>3. codes' \in Nat /\ codes <= codes'
  BY TakesItem
<1>4. WorldOK' /\ WorldMoves
  <2>1. /\ up[m.x].there => item.there /\ item.owner = up[m.x].owner
        /\ item.code <= codes'
        /\ \/ item.code = up[m.x].code /\ (item.live => up[m.x].live)
           \/ item.code = codes + 1
    BY <1>2 DEF Becomes
  <2>. QED
    BY <1>1, <1>2, <1>3, <2>1, ItemMoves
<1>5. \A x \in Addresses : up'[x] = IF x = m.x THEN item ELSE up[x]
  BY <1>2 DEF WorldOK
<1>6. mail' = mail \/ m.op = "assign"
  BY DEF Takes
<1>. QED
  BY <1>1, <1>2, <1>4, <1>5, <1>6 DEF Becomes

LEMMA ExpireStep ==
  ASSUME ServiceOK, NEW x \in Addresses, Expire(x)
  PROVE  ServiceOK'
<1>1. /\ up' = [up EXCEPT ![x].live = FALSE]
      /\ UNCHANGED <<mail, book, calls, asked, replies, reviews, late, codes, record>>
  BY DEF Expire
<1>2. WorldOK
  BY DEF ServiceOK
<1>3. up \in [Addresses -> Listing] /\ up[x] \in Listing /\ codes \in Nat /\ up[x].code <= codes
  BY <1>2 DEF WorldOK
<1>4. PICK item : item = [up[x] EXCEPT !.live = FALSE]
  OBVIOUS
<1>5. /\ item \in Listing /\ item.there = up[x].there /\ item.owner = up[x].owner
      /\ item.code = up[x].code /\ item.live = FALSE
  BY <1>3, <1>4 DEF Listing
<1>6. up' = [up EXCEPT ![x] = item]
  BY <1>1, <1>4
<1>7. WorldOK' /\ WorldMoves
  <2>1. UNCHANGED <<book, asked>> /\ late' \subseteq Order /\ codes' \in Nat /\ codes <= codes'
    BY <1>1, <1>2, <1>3 DEF WorldOK
  <2>2. item.code <= codes'
    BY <1>1, <1>3, <1>5
  <2>. QED
    BY <1>2, <1>5, <1>6, <2>1, <2>2, ItemMoves
<1>8. \A d \in calls : CallFits(d)'
  BY <1>2, <1>7, FitsStay DEF ServiceOK, CallsOK
<1>9. \A z \in Addresses : up'[z].code = up[z].code
  BY <1>3, <1>5, <1>6
<1>10. \A d \in calls : Heeded(d)'
  <2>. SUFFICES ASSUME NEW d \in calls PROVE Heeded(d)'
    OBVIOUS
  <2>1. Heeded(d) /\ OrdersFit(d) /\ RowsOK(d.rows)
    BY KnownCall
  <2>2. d.op = "reset" /\ d.step = "sent" => d.rows[d.r].bound \in Addresses
    BY <2>1, RowTypes DEF OrdersFit
  <2>. QED
    BY <1>1, <1>9, <2>1, <2>2 DEF Heeded
<1>11. RepliesOK'
  <2>1. \A a \in replies : Snapshot(a.doc.rows)'
    BY <1>7, SnapshotStays DEF ServiceOK, RepliesOK
  <2>. QED
    BY <1>1, <2>1 DEF ServiceOK, RepliesOK
<1>. QED
  BY <1>1, <1>7, <1>8, <1>10, <1>11 DEF ServiceOK, CallsOK, ReviewsOK

(* A change reviewed stays what it was, but for orders of the same target.  *)
LEMMA HeededStays ==
  ASSUME ServiceOK, NEW m \in Order, Takes(m), UNCHANGED <<book, asked>>, late' \subseteq Order,
         NEW d \in calls,
         d.op = "reset" /\ d.step = "sent" /\ ~d.stale =>
           ~(m.op = "reset" /\ m.x = d.rows[d.r].bound),
         d.op = "assign" /\ d.step = "sent" /\ ~d.stale => m.op # "assign"
  PROVE  Heeded(d)'
<1>. SUFFICES ASSUME d.op \in Reviewed, d.step = "sent", ~d.stale
              PROVE  IF d.op = "reset" THEN up'[d.rows[d.r].bound].code = d.seen.code ELSE mail' = d.seen.mail
  BY DEF Heeded
<1>1. /\ CallFits(d) /\ Heeded(d) /\ OrdersFit(d) /\ RowsOK(d.rows) /\ Before(d.rows, book.rows)
  BY KnownCall
<1>2. /\ \A x \in Addresses :
           \/ up'[x].code = up[x].code
           \/ x = m.x /\ (m.op = "reset" \/ (m.op = "register" /\ ~up[x].there))
      /\ mail' = mail \/ m.op = "assign"
  BY TakesMoves DEF ServiceOK
<1>3. CASE d.op = "reset"
  <2>1. d.r \in DOMAIN d.rows /\ Bound(d.rows, d.r) /\ d.rows[d.r].bound \in Addresses
    BY <1>1, <1>3, RowTypes DEF OrdersFit
  <2>2. d.r \in DOMAIN book.rows /\ book.rows[d.r].bound = d.rows[d.r].bound
    BY <1>1, <2>1 DEF Before
  <2>3. up[d.rows[d.r].bound].there
    BY <2>1, <2>2 DEF ServiceOK, WorldOK, BoundOutside, Bound
  <2>4. up'[d.rows[d.r].bound].code = up[d.rows[d.r].bound].code
    BY <1>2, <1>3, <2>1, <2>3
  <2>. QED
    BY <1>1, <1>3, <2>4 DEF Heeded
<1>4. CASE d.op = "assign"
  BY <1>1, <1>2, <1>4 DEF Heeded
<1>. QED
  BY <1>3, <1>4 DEF Reviewed

LEMMA SameTarget ==
  ASSUME ServiceOK, NEW c \in calls, NEW d \in calls, c.op = "reset", d.op = "reset",
         c.step = "sent", d.step = "sent", c.rows[c.r].bound = d.rows[d.r].bound
  PROVE  c = d
<1>1. /\ OrdersFit(c) /\ RowsOK(c.rows) /\ Before(c.rows, book.rows)
      /\ OrdersFit(d) /\ RowsOK(d.rows) /\ Before(d.rows, book.rows)
  BY KnownCall
<1>2. c.r \in DOMAIN c.rows /\ c.rows[c.r].email = c.rows[c.r].bound /\ c.token # 0
  BY <1>1, RowTypes DEF OrdersFit, Reviewed
<1>3. d.r \in DOMAIN d.rows /\ d.rows[d.r].email = d.rows[d.r].bound /\ d.token # 0
  BY <1>1, RowTypes DEF OrdersFit, Reviewed
<1>4. /\ c.r \in DOMAIN book.rows /\ d.r \in DOMAIN book.rows
      /\ book.rows[c.r].email = book.rows[d.r].email
  BY <1>1, <1>2, <1>3 DEF Before
<1>5. c.r = d.r
  BY <1>4 DEF ServiceOK, WorldOK, RowsOK
<1>. QED
  BY <1>2, <1>3, <1>5 DEF ServiceOK, CallsOK, Confirming, Reviewed

LEMMA ChangeStep ==
  ASSUME ServiceOK, NEW c \in calls, NEW m \in c.todo, Change(c, m)
  PROVE  ServiceOK'
<1>1. /\ c.step = "sent" /\ Takes(m) /\ UNCHANGED <<book, asked, reviews, late, record, plan>>
      /\ Goes(c, [c EXCEPT !.todo = @ \ {m}, !.made = codes',
                           !.step = IF c.todo = {m} THEN "done" ELSE "sent"])
  BY DEF Change
<1>2. /\ CallFits(c) /\ IsCall(c) /\ OrdersFit(c) /\ RowsOK(c.rows) /\ c.todo \subseteq Order
  BY KnownCall DEF IsCall
<1>3. m \in Order /\ late' \subseteq Order
  BY <1>1, <1>2 DEF ServiceOK, WorldOK
<1>4. WorldOK' /\ WorldMoves /\ (m.op = "register" => up'[m.x].there)
  BY <1>1, <1>3, TakesMoves DEF ServiceOK
<1>5. CallFits(c)'
  BY <1>2, <1>4, FitsStay DEF ServiceOK
<1>6. PICK made : made = codes'
  OBVIOUS
<1>7. PICK step : step = IF c.todo = {m} THEN "done" ELSE "sent"
  OBVIOUS
<1>8. PICK next : next = [c EXCEPT !.todo = c.todo \ {m}, !.made = made, !.step = step]
  OBVIOUS
<1>9. Goes(c, next)
  BY <1>1, <1>6, <1>7, <1>8
<1>10. /\ IsCall(next) /\ next.step = step /\ next.todo = c.todo \ {m} /\ next.n = c.n /\ next.op = c.op
       /\ next.r = c.r /\ next.token = c.token /\ next.rows = c.rows /\ next.x = c.x /\ next.to = c.to
  BY <1>2, <1>8 DEF IsCall
<1>11. c.op \in Reviewed => step = "done"
  BY <1>1, <1>2, <1>7 DEF OrdersFit
<1>12. OrdersFit(next)
  BY <1>1, <1>2, <1>7, <1>10, <1>11 DEF OrdersFit
<1>13. c.op = "register" => RegisterFits(next)
  BY <1>1, <1>2, <1>7, <1>10 DEF CallFits, RegisterFits
<1>14. c.op = "saveMain" => SaveMainFits(next)'
  <2>. SUFFICES ASSUME c.op = "saveMain" PROVE SaveMainFits(next)'
    OBVIOUS
  <2>1. SaveMainFits(c) /\ c.x \subseteq Addresses
    BY <1>2 DEF CallFits, SaveMainFits, Manages, Addresses
  <2>2. ASSUME NEW x \in c.x, ~up'[x].there PROVE FALSE
    <3>1. ~up[x].there
      BY <1>4, <2>1, <2>2 DEF WorldMoves
    <3>2. m = [NoOrder EXCEPT !.op = "register", !.x = x]
      BY <1>1, <2>1, <3>1 DEF SaveMainFits
    <3>3. m.op = "register" /\ m.x = x
      BY <3>2 DEF NoOrder
    <3>. QED
      BY <1>4, <2>2, <3>3
  <2>. QED
    BY <1>10, <2>1, <2>2 DEF SaveMainFits
<1>15. c.op # "public"
  BY <1>2 DEF OrdersFit, Reviewed, Managing
<1>16. CallFits(next)'
  BY <1>5, <1>10, <1>12, <1>13, <1>14, <1>15 DEF CallFits
<1>17. Heeded(next)'
  BY <1>10, <1>11 DEF Heeded
<1>18. ASSUME NEW d \in calls \ {c}
       PROVE  Heeded(d)'
  <2>1. d.op = "reset" /\ d.step = "sent" => ~(m.op = "reset" /\ m.x = d.rows[d.r].bound)
    <3>. SUFFICES ASSUME d.op = "reset", d.step = "sent", m.op = "reset", m.x = d.rows[d.r].bound
                  PROVE  FALSE
      OBVIOUS
    <3>1. c.op = "reset" /\ m.x = c.rows[c.r].bound
      BY <1>2 DEF OrdersFit
    <3>. QED
      BY <1>1, <3>1, SameTarget
  <2>2. d.op = "assign" /\ d.step = "sent" => m.op # "assign"
    <3>. SUFFICES ASSUME d.op = "assign", d.step = "sent", m.op = "assign" PROVE FALSE
      OBVIOUS
    <3>1. c.op = "assign" /\ c.r = 0 /\ c.token # 0
      BY <1>1, <1>2 DEF OrdersFit, Reviewed
    <3>2. d.r = 0 /\ d.token # 0
      BY KnownCall DEF OrdersFit, Reviewed
    <3>. QED
      BY <3>1, <3>2 DEF ServiceOK, CallsOK, Confirming, Reviewed
  <2>. QED
    BY <1>1, <1>3, <2>1, <2>2, HeededStays
<1>19. CallsOK' /\ RepliesOK'
  BY <1>4, <1>9, <1>10, <1>16, <1>17, <1>18, GoesKeeps
<1>. QED
  BY <1>1, <1>4, <1>19 DEF ServiceOK, ReviewsOK

(* A change that comes late: whoever looked before it is overtaken.         *)
LEMMA LateStep ==
  ASSUME ServiceOK, NEW m, Late(m)
  PROVE  ServiceOK'
<1>1. /\ m \in late /\ late' = late \ {m} /\ Takes(m) /\ calls' = Overtaken(m)
      /\ UNCHANGED <<book, asked, replies, reviews>>
  BY DEF Late
<1>2. m \in Order /\ late' \subseteq Order
  BY <1>1 DEF ServiceOK, WorldOK
<1>3. WorldOK' /\ WorldMoves
  BY <1>1, <1>2, TakesMoves DEF ServiceOK
<1>. DEFINE Marked(c, d) ==
        /\ IsCall(d) /\ d.n = c.n /\ d.op = c.op /\ d.r = c.r /\ d.token = c.token
        /\ IF Overtakes(m, c) THEN d = [c EXCEPT !.stale = TRUE] /\ d.stale ELSE d = c
<1>4. ASSUME NEW d \in calls'
      PROVE  /\ CallFits(d)' /\ Heeded(d)'
             /\ \E c \in calls : Marked(c, d)
  <2>1. PICK c \in calls : d = IF Overtakes(m, c) THEN [c EXCEPT !.stale = TRUE] ELSE c
    BY <1>1 DEF Overtaken
  <2>2. CallFits(c) /\ IsCall(c) /\ OrdersFit(c)
    BY KnownCall
  <2>3. CallFits(c)'
    BY <1>3, <2>2, FitsStay DEF ServiceOK
  <2>4. CASE Overtakes(m, c)
    <3>1. /\ IsCall(d) /\ d.n = c.n /\ d.op = c.op /\ d.r = c.r /\ d.token = c.token /\ d.rows = c.rows
          /\ d.step = c.step /\ d.todo = c.todo /\ d.to = c.to /\ d.stale
      BY <2>1, <2>2, <2>4 DEF IsCall
    <3>2. OrdersFit(d)
      BY <2>2, <3>1 DEF OrdersFit
    <3>3. CallFits(d)'
      BY <2>3, <2>4, <3>1, <3>2 DEF CallFits, Reviewed, Overtakes
    <3>4. Heeded(d)'
      BY <3>1 DEF Heeded
    <3>5. Marked(c, d)
      BY <2>1, <2>4, <3>1
    <3>. QED
      BY <3>3, <3>4, <3>5
  <2>5. CASE ~Overtakes(m, c)
    <3>1. d = c
      BY <2>1, <2>5
    <3>2. Heeded(c)'
      BY <1>1, <1>2, <2>5, HeededStays DEF Reviewed, Overtakes
    <3>. QED
      BY <2>2, <2>3, <2>5, <3>1, <3>2
  <2>. QED
    BY <2>4, <2>5
<1>5. \A d, e \in calls' : Confirming(d, e) \/ (d.op = "codes" /\ d.n = e.n) => d = e
  <2>. SUFFICES ASSUME NEW d \in calls', NEW e \in calls', Confirming(d, e) \/ (d.op = "codes" /\ d.n = e.n)
                PROVE  d = e
    OBVIOUS
  <2>1. PICK b \in calls : Marked(b, d)
    BY <1>4
  <2>2. PICK c \in calls : Marked(c, e)
    BY <1>4
  <2>3. Confirming(b, c) \/ (b.op = "codes" /\ b.n = c.n)
    BY <2>1, <2>2 DEF Confirming
  <2>4. b = c
    BY <2>3 DEF ServiceOK, CallsOK
  <2>. QED
    BY <2>1, <2>2, <2>4
<1>6. RepliesOK'
  <2>1. \A a \in replies : Snapshot(a.doc.rows)'
    BY <1>3, SnapshotStays DEF ServiceOK, RepliesOK
  <2>2. \A a \in replies : \A d \in calls' : d.op = "codes" => d.n # a.n
    BY <1>4 DEF ServiceOK, RepliesOK
  <2>. QED
    BY <1>1, <2>1, <2>2 DEF ServiceOK, RepliesOK
<1>. QED
  BY <1>1, <1>3, <1>4, <1>5, <1>6 DEF ServiceOK, CallsOK, ReviewsOK

LEMMA OthersStay ==
  ASSUME ServiceOK, WorldOK', WorldMoves, UNCHANGED <<calls, replies, up, mail>>
  PROVE  CallsOK' /\ RepliesOK'
<1>1. \A c \in calls : CallFits(c) /\ Heeded(c)
  BY DEF ServiceOK, CallsOK
<1>2. \A c \in calls : CallFits(c)'
  BY <1>1, FitsStay DEF ServiceOK
<1>3. \A c \in calls : Heeded(c)'
  BY <1>1 DEF Heeded
<1>4. CallsOK'
  BY <1>2, <1>3 DEF ServiceOK, CallsOK
<1>5. \A a \in replies : a.n \in Nat /\ a.n <= asked' /\ Snapshot(a.doc.rows)'
  BY SnapshotStays DEF ServiceOK, RepliesOK, WorldMoves, WorldOK
<1>. QED
  BY <1>4, <1>5 DEF ServiceOK, RepliesOK

(* A request given up: its orders may still come.                           *)
LEMMA GiveUpStep ==
  ASSUME ServiceOK, NEW c \in calls, GiveUp(c)
  PROVE  ServiceOK'
<1>1. /\ c.op \in Reviewed \cup Managing /\ c.step \in {"sent", "done"} /\ late' \in MayStill(c.todo)
      /\ UNCHANGED <<up, mail, book, asked, reviews, codes>>
  BY DEF GiveUp
<1>2. CallFits(c) /\ IsCall(c) /\ OrdersFit(c) /\ c.todo \subseteq Order
  BY KnownCall DEF IsCall
<1>3. late' \subseteq Order
  BY <1>1, <1>2 DEF MayStill, ServiceOK, WorldOK
<1>4. WorldOK' /\ WorldMoves
  <2>1. WorldOK'
    BY <1>1, <1>3 DEF ServiceOK, WorldOK
  <2>2. codes <= codes' /\ asked <= asked'
    BY <1>1 DEF ServiceOK, WorldOK
  <2>. QED
    BY <1>1, <2>1, <2>2, BeforeSelf DEF WorldMoves
<1>5. CASE c.op = "register"
  <2>1. PICK next : next = [c EXCEPT !.step = "done", !.todo = {}]
    OBVIOUS
  <2>2. Goes(c, next)
    BY <1>5, <2>1 DEF GiveUp
  <2>3. /\ IsCall(next) /\ next.step = "done" /\ next.todo = {} /\ next.n = c.n /\ next.op = c.op
        /\ next.r = c.r /\ next.token = c.token /\ next.rows = c.rows /\ next.x = c.x /\ next.to = c.to
    BY <1>2, <2>1 DEF IsCall
  <2>4. CallFits(c)'
    BY <1>2, <1>4, FitsStay DEF ServiceOK
  <2>5. OrdersFit(next) /\ RegisterFits(next)
    BY <1>1, <1>2, <1>5, <2>3 DEF OrdersFit, CallFits, RegisterFits, Reviewed
  <2>6. CallFits(next)' /\ Heeded(next)'
    BY <1>5, <2>3, <2>4, <2>5 DEF CallFits, Heeded
  <2>7. \A d \in calls : Heeded(d)'
    BY <1>1 DEF ServiceOK, CallsOK, Heeded
  <2>8. CallsOK' /\ RepliesOK'
    BY <1>4, <2>2, <2>3, <2>6, <2>7, GoesKeeps
  <2>. QED
    BY <1>1, <1>4, <2>8 DEF ServiceOK, ReviewsOK
<1>6. CASE c.op # "register"
  <2>1. Ends(c, 502, 0)
    BY <1>6 DEF GiveUp
  <2>2. CallsOK' /\ RepliesOK'
    BY <1>1, <1>4, <2>1, EndsKeeps
  <2>. QED
    BY <1>1, <1>4, <2>2 DEF ServiceOK, ReviewsOK
<1>. QED
  BY <1>5, <1>6

LEMMA FailReadStep ==
  ASSUME ServiceOK, NEW c \in calls, FailRead(c)
  PROVE  ServiceOK'
<1>1. Ends(c, 502, 0) /\ UNCHANGED <<up, mail, book, asked, reviews, late, codes>>
  BY DEF FailRead
<1>2. Quiet
  BY <1>1 DEF Quiet, ServiceOK, WorldOK
<1>3. WorldOK' /\ WorldMoves
  BY <1>2, QuietMoves DEF ServiceOK
<1>4. CallsOK' /\ RepliesOK'
  BY <1>1, <1>3, EndsKeeps
<1>. QED
  BY <1>1, <1>3, <1>4 DEF ServiceOK, ReviewsOK

LEMMA RestartStep ==
  ASSUME ServiceOK, Restart
  PROVE  ServiceOK'
<1>1. /\ late' \in MayStill(UNION {c.todo : c \in {c \in calls : c.step = "sent"}})
      /\ calls' = {} /\ reviews' = {} /\ UNCHANGED <<up, mail, book, asked, codes>>
      /\ replies' = replies \cup {[n |-> c.n, op |-> c.op, r |-> c.r, token |-> c.token, status |-> 0, value |-> 0,
                                  doc |-> NoBook] : c \in Unanswered}
  BY DEF Restart
<1>2. \A c \in calls : c.todo \subseteq Order /\ c.n \in Nat /\ c.n <= asked
  BY DEF ServiceOK, CallsOK, CallFits, IsCall
<1>3. late' \subseteq Order
  BY <1>1, <1>2 DEF MayStill, ServiceOK, WorldOK
<1>4. WorldOK' /\ WorldMoves
  <2>1. WorldOK'
    BY <1>1, <1>3 DEF ServiceOK, WorldOK
  <2>2. codes <= codes' /\ asked <= asked'
    BY <1>1 DEF ServiceOK, WorldOK
  <2>. QED
    BY <1>1, <2>1, <2>2, BeforeSelf DEF WorldMoves
<1>5. Snapshot(<< >>)'
  BY DEF Snapshot, RowsOK, Before
<1>6. ASSUME NEW a \in replies'
      PROVE  a.n \in Nat /\ a.n <= asked' /\ Snapshot(a.doc.rows)'
  <2>1. CASE a \in replies
    BY <1>1, <1>4, <2>1, SnapshotStays DEF ServiceOK, RepliesOK
  <2>2. CASE a \notin replies
    <3>1. PICK c \in Unanswered : a = [n |-> c.n, op |-> c.op, r |-> c.r, token |-> c.token, status |-> 0,
                                       value |-> 0, doc |-> NoBook]
      BY <1>1, <2>2
    <3>2. a.n = c.n /\ a.doc.rows = << >> /\ c \in calls
      BY <3>1 DEF NoBook, Unanswered
    <3>. QED
      BY <1>1, <1>2, <1>5, <3>2
  <2>. QED
    BY <2>1, <2>2
<1>. QED
  BY <1>1, <1>4, <1>6 DEF ServiceOK, CallsOK, RepliesOK, ReviewsOK

(***************************************************************************)
(* Changes of rows                                                         *)
(***************************************************************************)
LEMMA BookMoves ==
  ASSUME WorldOK, RowsOK(book'.rows), Before(book.rows, book'.rows), BoundOutside(book'.rows, up),
         UNCHANGED <<up, codes, asked, late>>
  PROVE  WorldOK' /\ WorldMoves
<1>1. WorldOK'
  BY DEF WorldOK
<1>2. codes <= codes' /\ asked <= asked'
  BY DEF WorldOK
<1>. QED
  BY <1>1, <1>2 DEF WorldMoves

LEMMA BookSaved ==
  ASSUME ServiceOK, NEW c \in calls, NEW status, NEW value, Ends(c, status, value),
         NEW later, book'.rows = later,
         RowsOK(later), Before(book.rows, later), BoundOutside(later, up), UNCHANGED <<Unmoved, reviews>>
  PROVE  ServiceOK' /\ Before(book.rows, book'.rows)
<1>1. UNCHANGED <<up, mail, codes, asked, late>>
  BY DEF Unmoved
<1>2. WorldOK' /\ WorldMoves
  BY <1>1, BookMoves DEF ServiceOK
<1>3. CallsOK' /\ RepliesOK'
  BY <1>1, <1>2, EndsKeeps
<1>. QED
  BY <1>2, <1>3 DEF ServiceOK, ReviewsOK

LEMMA NextVersion ==
  ASSUME NEW row \in RowRecord
  PROVE  row.version + 1 \in Nat
<1>1. row.version \in Nat
  BY DEF RowRecord
<1>. QED
  BY <1>1

LEMMA RenewedRow ==
  ASSUME NEW row \in RowRecord, NEW x \in Addresses \cup {""}, NEW on \in BOOLEAN
  PROVE  /\ Renewed(row, x, on) \in RowRecord /\ Renewed(row, x, on).bound = x
         /\ Renewed(row, x, on).email = row.email /\ Renewed(row, x, on).owner = row.owner
         /\ Renewed(row, x, on).claim = row.claim
<1>1. PICK v \in Nat : v = row.version + 1
  BY NextVersion, Zenon
<1>2. Renewed(row, x, on) = [row EXCEPT !.bound = x, !.on = on, !.version = v]
  BY <1>1 DEF Renewed
<1>. QED
  BY <1>2 DEF RowRecord

LEMMA ClaimedRow ==
  ASSUME NEW row \in RowRecord, NEW n \in Nat
  PROVE  /\ Claimed(row, n) \in RowRecord /\ Claimed(row, n).bound = row.bound
         /\ Claimed(row, n).email = row.email /\ Claimed(row, n).owner = row.owner
<1>1. PICK v \in Nat : v = row.version + 1
  BY NextVersion, Zenon
<1>2. Claimed(row, n) = [row EXCEPT !.claim = n, !.version = v]
  BY <1>1 DEF Claimed
<1>. QED
  BY <1>2 DEF RowRecord

LEMMA RowReplaced ==
  ASSUME NEW rows, RowsOK(rows), NEW r \in DOMAIN rows, NEW new \in RowRecord,
         new.email = rows[r].email, new.owner = rows[r].owner,
         new.bound \in {rows[r].bound, rows[r].email},
         NEW outside, BoundOutside(rows, outside),
         new.bound # rows[r].bound =>
           Backed(rows, outside, r) /\ (~IsMain(rows, r) => Bound(rows, rows[r].owner))
  PROVE  /\ RowsOK([rows EXCEPT ![r] = new]) /\ Before(rows, [rows EXCEPT ![r] = new])
         /\ BoundOutside([rows EXCEPT ![r] = new], outside)
<1>. DEFINE later == [rows EXCEPT ![r] = new]
<1>1. rows \in Seq(RowRecord) /\ DOMAIN rows = 1..Len(rows)
  BY RowTypes
<1>2. /\ later \in Seq(RowRecord) /\ DOMAIN later = DOMAIN rows
      /\ \A s \in DOMAIN rows : later[s] = IF s = r THEN new ELSE rows[s]
  BY <1>1, ExceptSeq
<1>. HIDE DEF later
<1>3. \A s \in DOMAIN rows : ~IsMain(rows, s) /\ rows[s].bound # "" => Bound(rows, rows[s].owner)
  BY DEF RowsOK, Bound
<1>4. \A s \in DOMAIN rows :
        /\ later[s].email = rows[s].email /\ later[s].owner = rows[s].owner
        /\ later[s].bound \in {rows[s].bound, rows[s].email}
        /\ ~IsMain(rows, s) /\ later[s].bound # "" => Bound(rows, rows[s].owner)
  BY <1>2, <1>3
<1>5. RowsOK(later) /\ Before(rows, later)
  BY <1>2, <1>4, RowsRebound
<1>6. \A s \in DOMAIN rows :
        ~Bound(rows, s) /\ Bound(later, s) =>
          Backed(rows, outside, s) /\ (~IsMain(rows, s) => Bound(rows, rows[s].owner))
  BY <1>2 DEF Bound
<1>7. BoundOutside(later, outside)
  BY <1>2, <1>5, <1>6, ReboundOutside
<1>. QED
  BY <1>5, <1>7 DEF later

LEMMA RowAppended ==
  ASSUME NEW rows, RowsOK(rows), NEW row \in RowRecord, NewRow(rows, row),
         \A s \in DOMAIN rows : rows[s].email # row.email,
         NEW outside, BoundOutside(rows, outside),
         row.bound # "" => /\ outside[row.bound].there
                           /\ row.owner = 0 \/ outside[row.bound].owner = rows[row.owner].bound
  PROVE  /\ RowsOK(Append(rows, row)) /\ Before(rows, Append(rows, row))
         /\ BoundOutside(Append(rows, row), outside)
<1>. DEFINE later == Append(rows, row)
<1>1. rows \in Seq(RowRecord)
  BY RowTypes
<1>2. /\ later \in Seq(RowRecord)
      /\ \A s \in DOMAIN rows : s \in DOMAIN later /\ later[s] = rows[s]
      /\ \A s \in DOMAIN later \ DOMAIN rows : s = Len(rows) + 1 /\ later[s] = row
  <2>1. later = Append(rows, row)
    OBVIOUS
  <2>. HIDE DEF later
  <2>2. IsAppended(later, rows, row)
    BY <1>1, <2>1, Appended, Zenon
  <2>. QED
    BY <2>2, Zenon DEF IsAppended
<1>. HIDE DEF later
<1>3. \A r \in DOMAIN later \ DOMAIN rows :
        \A s \in DOMAIN later : later[s].email = later[r].email => s = r
  <2>1. \A s \in DOMAIN rows : later[s].email # row.email
    BY <1>2
  <2>2. \A r, s \in DOMAIN later \ DOMAIN rows : r = s /\ later[r] = row
    BY <1>2
  <2>. QED
    BY <2>1, <2>2
<1>4. Grown(rows, later)
  BY <1>2, <1>3 DEF Grown
<1>5. \A s \in DOMAIN later \ DOMAIN rows : later[s].bound # "" =>
           /\ outside[later[s].bound].there
           /\ later[s].owner = 0 \/ outside[later[s].bound].owner = rows[later[s].owner].bound
  <2>1. \A s \in DOMAIN later \ DOMAIN rows : later[s] = row
    BY <1>2
  <2>. QED
    BY <2>1, Zenon
<1>6. BoundOutside(later, outside)
  BY <1>4, <1>5, GrownOutside
<1>. QED
  BY <1>4, <1>6, RowsGrown DEF later

LEMMA ListAppended ==
  ASSUME NEW rows, RowsOK(rows), NEW S, IsFiniteSet(S), S \subseteq RowRecord,
         \A row \in S : NewRow(rows, row) /\ \A s \in DOMAIN rows : rows[s].email # row.email,
         \A row, other \in S : row.email = other.email => row = other,
         NEW outside, BoundOutside(rows, outside),
         \A row \in S : row.bound # "" =>
           /\ outside[row.bound].there
           /\ row.owner = 0 \/ outside[row.bound].owner = rows[row.owner].bound
  PROVE  /\ RowsOK(rows \o SetToSeq(S)) /\ Before(rows, rows \o SetToSeq(S))
         /\ BoundOutside(rows \o SetToSeq(S), outside)
<1>. DEFINE extra == SetToSeq(S)
            later == rows \o extra
<1>1. rows \in Seq(RowRecord)
  BY RowTypes
<1>2. /\ extra \in Seq(S)
      /\ \A i, j \in DOMAIN extra : extra[i] = extra[j] => i = j
  BY ListedOnce
<1>. HIDE DEF extra
<1>3. \A j \in DOMAIN extra : extra[j] \in S
  <2>1. DOMAIN extra = 1..Len(extra)
    BY <1>2, LenProperties
  <2>. QED
    BY <1>2, <2>1, ElementOfSeq
<1>4. extra \in Seq(RowRecord)
  BY <1>2, SeqMonotonic
<1>5. /\ later \in Seq(RowRecord)
      /\ \A s \in DOMAIN rows : s \in DOMAIN later /\ later[s] = rows[s]
      /\ \A s \in DOMAIN later \ DOMAIN rows :
           s - Len(rows) \in DOMAIN extra /\ later[s] = extra[s - Len(rows)]
      /\ \A s, r \in DOMAIN later : s - Len(rows) = r - Len(rows) => s = r
  BY <1>1, <1>4, Joined
<1>. HIDE DEF later
<1>6. \A s \in DOMAIN later \ DOMAIN rows : later[s] \in S
  BY <1>3, <1>5
<1>7. ASSUME NEW r \in DOMAIN later \ DOMAIN rows, NEW s \in DOMAIN later, later[s].email = later[r].email
      PROVE  s = r
  <2>1. later[r] \in S
    BY <1>6, <1>7
  <2>2. s \notin DOMAIN rows
    <3>1. CASE s \in DOMAIN rows
      <4>1. later[s] = rows[s] /\ rows[s].email # later[r].email
        BY <1>5, <2>1, <3>1
      <4>. QED
        BY <1>7, <4>1
    <3>. QED
      BY <3>1
  <2>3. later[s] = later[r]
    BY <1>6, <1>7, <2>1, <2>2
  <2>4. /\ s - Len(rows) \in DOMAIN extra /\ r - Len(rows) \in DOMAIN extra
        /\ extra[s - Len(rows)] = extra[r - Len(rows)]
    BY <1>5, <1>7, <2>2, <2>3
  <2>5. s - Len(rows) = r - Len(rows)
    BY <1>2, <2>4
  <2>. QED
    BY <1>5, <1>7, <2>5
<1>8. Grown(rows, later)
  BY <1>5, <1>6, <1>7 DEF Grown
<1>9. BoundOutside(later, outside)
  BY <1>6, <1>8, GrownOutside
<1>. QED
  BY <1>8, <1>9, RowsGrown DEF later, extra

LEMMA ImageFinite ==
  ASSUME NEW S, IsFiniteSet(S), NEW f, S \subseteq DOMAIN f
  PROVE  IsFiniteSet({f[x] : x \in S})
<1>. DEFINE T == {f[x] : x \in S}
            g == [x \in S |-> f[x]]
<1>1. g \in Surjection(S, T)
  BY DEF Surjection
<1>. QED
  BY <1>1, FS_Surjection

(***************************************************************************)
(* Rows saved                                                              *)
(***************************************************************************)
LEMMA RegisteredRows ==
  ASSUME ServiceOK, NEW c \in calls, c.op = "register", c.step # "asked"
  PROVE  /\ c.r \in DOMAIN book.rows /\ c.r # 0 /\ c.r \in Nat /\ IsMain(book.rows, c.r) /\ Bound(book.rows, c.r)
         /\ book.rows[c.r].bound = c.rows[c.r].bound /\ book.rows[c.r].bound \in Addresses
         /\ c.x \subseteq Hidden
         /\ c.to # 0 => /\ c.to \in DOMAIN book.rows /\ ~IsMain(book.rows, c.to)
                        /\ book.rows[c.to].owner = c.r /\ c.x = {book.rows[c.to].email}
<1>1. RowsOK(c.rows) /\ Before(c.rows, book.rows) /\ RowsOK(book.rows) /\ RegisterFits(c)
  BY KnownCall DEF CallFits, ServiceOK, WorldOK
<1>2. c.r \in DOMAIN c.rows /\ IsMain(c.rows, c.r) /\ Bound(c.rows, c.r)
  BY <1>1 DEF RegisterFits, Registers
<1>3. c.r \in DOMAIN book.rows /\ IsMain(book.rows, c.r) /\ book.rows[c.r].bound = c.rows[c.r].bound
  BY <1>1, <1>2 DEF Before, IsMain
<1>4. Bound(book.rows, c.r) /\ book.rows[c.r].bound \in Addresses
  BY <1>1, <1>2, <1>3, RowTypes DEF Bound
<1>5. c.r # 0 /\ c.r \in Nat
  <2>1. Len(book.rows) \in Nat /\ c.r \in 1..Len(book.rows)
    BY <1>1, <1>3, RowTypes
  <2>. QED
    BY <2>1
<1>6. ASSUME c.to # 0
      PROVE  /\ c.to \in DOMAIN book.rows /\ ~IsMain(book.rows, c.to)
             /\ book.rows[c.to].owner = c.r /\ c.x = {book.rows[c.to].email}
  <2>1. c.to \in DOMAIN c.rows /\ ~IsMain(c.rows, c.to) /\ c.x = {c.rows[c.to].email} /\ c.rows[c.to].owner = c.r
    BY <1>1, <1>6 DEF RegisterFits, Registers
  <2>. QED
    BY <1>1, <2>1 DEF Before, IsMain
<1>7. c.x \subseteq Hidden
  <2>1. CASE c.to = 0
    BY <1>1, <2>1, <1>5 DEF RegisterFits, Registers
  <2>2. CASE c.to # 0
    <3>1. c.to \in DOMAIN book.rows /\ ~IsMain(book.rows, c.to) /\ c.x = {book.rows[c.to].email}
      BY <1>6, <2>2
    <3>2. book.rows[c.to].email \in Hidden
      BY <1>1, <3>1 DEF RowsOK
    <3>. QED
      BY <3>1, <3>2
  <2>. QED
    BY <2>1, <2>2
<1>. QED
  BY <1>3, <1>4, <1>5, <1>6, <1>7

LEMMA SaveAliasesStep ==
  ASSUME ServiceOK, NEW c \in calls, c.op = "register", c.step # "asked",
         ~Taken(c), Missing(c) = {}, SaveAliases(c), UNCHANGED <<Unmoved, reviews>>
  PROVE  ServiceOK' /\ Before(book.rows, book'.rows)
<1>1. RowsOK(book.rows) /\ BoundOutside(book.rows, up)
  BY DEF ServiceOK, WorldOK
<1>2. \A x \in c.x : up[x].there /\ up[x].owner = book.rows[c.r].bound
  BY RegisteredRows DEF Taken, Missing
<1>3. CASE ~MayRegister(c)
  BY <1>3, EndsOnly DEF SaveAliases
<1>4. CASE MayRegister(c) /\ c.to = 0
  <2>1. PICK S : S = {Row(x, x, c.r) : x \in c.x}
    OBVIOUS
  <2>2. \A row \in S : \E x \in c.x : row = Row(x, x, c.r)
    BY <2>1
  <2>3. Ends(c, 200, 0) /\ book'.rows = book.rows \o SetToSeq(S)
    <3>1. NewRows(c) = SetToSeq(S)
      BY <2>1 DEF NewRows
    <3>2. Ends(c, 200, 0) /\ book'.rows = book.rows \o NewRows(c)
      BY <1>4 DEF SaveAliases
    <3>. QED
      BY <3>1, <3>2
  <2>4. IsFiniteSet(S)
    <3>. DEFINE f == [x \in c.x |-> Row(x, x, c.r)]
    <3>1. S = {f[x] : x \in c.x} /\ c.x \subseteq DOMAIN f
      BY <2>1
    <3>2. c.x \subseteq Addresses
      BY RegisteredRows DEF Addresses
    <3>3. IsFiniteSet(c.x)
      BY <3>2, AddressesAssumption, FS_Subset
    <3>. HIDE DEF f
    <3>. QED
      BY <3>1, <3>3, ImageFinite
  <2>5. ASSUME NEW row \in S
        PROVE  /\ row \in RowRecord /\ NewRow(book.rows, row)
               /\ \A s \in DOMAIN book.rows : book.rows[s].email # row.email
               /\ \A other \in S : row.email = other.email => row = other
               /\ row.bound # "" =>
                    /\ up[row.bound].there
                    /\ row.owner = 0 \/ up[row.bound].owner = book.rows[row.owner].bound
    <3>1. PICK x \in c.x : row = Row(x, x, c.r)
      BY <2>2
    <3>2. row.email = x /\ row.bound = x /\ row.owner = c.r /\ row.on = TRUE /\ row.version = 1 /\ row.claim = 0
      BY <3>1 DEF Row
    <3>3. x \in Hidden /\ x \in Addresses
      BY RegisteredRows DEF Addresses
    <3>4. row \in RowRecord
      BY <3>1, <3>3, RegisteredRows DEF Row, RowRecord
    <3>5. NewRow(book.rows, row)
      BY <3>2, <3>3, RegisteredRows DEF NewRow
    <3>6. \A s \in DOMAIN book.rows : book.rows[s].email # row.email
      <4>. SUFFICES ASSUME NEW s \in DOMAIN book.rows PROVE book.rows[s].email # x
        BY <3>2
      <4>1. IsMain(book.rows, s) \/ book.rows[s].email \notin c.x
        BY <1>1, <1>4, RowTypes DEF MayRegister
      <4>2. IsMain(book.rows, s) => book.rows[s].email \in Mains
        BY <1>1 DEF RowsOK
      <4>. QED
        BY <3>3, <4>1, <4>2, AddressesAssumption
    <3>7. \A other \in S : row.email = other.email => row = other
      BY <2>2, <3>1 DEF Row
    <3>8. up[row.bound].there /\ up[row.bound].owner = book.rows[row.owner].bound
      BY <1>2, <3>2
    <3>. QED
      BY <3>4, <3>5, <3>6, <3>7, <3>8
  <2>6. /\ RowsOK(book.rows \o SetToSeq(S)) /\ Before(book.rows, book.rows \o SetToSeq(S))
        /\ BoundOutside(book.rows \o SetToSeq(S), up)
    <3>1. S \subseteq RowRecord
      BY <2>5
    <3>2. \A row \in S : NewRow(book.rows, row) /\ \A s \in DOMAIN book.rows : book.rows[s].email # row.email
      BY <2>5
    <3>3. \A row, other \in S : row.email = other.email => row = other
      BY <2>5
    <3>4. \A row \in S : row.bound # "" =>
            /\ up[row.bound].there
            /\ row.owner = 0 \/ up[row.bound].owner = book.rows[row.owner].bound
      BY <2>5
    <3>. QED
      BY <1>1, <2>4, <3>1, <3>2, <3>3, <3>4, ListAppended
  <2>. QED
    BY <2>3, <2>6, BookSaved
<1>5. CASE MayRegister(c) /\ c.to # 0
  <2>1. PICK row : row = book.rows[c.to]
    OBVIOUS
  <2>2. PICK new : new = Renewed(row, row.email, row.on)
    OBVIOUS
  <2>3. Ends(c, 200, 0) /\ book'.rows = [book.rows EXCEPT ![c.to] = new]
    BY <1>5, <2>1, <2>2 DEF SaveAliases
  <2>4. c.to \in DOMAIN book.rows /\ row \in RowRecord /\ row.email \in Addresses /\ row.on \in BOOLEAN
    BY <1>1, <1>5, <2>1, RegisteredRows, RowTypes DEF RowRecord
  <2>5. new \in RowRecord /\ new.bound = row.email /\ new.email = row.email /\ new.owner = row.owner
    BY <2>2, <2>4, RenewedRow
  <2>6. Backed(book.rows, up, c.to) /\ Bound(book.rows, book.rows[c.to].owner)
    BY <1>2, <1>5, RegisteredRows DEF Backed
  <2>7. /\ RowsOK([book.rows EXCEPT ![c.to] = new]) /\ Before(book.rows, [book.rows EXCEPT ![c.to] = new])
        /\ BoundOutside([book.rows EXCEPT ![c.to] = new], up)
    BY <1>1, <2>1, <2>4, <2>5, <2>6, RowReplaced
  <2>. QED
    BY <2>3, <2>7, BookSaved
<1>. QED
  BY <1>3, <1>4, <1>5

LEMMA LookForAliasesStep ==
  ASSUME ServiceOK, NEW c \in calls, LookForAliases(c)
  PROVE  ServiceOK' /\ Before(book.rows, book'.rows)
<1>1. UNCHANGED <<Unmoved, reviews>> /\ c.op = "register" /\ c.step = "found"
  BY DEF LookForAliases, At
<1>2. CASE Taken(c)
  <2>1. Ends(c, 409, 0) /\ UNCHANGED book
    BY <1>2 DEF LookForAliases
  <2>. QED
    BY <1>1, <2>1, EndsOnly
<1>3. CASE ~Taken(c) /\ Missing(c) = {}
  <2>1. SaveAliases(c)
    BY <1>3 DEF LookForAliases
  <2>. QED
    BY <1>1, <1>3, <2>1, SaveAliasesStep
<1>4. CASE ~Taken(c) /\ Missing(c) # {}
  <2>. DEFINE orders == {[NoOrder EXCEPT !.op = "register", !.x = x, !.owner = c.rows[c.r].bound] : x \in Missing(c)}
  <2>1. UNCHANGED book /\ Sends(c, orders)
    BY <1>4 DEF LookForAliases
  <2>2. orders \subseteq Order /\ \A m \in orders : m.op = "register"
    <3>. SUFFICES ASSUME NEW x \in Missing(c)
                  PROVE  /\ [NoOrder EXCEPT !.op = "register", !.x = x, !.owner = c.rows[c.r].bound] \in Order
                         /\ [NoOrder EXCEPT !.op = "register", !.x = x, !.owner = c.rows[c.r].bound].op = "register"
      OBVIOUS
    <3>1. x \in Addresses /\ c.rows[c.r].bound \in Addresses
      BY <1>1, RegisteredRows DEF Missing, Addresses
    <3>. QED
      BY <3>1 DEF NoOrder, Order
  <2>. HIDE DEF orders
  <2>3. PICK next : next = [c EXCEPT !.step = "sent", !.todo = orders]
    OBVIOUS
  <2>4. Goes(c, next)
    BY <2>1, <2>3 DEF Sends
  <2>5. CallFits(c) /\ IsCall(c) /\ OrdersFit(c) /\ RegisterFits(c)
    BY <1>1, KnownCall DEF CallFits
  <2>6. /\ IsCall(next) /\ next.step = "sent" /\ next.todo = orders /\ next.n = c.n /\ next.op = c.op
        /\ next.r = c.r /\ next.token = c.token /\ next.rows = c.rows /\ next.to = c.to /\ next.x = c.x
    BY <2>2, <2>3, <2>5 DEF IsCall
  <2>7. RegisterFits(next)
    BY <1>1, <2>5, <2>6 DEF RegisterFits
  <2>8. OrdersFit(next)
    BY <1>1, <2>2, <2>6 DEF OrdersFit, Reviewed, Managing
  <2>9. CallFits(next) /\ Heeded(next)
    BY <1>1, <2>5, <2>6, <2>7, <2>8 DEF CallFits, Heeded, Reviewed
  <2>. QED
    BY <1>1, <2>1, <2>4, <2>6, <2>9, GoesOn
<1>. QED
  BY <1>2, <1>3, <1>4

LEMMA LookAgainStep ==
  ASSUME ServiceOK, NEW c \in calls, LookAgain(c)
  PROVE  ServiceOK' /\ Before(book.rows, book'.rows)
<1>1. UNCHANGED <<Unmoved, reviews>> /\ c.op = "register" /\ c.step = "done"
  BY DEF LookAgain, At
<1>2. CASE ~Taken(c) /\ Missing(c) = {}
  <2>1. SaveAliases(c)
    BY <1>2 DEF LookAgain
  <2>. QED
    BY <1>1, <1>2, <2>1, SaveAliasesStep
<1>3. CASE Taken(c) \/ Missing(c) # {}
  <2>1. (Ends(c, 409, 0) \/ Ends(c, 502, 0)) /\ UNCHANGED book
    BY <1>3 DEF LookAgain
  <2>. QED
    BY <1>1, <2>1, EndsOnly
<1>. QED
  BY <1>2, <1>3

LEMMA LookForMainsStep ==
  ASSUME ServiceOK, NEW c \in calls, LookForMains(c)
  PROVE  ServiceOK'
<1>1. UNCHANGED <<Unmoved, book, reviews>> /\ c.op = "saveMain" /\ c.step = "asked"
  BY DEF LookForMains, At
<1>2. PICK x \in c.x :
        IF ~MayManage(c, x) THEN Ends(c, 409, 0)
        ELSE Goes(c, [c EXCEPT !.todo = MainOrders(c, x),
                               !.step = IF MainOrders(c, x) = {} THEN "done" ELSE "sent"])
  BY DEF LookForMains
<1>3. CASE ~MayManage(c, x)
  BY <1>1, <1>2, <1>3, EndsOnly
<1>4. CASE MayManage(c, x)
  <2>1. CallFits(c) /\ IsCall(c) /\ OrdersFit(c) /\ SaveMainFits(c)
    BY <1>1, KnownCall DEF CallFits
  <2>2. x \in Addresses /\ c.x = {x}
    BY <2>1 DEF SaveMainFits, Manages, Addresses
  <2>3. \/ up[x].there
        \/ MainOrders(c, x) = {[NoOrder EXCEPT !.op = "register", !.x = x]}
    BY <1>4 DEF MayManage, MainOrders
  <2>4. MainOrders(c, x) = {} => up[x].there
    BY <2>3
  <2>5. \A m \in MainOrders(c, x) :
          /\ m.op \in {"register", "status"} /\ m.x = x /\ m.owner = "" /\ m.on \in BOOLEAN
          /\ m \in Order
    <3>1. \A on \in BOOLEAN : [NoOrder EXCEPT !.op = "status", !.x = x, !.on = on] \in Order
      BY <2>2 DEF NoOrder, Order
    <3>2. [NoOrder EXCEPT !.op = "register", !.x = x] \in Order
      BY <2>2 DEF NoOrder, Order
    <3>. QED
      BY <3>1, <3>2 DEF MainOrders, NoOrder
  <2>6. PICK orders : orders = MainOrders(c, x)
    OBVIOUS
  <2>7. PICK step : step = IF orders = {} THEN "done" ELSE "sent"
    OBVIOUS
  <2>8. PICK next : next = [c EXCEPT !.todo = orders, !.step = step]
    OBVIOUS
  <2>9. Goes(c, next)
    BY <1>2, <1>4, <2>6, <2>7, <2>8
  <2>10. /\ IsCall(next) /\ next.step = step /\ next.todo = orders /\ next.n = c.n /\ next.op = c.op
         /\ next.r = c.r /\ next.token = c.token /\ next.rows = c.rows /\ next.to = c.to /\ next.x = c.x
    BY <2>1, <2>5, <2>6, <2>8 DEF IsCall
  <2>11. SaveMainFits(next)
    BY <2>1, <2>2, <2>3, <2>4, <2>6, <2>7, <2>10 DEF SaveMainFits
  <2>12. OrdersFit(next)
    BY <1>1, <2>5, <2>6, <2>7, <2>10 DEF OrdersFit, Reviewed, Managing
  <2>13. CallFits(next) /\ Heeded(next)
    BY <1>1, <2>1, <2>10, <2>11, <2>12 DEF CallFits, Heeded, Reviewed
  <2>. QED
    BY <1>1, <2>9, <2>10, <2>13, GoesOn
<1>. QED
  BY <1>3, <1>4

LEMMA SaveMainStep ==
  ASSUME ServiceOK, NEW c \in calls, SaveMain(c)
  PROVE  ServiceOK' /\ Before(book.rows, book'.rows)
<1>1. UNCHANGED <<Unmoved, reviews>> /\ c.op = "saveMain" /\ c.step = "done"
  BY DEF SaveMain, At
<1>2. RowsOK(book.rows) /\ BoundOutside(book.rows, up)
  BY DEF ServiceOK, WorldOK
<1>3. SaveMainFits(c) /\ Before(c.rows, book.rows)
  BY <1>1, KnownCall DEF CallFits
<1>4. PICK x \in c.x :
        \/ UNCHANGED book /\ Ends(c, 409, 0)
        \/ /\ MainNamed(book.rows, x) \subseteq {c.r} /\ Ends(c, 200, 0)
           /\ c.r = 0 => book'.rows = Append(book.rows, Row(x, x, 0))
           /\ c.r # 0 => book'.rows = [book.rows EXCEPT ![c.r] = Renewed(book.rows[c.r], x, TurnedOn(c, x))]
  <2>1. PICK x \in c.x :
          LET same == IF c.r = 0 THEN TRUE ELSE book.rows[c.r].version = Version(c, c.r)
              rows == IF c.r = 0 THEN Append(book.rows, Row(x, x, 0))
                      ELSE [book.rows EXCEPT ![c.r] = Renewed(book.rows[c.r], x, TurnedOn(c, x))]
          IN  IF same /\ MainNamed(book.rows, x) \subseteq {c.r}
              THEN book' = [version |-> book.version + 1, rows |-> rows] /\ Ends(c, 200, 0)
              ELSE UNCHANGED book /\ Ends(c, 409, 0)
    BY DEF SaveMain
  <2>. QED
    BY <2>1
<1>5. x \in Mains /\ x \in Addresses /\ up[x].there
  BY <1>1, <1>3 DEF SaveMainFits, Manages, Addresses
<1>6. CASE UNCHANGED book /\ Ends(c, 409, 0)
  BY <1>1, <1>6, EndsOnly
<1>7. CASE c.r = 0 /\ ~(UNCHANGED book /\ Ends(c, 409, 0))
  <2>0. MainNamed(book.rows, x) \subseteq {0} /\ Ends(c, 200, 0) /\ book'.rows = Append(book.rows, Row(x, x, 0))
    BY <1>4, <1>7
  <2>1. PICK row : row = Row(x, x, 0)
    OBVIOUS
  <2>2. row \in RowRecord /\ row.email = x /\ row.bound = x /\ row.owner = 0
    BY <1>5, <2>1 DEF Row, RowRecord
  <2>3. NewRow(book.rows, row)
    BY <1>5, <2>2 DEF NewRow
  <2>4. ASSUME NEW s \in DOMAIN book.rows PROVE book.rows[s].email # row.email
    <3>1. ~(IsMain(book.rows, s) /\ book.rows[s].email = x)
      <4>1. s # 0
        BY <1>2, RowTypes
      <4>. QED
        BY <2>0, <4>1 DEF MainNamed
    <3>2. ~IsMain(book.rows, s) => book.rows[s].email \in Hidden
      BY <1>2 DEF RowsOK
    <3>. QED
      BY <1>5, <2>2, <3>1, <3>2, AddressesAssumption
  <2>5. /\ RowsOK(Append(book.rows, row)) /\ Before(book.rows, Append(book.rows, row))
        /\ BoundOutside(Append(book.rows, row), up)
    BY <1>2, <1>5, <2>2, <2>3, <2>4, RowAppended
  <2>. QED
    BY <1>1, <2>0, <2>1, <2>5, BookSaved
<1>8. CASE c.r # 0 /\ ~(UNCHANGED book /\ Ends(c, 409, 0))
  <2>1. /\ c.r \in DOMAIN book.rows /\ IsMain(book.rows, c.r) /\ book.rows[c.r].email = x
    BY <1>3, <1>8 DEF SaveMainFits, Manages, Before, IsMain
  <2>2. PICK row : row = book.rows[c.r]
    OBVIOUS
  <2>3. PICK on \in BOOLEAN : on = TurnedOn(c, x)
    BY <1>5 DEF TurnedOn, ServiceOK, WorldOK, Listing
  <2>4. PICK new : new = Renewed(row, x, on)
    OBVIOUS
  <2>5. row \in RowRecord
    BY <1>2, <2>1, <2>2, RowTypes
  <2>6. new \in RowRecord /\ new.bound = x /\ new.email = row.email /\ new.owner = row.owner
    BY <1>5, <2>4, <2>5, RenewedRow
  <2>7. Backed(book.rows, up, c.r)
    BY <1>5, <2>1 DEF Backed
  <2>8. /\ RowsOK([book.rows EXCEPT ![c.r] = new]) /\ Before(book.rows, [book.rows EXCEPT ![c.r] = new])
        /\ BoundOutside([book.rows EXCEPT ![c.r] = new], up)
    BY <1>2, <2>1, <2>2, <2>6, <2>7, RowReplaced
  <2>. QED
    BY <1>1, <1>4, <1>8, <2>2, <2>3, <2>4, <2>8, BookSaved
<1>. QED
  BY <1>6, <1>7, <1>8

LEMMA ImportMainsStep ==
  ASSUME ServiceOK, NEW c \in calls, ImportMains(c)
  PROVE  ServiceOK' /\ Before(book.rows, book'.rows)
<1>1. UNCHANGED <<Unmoved, reviews>> /\ c.op = "import"
  BY DEF ImportMains, At
<1>2. RowsOK(book.rows) /\ BoundOutside(book.rows, up) /\ up \in [Addresses -> Listing]
  BY DEF ServiceOK, WorldOK
<1>3. Before(c.rows, book.rows)
  BY KnownCall
<1>. DEFINE new == {x \in Unbound(c.rows) : MainNamed(c.rows, x) = {}}
            old == UNION {MainNamed(c.rows, x) : x \in Unbound(c.rows)}
            kept == /\ \A r \in old : book.rows[r].version = c.rows[r].version
                    /\ \A x \in new : MainNamed(book.rows, x) = {}
            bind == [r \in DOMAIN book.rows |-> IF r \in old THEN Renewed(book.rows[r], book.rows[r].email,
                                                                         up[book.rows[r].email].on)
                                                ELSE book.rows[r]]
            S == {[Row(x, x, 0) EXCEPT !.on = up[x].on] : x \in new}
<1>4. \/ (Ends(c, 204, 0) \/ Ends(c, 409, 0)) /\ UNCHANGED book
      \/ kept /\ Ends(c, 200, 0) /\ book'.rows = bind \o SetToSeq(S)
  <2>1. CASE new \cup old = {}
    BY <2>1 DEF ImportMains
  <2>2. CASE new \cup old # {} /\ ~kept
    BY <2>2 DEF ImportMains
  <2>3. CASE new \cup old # {} /\ kept
    <3>1. Ends(c, 200, 0) /\ book' = [version |-> book.version + 1, rows |-> bind \o SetToSeq(S)]
      BY <2>3 DEF ImportMains
    <3>. HIDE DEF bind, S
    <3>2. book'.rows = bind \o SetToSeq(S)
      BY <3>1
    <3>. QED
      BY <2>3, <3>1, <3>2
  <2>. QED
    BY <2>1, <2>2, <2>3
<1>5. CASE (Ends(c, 204, 0) \/ Ends(c, 409, 0)) /\ UNCHANGED book
  BY <1>1, <1>5, EndsOnly
<1>6. CASE kept /\ Ends(c, 200, 0) /\ book'.rows = bind \o SetToSeq(S)
  <2>1. \A x \in new : x \in Mains /\ x \in Addresses /\ up[x].there /\ MainNamed(book.rows, x) = {}
    BY <1>6 DEF Unbound, Addresses
  <2>2. \A r \in old \cap DOMAIN book.rows :
          IsMain(book.rows, r) /\ up[book.rows[r].email].there /\ book.rows[r].email \in Addresses
    BY <1>3 DEF Unbound, MainNamed, Before, IsMain, Addresses
  <2>3. \A x \in Addresses : up[x].on \in BOOLEAN
    BY <1>2 DEF Listing
  <2>4. PICK later : later = bind
    OBVIOUS
  <2>5. PICK some : some = S
    OBVIOUS
  <2>6. DOMAIN later = DOMAIN book.rows
    BY <2>4
  <2>7. ASSUME NEW r \in DOMAIN book.rows
        PROVE  /\ later[r] \in RowRecord
               /\ later[r].email = book.rows[r].email /\ later[r].owner = book.rows[r].owner
               /\ later[r].bound \in {book.rows[r].bound, book.rows[r].email}
               /\ later[r].bound # book.rows[r].bound => IsMain(book.rows, r) /\ up[book.rows[r].email].there
    <3>1. book.rows[r] \in RowRecord
      BY <1>2, RowTypes
    <3>2. CASE r \in old
      <4>1. PICK on \in BOOLEAN : on = up[book.rows[r].email].on
        BY <2>2, <2>3, <3>2
      <4>2. later[r] = Renewed(book.rows[r], book.rows[r].email, on)
        BY <2>4, <3>2, <4>1
      <4>3. IsMain(book.rows, r) /\ up[book.rows[r].email].there /\ book.rows[r].email \in Addresses
        BY <2>2, <3>2
      <4>4. PICK row \in RowRecord : row = book.rows[r]
        BY <3>1
      <4>5. PICK x \in Addresses : x = row.email
        BY <4>3, <4>4
      <4>6. /\ Renewed(row, x, on) \in RowRecord /\ Renewed(row, x, on).bound = x
            /\ Renewed(row, x, on).email = row.email /\ Renewed(row, x, on).owner = row.owner
        BY RenewedRow
      <4>7. later[r] = Renewed(row, x, on)
        BY <4>2, <4>4, <4>5
      <4>. QED
        BY <4>3, <4>4, <4>5, <4>6, <4>7
    <3>3. CASE r \notin old
      BY <2>4, <3>1, <3>3
    <3>. QED
      BY <3>2, <3>3
  <2>8. \A x \in some : \E y \in new : x = [Row(y, y, 0) EXCEPT !.on = up[y].on]
    BY <2>5
  <2>9. IsFiniteSet(some)
    <3>. DEFINE f == [x \in new |-> [Row(x, x, 0) EXCEPT !.on = up[x].on]]
    <3>1. some = {f[x] : x \in new}
      BY <2>5
    <3>2. new \subseteq Addresses
      BY <2>1
    <3>3. IsFiniteSet(new)
      BY <3>2, AddressesAssumption, FS_Subset
    <3>4. new \subseteq DOMAIN f
      OBVIOUS
    <3>. HIDE DEF new, f
    <3>. QED
      BY <3>1, <3>3, <3>4, ImageFinite
  <2>10. book'.rows = later \o SetToSeq(some)
    BY <1>6, <2>4, <2>5
  <2>. HIDE DEF new, old, bind, S, kept
  <2>11. later \in Seq(RowRecord)
    <3>1. DOMAIN later = 1..Len(book.rows) /\ Len(book.rows) \in Nat
      BY <1>2, <2>6, RowTypes
    <3>2. later \in [1..Len(book.rows) -> RowRecord]
      BY <2>4, <2>7, <3>1 DEF bind
    <3>. QED
      BY <3>1, <3>2, SeqDef
  <2>12. RowsOK(later) /\ Before(book.rows, later)
    <3>1. \A r \in DOMAIN book.rows :
            ~IsMain(book.rows, r) /\ later[r].bound # "" => Bound(book.rows, book.rows[r].owner)
      BY <1>2, <2>7 DEF RowsOK, Bound
    <3>. QED
      BY <1>2, <2>6, <2>7, <2>11, <3>1, RowsRebound
  <2>13. BoundOutside(later, up)
    <3>1. \A r \in DOMAIN book.rows : ~Bound(book.rows, r) /\ Bound(later, r) =>
            Backed(book.rows, up, r) /\ (~IsMain(book.rows, r) => Bound(book.rows, book.rows[r].owner))
      BY <2>7 DEF Bound, Backed
    <3>. QED
      BY <1>2, <2>6, <2>12, <3>1, ReboundOutside
  <2>14. ASSUME NEW row \in some
         PROVE  /\ row \in RowRecord /\ NewRow(later, row)
                /\ \A s \in DOMAIN later : later[s].email # row.email
                /\ \A other \in some : row.email = other.email => row = other
                /\ row.bound # "" =>
                     /\ up[row.bound].there
                     /\ row.owner = 0 \/ up[row.bound].owner = later[row.owner].bound
    <3>1. PICK x \in new : row = [Row(x, x, 0) EXCEPT !.on = up[x].on]
      BY <2>8
    <3>2. row.email = x /\ row.bound = x /\ row.owner = 0 /\ row \in RowRecord
      BY <2>1, <2>3, <3>1 DEF Row, RowRecord
    <3>3. NewRow(later, row) /\ up[row.bound].there
      BY <2>1, <3>2 DEF NewRow
    <3>4. ASSUME NEW s \in DOMAIN later PROVE later[s].email # row.email
      <4>1. later[s].email = book.rows[s].email
        BY <2>6, <2>7
      <4>2. IsMain(book.rows, s) => book.rows[s].email # x
        BY <2>1, <2>6 DEF MainNamed
      <4>3. ~IsMain(book.rows, s) => book.rows[s].email \in Hidden
        BY <1>2, <2>6 DEF RowsOK
      <4>. QED
        BY <2>1, <3>2, <4>1, <4>2, <4>3, AddressesAssumption
    <3>5. ASSUME NEW other \in some, row.email = other.email PROVE row = other
      <4>1. PICK y \in new : other = [Row(y, y, 0) EXCEPT !.on = up[y].on]
        BY <2>8
      <4>2. other.email = y
        BY <4>1 DEF Row
      <4>. QED
        BY <3>1, <3>2, <3>5, <4>1, <4>2
    <3>. QED
      BY <3>2, <3>3, <3>4, <3>5
  <2>15. /\ RowsOK(later \o SetToSeq(some)) /\ Before(later, later \o SetToSeq(some))
         /\ BoundOutside(later \o SetToSeq(some), up)
    <3>1. some \subseteq RowRecord
      BY <2>14
    <3>2. \A row \in some : NewRow(later, row) /\ \A s \in DOMAIN later : later[s].email # row.email
      BY <2>14
    <3>3. \A row, other \in some : row.email = other.email => row = other
      BY <2>14
    <3>4. \A row \in some : row.bound # "" =>
            /\ up[row.bound].there
            /\ row.owner = 0 \/ up[row.bound].owner = later[row.owner].bound
      BY <2>14
    <3>. QED
      BY <2>9, <2>12, <2>13, <3>1, <3>2, <3>3, <3>4, ListAppended
  <2>16. Before(book.rows, later \o SetToSeq(some))
    BY <2>12, <2>15, BeforeTwice
  <2>. QED
    BY <1>1, <1>6, <2>10, <2>15, <2>16, BookSaved
<1>. QED
  BY <1>4, <1>5, <1>6

LEMMA ClaimStep ==
  ASSUME ServiceOK, NEW c \in calls, Claim(c)
  PROVE  ServiceOK' /\ Before(book.rows, book'.rows)
<1>1. UNCHANGED <<Unmoved, reviews>> /\ RowsOK(book.rows) /\ BoundOutside(book.rows, up)
  BY DEF Claim, ServiceOK, WorldOK
<1>2. \/ (Ends(c, 503, 0) \/ Ends(c, 409, 0)) /\ UNCHANGED book
      \/ /\ Eligible(book.rows, c.r) /\ Ends(c, 200, c.n)
         /\ book'.rows = [book.rows EXCEPT ![c.r] = Claimed(book.rows[c.r], c.n)]
  BY DEF Claim
<1>3. CASE (Ends(c, 503, 0) \/ Ends(c, 409, 0)) /\ UNCHANGED book
  BY <1>1, <1>3, EndsOnly
<1>4. CASE /\ Eligible(book.rows, c.r) /\ Ends(c, 200, c.n)
           /\ book'.rows = [book.rows EXCEPT ![c.r] = Claimed(book.rows[c.r], c.n)]
  <2>1. PICK row : row = book.rows[c.r]
    OBVIOUS
  <2>2. PICK new : new = Claimed(row, c.n)
    OBVIOUS
  <2>3. c.r \in DOMAIN book.rows /\ c.n \in Nat
    BY <1>4, KnownCall DEF Eligible, Extractable, MatchedAlias, IsCall
  <2>4. row \in RowRecord
    BY <1>1, <2>1, <2>3, RowTypes
  <2>5. new \in RowRecord /\ new.bound = row.bound /\ new.email = row.email /\ new.owner = row.owner
    BY <2>2, <2>3, <2>4, ClaimedRow
  <2>6. /\ RowsOK([book.rows EXCEPT ![c.r] = new]) /\ Before(book.rows, [book.rows EXCEPT ![c.r] = new])
        /\ BoundOutside([book.rows EXCEPT ![c.r] = new], up)
    BY <1>1, <2>1, <2>3, <2>5, RowReplaced
  <2>. QED
    BY <1>1, <1>4, <2>1, <2>2, <2>6, BookSaved
<1>. QED
  BY <1>2, <1>3, <1>4

LEMMA SavedRows ==
  ASSUME NEW rows, Saved(rows)
  PROVE  book'.rows = rows
  BY DEF Saved

LEMMA ColleagueSavesStep ==
  ASSUME ServiceOK, ColleagueSaves
  PROVE  ServiceOK' /\ Before(book.rows, book'.rows)
<1>1. RowsOK(book.rows) /\ BoundOutside(book.rows, up) /\ UNCHANGED <<up, mail, calls, asked, replies, reviews, late, codes>>
  BY DEF ColleagueSaves, ServiceOK, WorldOK
<1>2. RowsOK(book'.rows) /\ Before(book.rows, book'.rows) /\ BoundOutside(book'.rows, up)
  <2>1. \/ \E r \in DOMAIN book.rows :
             book'.rows = [book.rows EXCEPT ![r] = Renewed(book.rows[r], book.rows[r].bound, ~book.rows[r].on)]
        \/ \E r \in DOMAIN book.rows, x \in Hidden :
             /\ IsMain(book.rows, r) /\ \A s \in DOMAIN book.rows : book.rows[s].email # x
             /\ book'.rows = Append(book.rows, Row(x, "", r))
        \/ \E r \in DOMAIN book.rows :
             book'.rows = [book.rows EXCEPT ![r] = Claimed(book.rows[r], 0)]
    BY SavedRows DEF ColleagueSaves
  <2>2. ASSUME NEW r \in DOMAIN book.rows,
               book'.rows = [book.rows EXCEPT ![r] = Renewed(book.rows[r], book.rows[r].bound, ~book.rows[r].on)]
        PROVE  RowsOK(book'.rows) /\ Before(book.rows, book'.rows) /\ BoundOutside(book'.rows, up)
    <3>1. PICK row : row = book.rows[r]
      OBVIOUS
    <3>2. PICK on \in BOOLEAN : on = ~row.on
      OBVIOUS
    <3>3. PICK new : new = Renewed(row, row.bound, on)
      OBVIOUS
    <3>4. row \in RowRecord
      BY <1>1, <3>1, RowTypes
    <3>5. row.bound \in Addresses \cup {""}
      BY <3>4 DEF RowRecord
    <3>6. new \in RowRecord /\ new.bound = row.bound /\ new.email = row.email /\ new.owner = row.owner
      BY <3>3, <3>4, <3>5, RenewedRow
    <3>. QED
      BY <1>1, <2>2, <3>1, <3>2, <3>3, <3>6, RowReplaced
  <2>3. ASSUME NEW r \in DOMAIN book.rows, NEW x \in Hidden, IsMain(book.rows, r),
               \A s \in DOMAIN book.rows : book.rows[s].email # x,
               book'.rows = Append(book.rows, Row(x, "", r))
        PROVE  RowsOK(book'.rows) /\ Before(book.rows, book'.rows) /\ BoundOutside(book'.rows, up)
    <3>1. PICK row : row = Row(x, "", r)
      OBVIOUS
    <3>2. r # 0 /\ r \in Nat
      <4>1. Len(book.rows) \in Nat /\ r \in 1..Len(book.rows)
        BY <1>1, RowTypes
      <4>. QED
        BY <4>1
    <3>3. row \in RowRecord /\ row.email = x /\ row.bound = "" /\ row.owner = r
      BY <3>1, <3>2 DEF Row, RowRecord, Addresses
    <3>4. NewRow(book.rows, row)
      BY <2>3, <3>2, <3>3 DEF NewRow
    <3>. QED
      BY <1>1, <2>3, <3>1, <3>3, <3>4, RowAppended
  <2>4. ASSUME NEW r \in DOMAIN book.rows,
               book'.rows = [book.rows EXCEPT ![r] = Claimed(book.rows[r], 0)]
        PROVE  RowsOK(book'.rows) /\ Before(book.rows, book'.rows) /\ BoundOutside(book'.rows, up)
    <3>1. PICK row : row = book.rows[r]
      OBVIOUS
    <3>2. PICK new : new = Claimed(row, 0)
      OBVIOUS
    <3>3. row \in RowRecord
      BY <1>1, <3>1, RowTypes
    <3>4. new \in RowRecord /\ new.bound = row.bound /\ new.email = row.email /\ new.owner = row.owner
      BY <3>2, <3>3, ClaimedRow
    <3>. QED
      BY <1>1, <2>4, <3>1, <3>2, <3>4, RowReplaced
  <2>. QED
    BY <2>1, <2>2, <2>3, <2>4
<1>3. WorldOK' /\ WorldMoves
  BY <1>1, <1>2, BookMoves DEF ServiceOK
<1>4. CallsOK' /\ RepliesOK'
  BY <1>1, <1>3, OthersStay
<1>. QED
  BY <1>1, <1>2, <1>3, <1>4 DEF ServiceOK, ReviewsOK

(***************************************************************************)
(* Requests that arrive                                                    *)
(***************************************************************************)
Arrives(c) ==
  /\ IsCall(c) /\ c.n > asked /\ c.rows = book.rows /\ c.step = "asked" /\ c.todo = {} /\ ~c.stale
  /\ c.op = "public" => c.arg \in Nat /\ c.arg <= codes
  /\ c.op = "register" => Registers(book.rows, c.r, c.to, c.x)
  /\ c.op = "saveMain" => Manages(book.rows, c.r, c.x)
  /\ c.op = "assign" => c.r = 0

LEMMA ArrivalFits ==
  ASSUME ServiceOK, Quiet, NEW c, Arrives(c), c.n <= asked'
  PROVE  CallFits(c)'
<1>1. WorldOK'
  BY QuietMoves DEF ServiceOK
<1>2. Snapshot(c.rows)'
  BY <1>1, BeforeSelf DEF Arrives, Quiet, Snapshot, WorldOK
<1>3. IsCall(c) /\ OrdersFit(c)
  BY DEF Arrives, OrdersFit
<1>4. c.op = "register" => RegisterFits(c)
  BY DEF Arrives, RegisterFits
<1>5. c.op = "saveMain" => SaveMainFits(c)'
  BY DEF Arrives, SaveMainFits
<1>6. c.op = "public" => PublicFits(c)'
  BY DEF Arrives, PublicFits, Quiet
<1>. QED
  BY <1>2, <1>3, <1>4, <1>5, <1>6 DEF CallFits

LEMMA OneAdded ==
  ASSUME ServiceOK, Quiet, NEW c, Arrives(c), c.n <= asked', calls' = calls \cup {c}, replies' = replies,
         c.token # 0 => ~Pending(c.op, c.r)
  PROVE  CallsOK' /\ RepliesOK' /\ WorldOK'
<1>. PICK new : new = {c}
  OBVIOUS
<1>1. \A d \in new : d = c
  OBVIOUS
<1>2. CallFits(c)' /\ c.n > asked /\ c.step = "asked"
  BY ArrivalFits DEF Arrives
<1>3. \A d \in new : CallFits(d)' /\ d.n > asked /\ d.step = "asked"
  BY <1>1, <1>2
<1>. QED
  BY <1>1, <1>3, CallsAdded

LEMMA ArriveStep ==
  ASSUME ServiceOK, NEW c, Arrive(c), Arrives(c), c.n = asked + 1, c.token = 0
  PROVE  ServiceOK' /\ UNCHANGED book
<1>1. /\ asked' = asked + 1 /\ asked \in Nat
      /\ UNCHANGED <<up, mail, book, reviews, late, codes>>
  BY DEF Arrive, ServiceOK, WorldOK
<1>2. Quiet
  BY <1>1 DEF Quiet
<1>3. CASE Refused(c)
  <2>1. replies' = Answered(c, 409, 0) /\ calls' = calls
    BY <1>3 DEF Arrive
  <2>2. CallsOK' /\ RepliesOK' /\ WorldOK'
    BY <1>1, <1>2, <2>1, CallRefused
  <2>. QED
    BY <1>1, <2>2 DEF ServiceOK, ReviewsOK
<1>4. CASE ~Refused(c)
  <2>1. replies' = replies /\ calls' = calls \cup {c}
    BY <1>4 DEF Arrive
  <2>2. CallsOK' /\ RepliesOK' /\ WorldOK'
    BY <1>1, <1>2, <2>1, OneAdded
  <2>. QED
    BY <1>1, <2>2 DEF ServiceOK, ReviewsOK
<1>. QED
  BY <1>3, <1>4

LEMMA NewCall ==
  ASSUME asked \in Nat, NEW by, NEW op, NEW r, NEW to, NEW x, NEW arg, NEW seen,
         op = "public" => arg \in Nat /\ arg <= codes,
         op = "register" => Registers(book.rows, r, to, x),
         op = "saveMain" => Manages(book.rows, r, x),
         op = "assign" => r = 0
  PROVE  /\ Arrives(Call(by, op, r, to, x, arg, seen))
         /\ Call(by, op, r, to, x, arg, seen).n = asked + 1
         /\ Call(by, op, r, to, x, arg, seen).token = 0
         /\ Call(by, op, r, to, x, arg, seen).op = op /\ Call(by, op, r, to, x, arg, seen).r = r
<1>1. PICK n \in Nat \ {0} : n = asked + 1 /\ n > asked
  OBVIOUS
<1>2. PICK c, before : /\ c = Call(by, op, r, to, x, arg, seen)
                       /\ before = IF op = "codes" THEN [a \in Addresses |-> up[a].code] ELSE << >>
  OBVIOUS
<1>3. c = [n |-> n, by |-> by, op |-> op, r |-> r, to |-> to, x |-> x, arg |-> arg, seen |-> seen,
           step |-> "asked", rows |-> book.rows, found |-> {}, todo |-> {}, token |-> 0, made |-> 0, stale |-> FALSE,
           catalog |-> << >>, before |-> before]
  BY <1>1, <1>2 DEF Call
<1>4. IsCall(c)
  BY <1>3 DEF IsCall
<1>5. /\ c.n = n /\ c.op = op /\ c.r = r /\ c.to = to /\ c.x = x /\ c.arg = arg /\ c.step = "asked"
      /\ c.rows = book.rows /\ c.todo = {} /\ c.token = 0 /\ c.stale = FALSE
  BY <1>3
<1>6. Arrives(c)
  BY <1>1, <1>4, <1>5 DEF Arrives
<1>. QED
  BY <1>1, <1>2, <1>5, <1>6

LEMMA OtherRequests ==
  ASSUME OtherAsks
  PROVE  \/ \E r : Arrive(Call("other", "reset", r, 0, {}, 0, NoSeen))
         \/ \E to, s : Arrive(Call("other", "assign", 0, to, {}, s, NoSeen))
         \/ \E r \in DOMAIN book.rows, x \in Hidden : \E seen :
              IsMain(book.rows, r) /\ Arrive(Call("other", "register", r, 0, {x}, 0, seen))
         \/ \E x \in Addresses : up[x].code > 0 /\ Arrive(Call("other", "query", 0, 0, {}, up[x].code, NoSeen))
         \/ \E x \in Addresses : up[x].code > 0 /\ Arrive(Call("buyer", "public", 0, 0, {}, up[x].code, NoSeen))
  BY DEF OtherAsks

LEMMA OtherAsksStep ==
  ASSUME ServiceOK, OtherAsks
  PROVE  ServiceOK' /\ UNCHANGED book
<1>1. asked \in Nat /\ RowsOK(book.rows)
  BY DEF ServiceOK, WorldOK
<1>2. \A x \in Addresses : up[x].code > 0 => up[x].code \in Nat /\ up[x].code <= codes
  <2>1. \A x \in Addresses : up[x] \in Listing
    BY DEF ServiceOK, WorldOK
  <2>. QED
    BY <2>1 DEF ServiceOK, WorldOK, Listing
<1>3. \/ \E r : Arrive(Call("other", "reset", r, 0, {}, 0, NoSeen))
      \/ \E to, s : Arrive(Call("other", "assign", 0, to, {}, s, NoSeen))
      \/ \E r \in DOMAIN book.rows, x \in Hidden : \E seen :
           IsMain(book.rows, r) /\ Arrive(Call("other", "register", r, 0, {x}, 0, seen))
      \/ \E x \in Addresses : up[x].code > 0 /\ Arrive(Call("other", "query", 0, 0, {}, up[x].code, NoSeen))
      \/ \E x \in Addresses : up[x].code > 0 /\ Arrive(Call("buyer", "public", 0, 0, {}, up[x].code, NoSeen))
  BY OtherRequests
<1>4. ASSUME NEW r, Arrive(Call("other", "reset", r, 0, {}, 0, NoSeen))
      PROVE  ServiceOK' /\ UNCHANGED book
  BY <1>1, <1>4, NewCall, ArriveStep
<1>5. ASSUME NEW to, NEW s, Arrive(Call("other", "assign", 0, to, {}, s, NoSeen))
      PROVE  ServiceOK' /\ UNCHANGED book
  BY <1>1, <1>5, NewCall, ArriveStep
<1>6. ASSUME NEW r \in DOMAIN book.rows, NEW x \in Hidden, NEW seen, IsMain(book.rows, r),
             Arrive(Call("other", "register", r, 0, {x}, 0, seen))
      PROVE  ServiceOK' /\ UNCHANGED book
  <2>1. Registers(book.rows, r, 0, {x})
    BY <1>6 DEF Registers
  <2>. QED
    BY <1>1, <1>6, <2>1, NewCall, ArriveStep
<1>7. ASSUME NEW x \in Addresses, Arrive(Call("other", "query", 0, 0, {}, up[x].code, NoSeen))
      PROVE  ServiceOK' /\ UNCHANGED book
  BY <1>1, <1>7, NewCall, ArriveStep
<1>8. ASSUME NEW x \in Addresses, up[x].code > 0, Arrive(Call("buyer", "public", 0, 0, {}, up[x].code, NoSeen))
      PROVE  ServiceOK' /\ UNCHANGED book
  BY <1>1, <1>2, <1>8, NewCall, ArriveStep
<1>. QED
  BY <1>3, <1>4, <1>5, <1>6, <1>7, <1>8

LEMMA ConfirmStep ==
  ASSUME ServiceOK, NEW by, NEW op \in Reviewed, NEW token, Confirm(by, op, token)
  PROVE  ServiceOK' /\ UNCHANGED book
<1>1. /\ asked' = asked + 1 /\ asked \in Nat
      /\ UNCHANGED <<up, mail, book, late, codes>>
  BY DEF Confirm, ServiceOK, WorldOK
<1>2. Quiet
  BY <1>1 DEF Quiet
<1>. DEFINE mine == {v \in reviews : v.token = token /\ v.by = by /\ v.op = op}
            made(v) == [Call(by, op, v.r, v.to, {}, v.arg, v.seen) EXCEPT !.token = token]
<1>3. PICK v \in IF mine = {} THEN {NoReview} ELSE mine :
        IF v = NoReview \/ Pending(op, v.r)
        THEN replies' = Answered(made(v), 409, 0) /\ UNCHANGED <<calls, reviews>>
        ELSE /\ calls' = calls \cup {made(v)} /\ UNCHANGED replies
             /\ reviews' = reviews \ (IF op = "assign" THEN {w \in reviews : w.op = op} ELSE {v})
  BY DEF Confirm
<1>4. PICK c : c = made(v)
  OBVIOUS
<1>5. c.n = asked + 1 /\ c.token = token
  BY <1>4 DEF Call
<1>6. CASE v = NoReview \/ Pending(op, v.r)
  <2>1. replies' = Answered(c, 409, 0) /\ calls' = calls /\ reviews' = reviews
    BY <1>3, <1>4, <1>6
  <2>2. CallsOK' /\ RepliesOK' /\ WorldOK'
    BY <1>1, <1>2, <1>5, <2>1, CallRefused
  <2>. QED
    BY <1>1, <2>1, <2>2 DEF ServiceOK, ReviewsOK
<1>7. CASE v # NoReview /\ ~Pending(op, v.r)
  <2>1. v \in mine /\ reviews' \subseteq reviews
    BY <1>3, <1>7
  <2>2. token \in Nat \ {0} /\ (op = "assign" => v.r = 0)
    BY <2>1 DEF ServiceOK, ReviewsOK
  <2>3. PICK d : d = Call(by, op, v.r, v.to, {}, v.arg, v.seen)
    OBVIOUS
  <2>4. Arrives(d) /\ d.n = asked + 1 /\ d.op = op /\ d.r = v.r
    BY <1>1, <2>2, <2>3, NewCall DEF Reviewed
  <2>5. c = [d EXCEPT !.token = token]
    BY <1>4, <2>3
  <2>6. /\ IsCall(c) /\ c.op = d.op /\ c.r = d.r /\ c.rows = d.rows /\ c.step = d.step /\ c.todo = d.todo
        /\ c.stale = d.stale /\ c.n = d.n
    BY <2>2, <2>4, <2>5 DEF Arrives, IsCall
  <2>7. Arrives(c)
    BY <2>4, <2>6 DEF Arrives, Reviewed
  <2>8. calls' = calls \cup {c} /\ replies' = replies /\ ~Pending(c.op, c.r)
    BY <1>3, <1>4, <1>7, <2>4, <2>6
  <2>9. CallsOK' /\ RepliesOK' /\ WorldOK'
    BY <1>1, <1>2, <1>5, <2>7, <2>8, OneAdded
  <2>. QED
    BY <1>1, <2>1, <2>9 DEF ServiceOK, ReviewsOK
<1>. QED
  BY <1>6, <1>7

(* The claim's codes: only their catalog is read, and the row remembered.   *)
LEMMA LookUpStep ==
  ASSUME ServiceOK, NEW c \in calls, ReadCatalog(c) \/ CheckClaim(c)
  PROVE  ServiceOK'
<1>1. UNCHANGED <<Unmoved, book, reviews>> /\ c.op = "codes"
  BY DEF ReadCatalog, CheckClaim, At
<1>2. CASE Ends(c, 409, 0)
  BY <1>1, <1>2, EndsOnly
<1>3. ASSUME NEW step \in {"found", "read"}, NEW catalog, NEW found,
             NEW next, next = [c EXCEPT !.step = step, !.catalog = catalog, !.found = found], Goes(c, next)
      PROVE  ServiceOK'
  <2>1. CallFits(c) /\ IsCall(c) /\ OrdersFit(c)
    BY KnownCall
  <2>2. /\ IsCall(next) /\ next.step = step /\ next.todo = c.todo /\ next.n = c.n /\ next.op = c.op
        /\ next.r = c.r /\ next.token = c.token /\ next.rows = c.rows
    BY <1>3, <2>1 DEF IsCall
  <2>3. OrdersFit(next)
    BY <1>1, <2>1, <2>2 DEF OrdersFit, Reviewed, Managing
  <2>4. CallFits(next) /\ Heeded(next)
    BY <1>1, <2>1, <2>2, <2>3 DEF CallFits, Heeded, Reviewed
  <2>. QED
    BY <1>1, <1>3, <2>2, <2>4, GoesOn
<1>4. IsCall(c)
  BY KnownCall
<1>5. CASE ReadCatalog(c)
  <2>1. [c EXCEPT !.step = "found", !.catalog = up] = [c EXCEPT !.step = "found", !.catalog = up, !.found = c.found]
    BY <1>4 DEF IsCall
  <2>. QED
    BY <1>3, <1>5, <2>1 DEF ReadCatalog
<1>6. CASE CheckClaim(c) /\ ~Ends(c, 409, 0)
  <2>1. PICK r : Goes(c, [c EXCEPT !.step = "read", !.found = {r}])
    BY <1>6 DEF CheckClaim
  <2>2. PICK found : found = {r}
    OBVIOUS
  <2>3. [c EXCEPT !.step = "read", !.found = found] = [c EXCEPT !.step = "read", !.catalog = c.catalog, !.found = found]
    BY <1>4 DEF IsCall
  <2>. QED
    BY <1>3, <2>1, <2>2, <2>3
<1>. QED
  BY <1>2, <1>5, <1>6

LEMMA ServingStep ==
  ASSUME ServiceOK, Serving
  PROVE  ServiceOK' /\ Before(book.rows, book'.rows)
<1>1. ASSUME NEW c \in calls,
             \/ ReadCode(c) \/ PrepareReset(c) \/ ConfirmReset(c)
             \/ LookForMail(c) \/ AssignMail(c) \/ Changed(c)
             \/ \E m \in c.todo : Change(c, m)
             \/ FindMailbox(c) \/ VerifyCode(c) \/ FindRows(c) \/ ReadMails(c) \/ ConfirmMailbox(c) \/ AnswerPublic(c)
             \/ LookForMain(c) \/ LookForMains(c) \/ CheckEligibility(c)
             \/ ReadCatalog(c) \/ CheckClaim(c) \/ CopyCodes(c)
             \/ GiveUp(c) \/ FailRead(c)
      PROVE  ServiceOK' /\ Before(book.rows, book'.rows)
  <2>1. ServiceOK'
    BY <1>1, AnswersStep, PrepareResetStep, ConfirmResetStep, LookForMailStep, AssignMailStep, ChangeStep,
       FindMailboxStep, VerifyCodeStep, FindRowsStep, ReadMailsStep, ConfirmMailboxStep, LookForMainStep,
       LookForMainsStep, LookUpStep, GiveUpStep, FailReadStep
  <2>2. UNCHANGED book
    BY <1>1 DEF ReadCode, PrepareReset, ConfirmReset, LookForMail, AssignMail, Changed, Change, FindMailbox,
       VerifyCode, FindRows, ReadMails, ConfirmMailbox, AnswerPublic, LookForMain, LookForMains,
       CheckEligibility, ReadCatalog, CheckClaim, CopyCodes, GiveUp, FailRead
  <2>. QED
    BY <2>1, <2>2, BeforeSelf
<1>2. ASSUME NEW c \in calls, LookForAliases(c) \/ LookAgain(c) \/ SaveMain(c) \/ ImportMains(c) \/ Claim(c)
      PROVE  ServiceOK' /\ Before(book.rows, book'.rows)
  BY <1>2, LookForAliasesStep, LookAgainStep, SaveMainStep, ImportMainsStep, ClaimStep
<1>3. ASSUME (\E m \in late : Late(m)) \/ (\E x \in Addresses : Expire(x)) \/ Restart
      PROVE  ServiceOK' /\ Before(book.rows, book'.rows)
  <2>1. ServiceOK'
    BY <1>3, LateStep, ExpireStep, RestartStep
  <2>2. UNCHANGED book
    BY <1>3 DEF Late, Expire, Restart
  <2>. QED
    BY <2>1, <2>2, BeforeSelf
<1>4. ASSUME OtherConfirms
      PROVE  ServiceOK' /\ Before(book.rows, book'.rows)
  <2>1. PICK v \in reviews : v.op \in Reviewed /\ Confirm("other", v.op, v.token)
    BY <1>4 DEF OtherConfirms, ServiceOK, ReviewsOK
  <2>. QED
    BY <2>1, ConfirmStep, BeforeSelf
<1>5. OtherAsks => ServiceOK' /\ Before(book.rows, book'.rows)
  BY OtherAsksStep, BeforeSelf
<1>. QED
  BY <1>1, <1>2, <1>3, <1>4, <1>5, ColleagueSavesStep DEF Serving, Step

(***************************************************************************)
(* The page                                                                *)
(***************************************************************************)
LEMMA PageStays ==
  ASSUME WorldOK, WorldOK', Before(book.rows, book'.rows), NEW pg, PageOK(pg)
  PROVE  PageOK(pg)'
<1>1. Before(pg.rows, book'.rows)
  BY BeforeTwice DEF PageOK, Snapshot
<1>. QED
  BY <1>1 DEF PageOK, Snapshot

LEMMA FormStays ==
  ASSUME WorldOK, WorldOK', Before(book.rows, book'.rows), NEW d, FormOK(d)
  PROVE  FormOK(d)'
<1>1. d.kind = "register" => Registers(book'.rows, d.r, d.to, d.x)
  BY DEF FormOK, Registers, Before, IsMain
<1>2. d.kind = "saveMain" => Manages(book'.rows, d.r, d.x)
  BY DEF FormOK, Manages, Before, IsMain
<1>. QED
  BY <1>1, <1>2 DEF FormOK

LEMMA FormKept ==
  ASSUME NEW d, FormOK(d), NEW e, IsForm(e), e.kind = d.kind, e.r = d.r, e.to = d.to, e.x = d.x
  PROVE  FormOK(e)
  BY DEF FormOK

LEMMA FormGoesOn ==
  ASSUME NEW d, FormOK(d), NEW step
  PROVE  /\ FormOK([d EXCEPT !.step = step])
         /\ \A v : FormOK([d EXCEPT !.step = step, !.value = v])
         /\ \A n : FormOK([d EXCEPT !.step = step, !.n = n])
         /\ \A t : FormOK([d EXCEPT !.step = step, !.token = t])
<1>1. IsForm(d)
  BY DEF FormOK
<1>2. FormOK([d EXCEPT !.step = step])
  <2>1. PICK e : e = [d EXCEPT !.step = step]
    OBVIOUS
  <2>2. IsForm(e) /\ e.kind = d.kind /\ e.r = d.r /\ e.to = d.to /\ e.x = d.x
    BY <1>1, <2>1 DEF IsForm
  <2>. QED
    BY <2>1, <2>2, FormKept
<1>3. ASSUME NEW v PROVE FormOK([d EXCEPT !.step = step, !.value = v])
  <2>1. PICK e : e = [d EXCEPT !.step = step, !.value = v]
    OBVIOUS
  <2>2. IsForm(e) /\ e.kind = d.kind /\ e.r = d.r /\ e.to = d.to /\ e.x = d.x
    BY <1>1, <2>1 DEF IsForm
  <2>. QED
    BY <2>1, <2>2, FormKept
<1>4. ASSUME NEW n PROVE FormOK([d EXCEPT !.step = step, !.n = n])
  <2>1. PICK e : e = [d EXCEPT !.step = step, !.n = n]
    OBVIOUS
  <2>2. IsForm(e) /\ e.kind = d.kind /\ e.r = d.r /\ e.to = d.to /\ e.x = d.x
    BY <1>1, <2>1 DEF IsForm
  <2>. QED
    BY <2>1, <2>2, FormKept
<1>5. ASSUME NEW t PROVE FormOK([d EXCEPT !.step = step, !.token = t])
  <2>1. PICK e : e = [d EXCEPT !.step = step, !.token = t]
    OBVIOUS
  <2>2. IsForm(e) /\ e.kind = d.kind /\ e.r = d.r /\ e.to = d.to /\ e.x = d.x
    BY <1>1, <2>1 DEF IsForm
  <2>. QED
    BY <2>1, <2>2, FormKept
<1>. QED
  BY <1>2, <1>3, <1>4, <1>5

LEMMA NoForm ==
  /\ FormOK(Closed)
  /\ \A a : FormOK(Result(a))
<1>1. FormOK(Closed)
  BY DEF FormOK, IsForm, Closed
<1>2. ASSUME NEW a PROVE FormOK(Result(a))
  BY DEF FormOK, IsForm, Closed, Result
<1>. QED
  BY <1>1, <1>2

(* A step of the page that leaves the requests alone, but for an answer     *)
(* heard.                                                                   *)
LEMMA ServiceRests ==
  ASSUME ServiceOK, SomebodysWork, UNCHANGED <<calls, asked>>, replies' \subseteq replies
  PROVE  ServiceOK'
<1>1. WorldOK' /\ WorldMoves
  BY QuietMoves DEF SomebodysWork, Quiet, ServiceOK, WorldOK
<1>2. CallsOK'
  <2>1. \A c \in calls : CallFits(c) /\ Heeded(c)
    BY DEF ServiceOK, CallsOK
  <2>2. \A c \in calls : CallFits(c)'
    BY <1>1, <2>1, FitsStay DEF ServiceOK
  <2>3. \A c \in calls : Heeded(c)'
    BY <2>1 DEF Heeded, SomebodysWork
  <2>. QED
    BY <2>2, <2>3 DEF CallsOK, ServiceOK
<1>3. RepliesOK'
  <2>1. \A a \in replies : Snapshot(a.doc.rows)'
    BY <1>1, SnapshotStays DEF ServiceOK, RepliesOK
  <2>. QED
    BY <2>1 DEF RepliesOK, ServiceOK
<1>. QED
  BY <1>1, <1>2, <1>3 DEF ServiceOK, ReviewsOK, SomebodysWork

LEMMA LoadsKeep ==
  ASSUME ServiceOK, NEW pg, NEW kept, NEW some, NEW refresh, Loads(pg, kept, some, refresh),
         some \subseteq Nat, IsFiniteSet(some), SomebodysWork, replies' \subseteq replies
  PROVE  ServiceOK'
<1>. DEFINE want == {r \in some : Wanted(Entry(pg, kept, r), refresh)}
            upTo(r) == Cardinality({s \in want : s <= r})
            new == {[Call("me", "read", r, 0, {}, 0, NoSeen) EXCEPT !.n = asked + upTo(r)] : r \in want}
<1>1. calls' = calls \cup new /\ asked' = asked + Cardinality(want)
  BY DEF Loads
<1>2. want \subseteq some
  OBVIOUS
<1>3. asked \in Nat
  BY DEF ServiceOK, WorldOK
<1>. HIDE DEF want
<1>4. IsFiniteSet(want) /\ Cardinality(want) \in Nat /\ want \subseteq Nat
  BY <1>2, FS_Subset, FS_CardinalityType
<1>5. ASSUME NEW r \in want
      PROVE  upTo(r) \in Nat \ {0} /\ upTo(r) <= Cardinality(want)
  <2>. DEFINE T == {s \in want : s <= r}
  <2>1. T \subseteq want /\ r \in T
    BY <1>4
  <2>2. IsFiniteSet(T) /\ Cardinality(T) <= Cardinality(want)
    BY <1>4, <2>1, FS_Subset
  <2>3. Cardinality(T) \in Nat /\ Cardinality(T) # 0
    BY <2>1, <2>2, FS_CardinalityType, FS_EmptySet
  <2>. QED
    BY <2>2, <2>3
<1>6. Quiet
  BY <1>1, <1>3, <1>4 DEF Quiet, SomebodysWork
<1>7. ASSUME NEW c \in new
      PROVE  CallFits(c)' /\ c.n > asked /\ c.step = "asked" /\ c.op = "read" /\ c.token = 0
  <2>1. PICK r \in want : c = [Call("me", "read", r, 0, {}, 0, NoSeen) EXCEPT !.n = asked + upTo(r)]
    OBVIOUS
  <2>2. PICK k \in Nat \ {0} : k = upTo(r) /\ k <= Cardinality(want)
    BY <1>5
  <2>3. PICK n \in Nat \ {0} : n = asked + k /\ n > asked /\ n <= asked'
    <3>1. PICK m \in Nat : m = Cardinality(want)
      BY <1>4
    <3>2. k <= m /\ asked' = asked + m
      BY <1>1, <2>2, <3>1
    <3>3. asked + k \in Nat \ {0} /\ asked + k > asked /\ asked + k <= asked + m
      BY <1>3, <3>2
    <3>. QED
      BY <3>2, <3>3
  <2>4. PICK d : d = Call("me", "read", r, 0, {}, 0, NoSeen)
    OBVIOUS
  <2>5. Arrives(d) /\ d.token = 0 /\ d.op = "read"
    BY <1>3, <2>4, NewCall
  <2>6. c = [d EXCEPT !.n = n]
    BY <2>1, <2>2, <2>3, <2>4
  <2>7. /\ IsCall(c) /\ c.n = n /\ c.op = d.op /\ c.r = d.r /\ c.rows = d.rows /\ c.step = d.step
        /\ c.todo = d.todo /\ c.stale = d.stale /\ c.token = d.token
    BY <2>3, <2>5, <2>6 DEF Arrives, IsCall
  <2>8. Arrives(c)
    BY <2>3, <2>5, <2>7 DEF Arrives
  <2>9. CallFits(c)'
    BY <1>6, <2>3, <2>7, <2>8, ArrivalFits
  <2>. QED
    BY <2>3, <2>5, <2>7, <2>8, <2>9 DEF Arrives
<1>. HIDE DEF new
<1>8. CallsOK' /\ RepliesOK' /\ WorldOK'
  <2>1. \A c \in new : CallFits(c)' /\ c.n > asked /\ c.step = "asked"
    BY <1>7
  <2>2. \A c, d \in new : c.op = "codes" \/ c.token # 0 => c = d
    BY <1>7
  <2>3. \A c \in new : c.token # 0 => ~Pending(c.op, c.r)
    BY <1>7
  <2>. QED
    BY <1>1, <1>6, <2>1, <2>2, <2>3, CallsAdded
<1>. QED
  BY <1>8 DEF ServiceOK, ReviewsOK, SomebodysWork

(* The rows bound on a page, or one of them.                                *)
LEMMA PageRows ==
  ASSUME NEW pg, PageOK(pg), NEW some, some \subseteq pg.bound
  PROVE  some \subseteq Nat /\ IsFiniteSet(some) /\ some \subseteq DOMAIN pg.rows
<1>1. DOMAIN pg.rows = 1..Len(pg.rows) /\ Len(pg.rows) \in Nat
  BY RowTypes DEF PageOK, Snapshot
<1>2. some \subseteq DOMAIN pg.rows
  BY DEF PageOK
<1>3. some \subseteq Nat
  BY <1>1, <1>2
<1>4. IsFiniteSet(1..Len(pg.rows))
  <2>1. Len(pg.rows) \in Int /\ 1 \in Int
    BY <1>1
  <2>. QED
    BY <2>1, FS_Interval
<1>. QED
  BY <1>1, <1>2, <1>3, <1>4, FS_Subset

LEMMA TakingOK ==
  ASSUME WorldOK, PageOK(page), NEW doc, Snapshot(doc.rows)
  PROVE  PageOK(Taking(doc))
<1>. DEFINE newest == IF doc.version < page.version THEN page ELSE [page EXCEPT !.version = doc.version, !.rows = doc.rows]
<1>1. /\ newest \in [version : {newest.version}, rows : {newest.rows}, bound : {newest.bound}]
      /\ Snapshot(newest.rows)
  <2>1. CASE doc.version < page.version
    BY <2>1 DEF PageOK
  <2>2. CASE ~(doc.version < page.version)
    BY <2>2 DEF PageOK
  <2>. QED
    BY <2>1, <2>2
<1>2. Taking(doc) = [newest EXCEPT !.bound = BoundRows(book.rows) \cap DOMAIN newest.rows]
  BY DEF Taking
<1>. HIDE DEF newest
<1>3. PICK some : some = BoundRows(book.rows) \cap DOMAIN newest.rows
  OBVIOUS
<1>4. PICK pg : pg = [newest EXCEPT !.bound = some]
  OBVIOUS
<1>5. pg.rows = newest.rows /\ pg \in [version : {pg.version}, rows : {pg.rows}, bound : {some}]
  BY <1>1, <1>4
<1>6. some \subseteq DOMAIN pg.rows
  BY <1>3, <1>5
<1>7. PageOK(pg)
  BY <1>1, <1>5, <1>6 DEF PageOK
<1>. QED
  BY <1>2, <1>3, <1>4, <1>7

LEMMA RendersKeep ==
  ASSUME ServiceOK, NEW pg, PageOK(pg), NEW kept, Renders(pg, kept), SomebodysWork, replies' \subseteq replies
  PROVE  ServiceOK' /\ PageOK(page)'
<1>1. Loads(pg, kept, Aliases(pg.rows) \cap pg.bound, FALSE) /\ page' = pg
  BY DEF Renders
<1>2. Aliases(pg.rows) \cap pg.bound \subseteq Nat /\ IsFiniteSet(Aliases(pg.rows) \cap pg.bound)
  BY PageRows
<1>3. ServiceOK'
  BY <1>1, <1>2, LoadsKeep
<1>4. PageOK(pg)'
  BY <1>3, BeforeSelf, PageStays DEF ServiceOK, SomebodysWork
<1>. QED
  BY <1>1, <1>3, <1>4 DEF PageOK

LEMMA OneLoaded ==
  ASSUME ServiceOK, PageOK(page), NEW kept, NEW r \in page.bound, Loads(page, kept, {r}, TRUE),
         SomebodysWork, replies' \subseteq replies
  PROVE  ServiceOK'
<1>1. {r} \subseteq Nat /\ IsFiniteSet({r})
  BY PageRows
<1>. QED
  BY <1>1, LoadsKeep

LEMMA ListsKeep ==
  ASSUME ServiceOK, NEW refresh, Lists(refresh), SomebodysWork, replies' \subseteq replies
  PROVE  ServiceOK'
<1>1. PICK c : c = Call("me", "mails", 1, 0, {}, refresh, NoSeen)
  OBVIOUS
<1>2. asked \in Nat /\ calls' = calls \cup {c} /\ asked' = asked + 1
  BY <1>1 DEF ServiceOK, WorldOK, Lists
<1>3. Quiet
  BY <1>2 DEF Quiet, SomebodysWork
<1>4. Arrives(c) /\ c.n = asked + 1 /\ c.token = 0 /\ c.op = "mails"
  BY <1>1, <1>2, NewCall
<1>5. CallFits(c)' /\ c.n > asked /\ c.step = "asked"
  BY <1>2, <1>3, <1>4, ArrivalFits DEF Arrives
<1>6. CallsOK' /\ RepliesOK' /\ WorldOK'
  <2>1. PICK new : new = {c}
    OBVIOUS
  <2>2. \A d \in new : d = c
    BY <2>1
  <2>. QED
    BY <1>2, <1>3, <1>4, <1>5, <2>1, <2>2, CallsAdded
<1>. QED
  BY <1>6 DEF ServiceOK, ReviewsOK, SomebodysWork

LEMMA DeskStep ==
  ASSUME IInv, ServiceOK', Before(book.rows, book'.rows), page' = page \/ PageOK(page)',
         NEW d, FormOK(d), drawer' = d
  PROVE  IInv'
<1>1. FormOK(d)'
  BY FormStays DEF IInv, ServiceOK
<1>2. FormOK(drawer)'
  BY <1>1 DEF FormOK
<1>3. PageOK(page)'
  <2>1. PICK pg : pg = page
    OBVIOUS
  <2>2. PageOK(pg)'
    BY <2>1, PageStays DEF IInv, ServiceOK, DeskOK
  <2>3. page' = page => PageOK(page)'
    BY <2>1, <2>2 DEF PageOK
  <2>. QED
    BY <2>3
<1>. QED
  BY <1>2, <1>3 DEF IInv, DeskOK

(* A step of the page that asks for nothing.                                *)
LEMMA DeskRests ==
  ASSUME IInv, SomebodysWork, UNCHANGED <<calls, asked, page>>, replies' \subseteq replies,
         NEW d, FormOK(d), drawer' = d
  PROVE  IInv'
<1>1. ServiceOK'
  BY ServiceRests DEF IInv
<1>2. Before(book.rows, book'.rows)
  BY BeforeSelf DEF SomebodysWork
<1>. QED
  BY <1>1, <1>2, DeskStep

LEMMA OpenForm ==
  ASSUME IInv, NEW op, NEW d, Opens(op, d), FormOK(d)
  PROVE  IInv'
  BY DeskRests DEF Opens, SomebodysWork

LEMMA PlainForm ==
  ASSUME NEW kind, kind \notin {"public", "register", "saveMain"}, NEW r, kind = "assign" => r = 0
  PROVE  /\ FormOK(Form(kind, r)) /\ FormOK([Form(kind, r) EXCEPT !.step = "dialog"])
         /\ \A arg : FormOK([Form(kind, r) EXCEPT !.arg = arg])
         /\ \A to, arg : FormOK([Form(kind, r) EXCEPT !.to = to, !.arg = arg])
<1>1. ASSUME NEW e, IsForm(e), e.kind = kind, e.r = r PROVE FormOK(e)
  BY <1>1 DEF FormOK
<1>2. FormOK(Form(kind, r))
  <2>1. PICK e : e = Form(kind, r)
    OBVIOUS
  <2>2. e.kind = kind /\ e.r = r /\ IsForm(e)
    BY <2>1 DEF Form, Closed, IsForm
  <2>. QED
    BY <1>1, <2>1, <2>2
<1>3. FormOK([Form(kind, r) EXCEPT !.step = "dialog"])
  <2>1. PICK e : e = [Form(kind, r) EXCEPT !.step = "dialog"]
    OBVIOUS
  <2>2. e.kind = kind /\ e.r = r /\ IsForm(e)
    BY <2>1 DEF Form, Closed, IsForm
  <2>. QED
    BY <1>1, <2>1, <2>2
<1>4. ASSUME NEW arg PROVE FormOK([Form(kind, r) EXCEPT !.arg = arg])
  <2>1. PICK e : e = [Form(kind, r) EXCEPT !.arg = arg]
    OBVIOUS
  <2>2. e.kind = kind /\ e.r = r /\ IsForm(e)
    BY <2>1 DEF Form, Closed, IsForm
  <2>. QED
    BY <1>1, <2>1, <2>2
<1>5. ASSUME NEW to, NEW arg PROVE FormOK([Form(kind, r) EXCEPT !.to = to, !.arg = arg])
  <2>1. PICK e : e = [Form(kind, r) EXCEPT !.to = to, !.arg = arg]
    OBVIOUS
  <2>2. e.kind = kind /\ e.r = r /\ IsForm(e)
    BY <2>1 DEF Form, Closed, IsForm
  <2>. QED
    BY <1>1, <2>1, <2>2
<1>. QED
  BY <1>2, <1>3, <1>4, <1>5

LEMMA RegisterForm ==
  ASSUME NEW r, NEW to, NEW x, NEW seen, Registers(book.rows, r, to, x)
  PROVE  /\ FormOK([Form("register", r) EXCEPT !.to = to, !.x = x, !.seen = seen])
         /\ to = 0 => FormOK([Form("register", r) EXCEPT !.x = x, !.seen = seen])
<1>1. PICK e : e = [Form("register", r) EXCEPT !.to = to, !.x = x, !.seen = seen]
  OBVIOUS
<1>2. e.kind = "register" /\ e.r = r /\ e.to = to /\ e.x = x /\ IsForm(e)
  BY <1>1 DEF Form, Closed, IsForm
<1>3. FormOK(e)
  BY <1>2 DEF FormOK
<1>4. PICK f : f = [Form("register", r) EXCEPT !.x = x, !.seen = seen]
  OBVIOUS
<1>5. f.kind = "register" /\ f.r = r /\ f.to = 0 /\ f.x = x /\ IsForm(f)
  BY <1>4 DEF Form, Closed, IsForm
<1>6. to = 0 => FormOK(f)
  BY <1>5 DEF FormOK
<1>. QED
  BY <1>1, <1>3, <1>4, <1>6

LEMMA MainForm ==
  ASSUME NEW r, NEW x, NEW arg, NEW seen, Manages(book.rows, r, x)
  PROVE  /\ FormOK([Form("saveMain", r) EXCEPT !.x = x, !.arg = arg, !.seen = seen])
         /\ FormOK([Form("saveMain", r) EXCEPT !.x = x, !.arg = arg])
<1>1. PICK e : e = [Form("saveMain", r) EXCEPT !.x = x, !.arg = arg, !.seen = seen]
  OBVIOUS
<1>2. e.kind = "saveMain" /\ e.r = r /\ e.x = x /\ IsForm(e)
  BY <1>1 DEF Form, Closed, IsForm
<1>3. FormOK(e)
  BY <1>2 DEF FormOK
<1>4. PICK f : f = [Form("saveMain", r) EXCEPT !.x = x, !.arg = arg]
  OBVIOUS
<1>5. f.kind = "saveMain" /\ f.r = r /\ f.x = x /\ IsForm(f)
  BY <1>4 DEF Form, Closed, IsForm
<1>6. FormOK(f)
  BY <1>5 DEF FormOK
<1>. QED
  BY <1>1, <1>3, <1>4, <1>6

LEMMA OpeningStep ==
  ASSUME IInv, Opening
  PROVE  IInv'
<1>1. /\ RowsOK(page.rows) /\ Before(page.rows, book.rows) /\ page.bound \subseteq DOMAIN page.rows
  BY DEF IInv, DeskOK, PageOK, Snapshot
<1>2. 0 \notin DOMAIN page.rows
  BY <1>1, RowTypes
<1>3. CASE OpenReset
  <2>1. PICK r : Opens("reset", Form("reset", r))
    BY <1>3 DEF OpenReset
  <2>2. FormOK(Form("reset", r))
    BY PlainForm
  <2>. QED
    BY <2>1, <2>2, OpenForm
<1>4. CASE OpenAssign
  <2>1. PICK to, under : Opens("assign", [Form("assign", 0) EXCEPT !.to = to, !.arg = under])
    BY <1>4 DEF OpenAssign
  <2>2. FormOK([Form("assign", 0) EXCEPT !.to = to, !.arg = under])
    BY PlainForm
  <2>. QED
    BY <2>1, <2>2, OpenForm
<1>5. CASE OpenRegister
  <2>1. PICK r \in page.bound :
          /\ IsMain(page.rows, r)
          /\ \/ \E xs \in SUBSET Hidden :
                  Opens("register", [Form("register", r) EXCEPT !.x = xs, !.seen = VersionsSeen({r})])
             \/ \E to \in Aliases(page.rows) :
                  Opens("register", [Form("register", r) EXCEPT !.to = to, !.x = {page.rows[to].email},
                                                               !.seen = VersionsSeen({r, to})])
    BY <1>5 DEF OpenRegister
  <2>2. r \in DOMAIN book.rows /\ IsMain(book.rows, r)
    BY <1>1, <2>1 DEF Before, IsMain
  <2>3. ASSUME NEW xs \in SUBSET Hidden,
               Opens("register", [Form("register", r) EXCEPT !.x = xs, !.seen = VersionsSeen({r})])
        PROVE  IInv'
    <3>1. Registers(book.rows, r, 0, xs)
      BY <2>2 DEF Registers
    <3>. QED
      BY <2>3, <3>1, RegisterForm, OpenForm
  <2>4. ASSUME NEW to \in Aliases(page.rows),
               Opens("register", [Form("register", r) EXCEPT !.to = to, !.x = {page.rows[to].email},
                                                            !.seen = VersionsSeen({r, to})])
        PROVE  IInv'
    <3>1. to \in DOMAIN page.rows /\ ~IsMain(page.rows, to)
      BY DEF Aliases
    <3>2. Registers(book.rows, r, to, {page.rows[to].email})
      BY <1>1, <1>2, <2>2, <3>1 DEF Registers, Before, IsMain
    <3>. QED
      <4>1. PICK x : x = {page.rows[to].email}
        OBVIOUS
      <4>2. FormOK([Form("register", r) EXCEPT !.to = to, !.x = x, !.seen = VersionsSeen({r, to})])
        BY <3>2, <4>1, RegisterForm
      <4>. QED
        BY <2>4, <4>1, <4>2, OpenForm
  <2>. QED
    BY <2>1, <2>3, <2>4
<1>6. CASE OpenMain
  <2>1. ASSUME NEW x \in Mains, Opens("saveMain", [Form("saveMain", 0) EXCEPT !.x = {x}, !.arg = 1])
        PROVE  IInv'
    <3>1. Manages(book.rows, 0, {x})
      BY DEF Manages
    <3>. QED
      BY <2>1, <3>1, MainForm, OpenForm
  <2>2. ASSUME NEW r \in DOMAIN page.rows, IsMain(page.rows, r), NEW on,
               Opens("saveMain", [Form("saveMain", r) EXCEPT !.x = {page.rows[r].email}, !.arg = on,
                                                            !.seen = VersionsSeen({r})])
        PROVE  IInv'
    <3>1. page.rows[r].email \in Mains
      BY <1>1, <2>2 DEF RowsOK
    <3>2. Manages(book.rows, r, {page.rows[r].email})
      BY <1>1, <2>2, <3>1 DEF Manages, Before, IsMain
    <3>. QED
      <4>1. PICK x : x = {page.rows[r].email}
        OBVIOUS
      <4>2. FormOK([Form("saveMain", r) EXCEPT !.x = x, !.arg = on, !.seen = VersionsSeen({r})])
        BY <3>2, <4>1, MainForm
      <4>. QED
        BY <2>2, <4>1, <4>2, OpenForm
  <2>. QED
    BY <1>6, <2>1, <2>2 DEF OpenMain
<1>7. CASE OpenImport
  <2>1. FormOK([Form("import", 0) EXCEPT !.step = "dialog"])
    BY PlainForm
  <2>. QED
    BY <1>7, <2>1, OpenForm DEF OpenImport
<1>8. CASE OpenClaim \/ OpenCopy
  <2>1. \E r, arg : \/ Opens("claim", [Form("claim", r) EXCEPT !.arg = arg])
                     \/ Opens("codes", [Form("codes", r) EXCEPT !.arg = arg])
    BY <1>8 DEF OpenClaim, OpenCopy
  <2>2. \A r, arg : FormOK([Form("claim", r) EXCEPT !.arg = arg]) /\ FormOK([Form("codes", r) EXCEPT !.arg = arg])
    BY PlainForm
  <2>. QED
    BY <2>1, <2>2, OpenForm
<1>9. CASE OpenCode
  <2>1. PICK r : Opens("read", Form("code", r))
    BY <1>9 DEF OpenCode
  <2>2. FormOK(Form("code", r))
    BY PlainForm
  <2>. QED
    BY <2>1, <2>2, OpenForm
<1>. QED
  BY <1>3, <1>4, <1>5, <1>6, <1>7, <1>8, <1>9 DEF Opening

LEMMA SubmitStep ==
  ASSUME IInv, Submit
  PROVE  IInv'
<1>1. FormOK(drawer) /\ asked \in Nat
  BY DEF IInv, DeskOK, ServiceOK, WorldOK
<1>2. drawer.kind \in {"reset", "assign", "claim", "codes", "code"}
  BY DEF Submit, Asks
<1>3. PICK op : op = Asks[drawer.kind]
  OBVIOUS
<1>4. /\ op \in {"reset", "assign", "eligible", "codes", "read"}
      /\ op = "assign" => drawer.kind = "assign"
  BY <1>2, <1>3 DEF Asks
<1>5. op = "assign" => drawer.r = 0
  BY <1>1, <1>4 DEF FormOK
<1>6. Arrive(Call("me", op, drawer.r, drawer.to, {}, drawer.arg, NoSeen))
  BY <1>3 DEF Submit
<1>7. ServiceOK' /\ UNCHANGED book
  BY <1>1, <1>4, <1>5, <1>6, NewCall, ArriveStep DEF IInv
<1>8. FormOK([drawer EXCEPT !.step = "asking", !.n = asked + 1])
  BY <1>1, FormGoesOn
<1>9. drawer' = [drawer EXCEPT !.step = "asking", !.n = asked + 1] /\ page' = page
  BY DEF Submit
<1>. QED
  BY <1>7, <1>8, <1>9, BeforeSelf, DeskStep

LEMMA AgreeStep ==
  ASSUME IInv, Agree
  PROVE  IInv'
<1>1. FormOK(drawer) /\ asked \in Nat /\ page' = page
  BY DEF IInv, DeskOK, ServiceOK, WorldOK, Agree
<1>2. CASE ~StillCurrent
  <2>1. SomebodysWork /\ UNCHANGED <<calls, asked, page, replies>> /\ drawer' = [drawer EXCEPT !.step = "failed"]
    BY <1>2 DEF Agree, service, SomebodysWork
  <2>. QED
    BY <1>1, <2>1, FormGoesOn, DeskRests
<1>3. CASE StillCurrent
  <2>1. drawer' = [drawer EXCEPT !.step = "sent", !.n = asked + 1]
    BY <1>3 DEF Agree
  <2>2. FormOK([drawer EXCEPT !.step = "sent", !.n = asked + 1])
    BY <1>1, FormGoesOn
  <2>3. ServiceOK' /\ UNCHANGED book
    <3>1. CASE drawer.kind \in Reviewed
      <4>1. Confirm("me", drawer.kind, drawer.token)
        BY <1>3, <3>1 DEF Agree
      <4>. QED
        BY <3>1, <4>1, ConfirmStep DEF IInv
    <3>2. CASE drawer.kind \notin Reviewed
      <4>1. Arrive(Call("me", drawer.kind, drawer.r, drawer.to, drawer.x, drawer.arg, drawer.seen))
        BY <1>3, <3>2 DEF Agree
      <4>2. /\ drawer.kind # "public" /\ drawer.kind # "assign"
            /\ drawer.kind = "register" => Registers(book.rows, drawer.r, drawer.to, drawer.x)
            /\ drawer.kind = "saveMain" => Manages(book.rows, drawer.r, drawer.x)
        BY <1>1, <3>2 DEF FormOK, Reviewed
      <4>. QED
        BY <1>1, <4>1, <4>2, NewCall, ArriveStep DEF IInv
    <3>. QED
      BY <3>1, <3>2
  <2>. QED
    BY <1>1, <2>1, <2>2, <2>3, BeforeSelf, DeskStep
<1>. QED
  BY <1>2, <1>3

(* What a drawer becomes where nothing is opened.                           *)
LEMMA FormsReached ==
  ASSUME FormOK(drawer), NEW a, NEW e,
         \/ e = drawer \/ e = Closed \/ e = Result(a)
         \/ e = [drawer EXCEPT !.step = "shown", !.value = a.value]
         \/ e = [drawer EXCEPT !.step = "dialog", !.token = a.value]
         \/ \E step : e = [drawer EXCEPT !.step = step]
  PROVE  FormOK(e)
<1>1. \A step : FormOK([drawer EXCEPT !.step = step])
  BY FormGoesOn
<1>2. FormOK([drawer EXCEPT !.step = "shown", !.value = a.value])
  BY FormGoesOn
<1>3. FormOK([drawer EXCEPT !.step = "dialog", !.token = a.value])
  BY FormGoesOn
<1>4. FormOK(Closed) /\ FormOK(Result(a))
  BY NoForm
<1>. QED
  BY <1>1, <1>2, <1>3, <1>4, Zenon

(* Answers that change the drawer only, as far as the invariant goes.       *)
LEMMA HearingStep ==
  ASSUME IInv, NEW a \in replies,
         HearCode(a) \/ HearReview(a) \/ HearEligible(a) \/ HearCodes(a) \/ HearMails(a)
  PROVE  IInv'
<1>1. SomebodysWork /\ UNCHANGED <<calls, asked, page>> /\ replies' \subseteq replies
  BY DEF HearCode, HearReview, HearEligible, HearCodes, HearMails
<1>2. FormOK(drawer)
  BY DEF IInv, DeskOK
<1>3. \/ drawer' = drawer \/ drawer' = Closed
      \/ drawer' = [drawer EXCEPT !.step = "shown", !.value = a.value]
      \/ drawer' = [drawer EXCEPT !.step = "dialog", !.token = a.value]
      \/ drawer' = [drawer EXCEPT !.step = "dialog"]
      \/ drawer' = [drawer EXCEPT !.step = "failed"]
  BY DEF HearCode, HearReview, HearEligible, HearCodes, HearMails
<1>4. PICK d : d = drawer'
  OBVIOUS
<1>5. FormOK(d)
  BY <1>2, <1>3, <1>4, FormsReached
<1>. QED
  BY <1>1, <1>4, <1>5, DeskRests

LEMMA HearResetStep ==
  ASSUME IInv, NEW a \in replies, HearReset(a)
  PROVE  IInv'
<1>1. SomebodysWork /\ page' = page /\ replies' \subseteq replies
  BY DEF HearReset
<1>2. FormOK(drawer) /\ PageOK(page)
  BY DEF IInv, DeskOK
<1>3. drawer' \in {drawer, Result(a), [drawer EXCEPT !.step = "failed"]}
  BY DEF HearReset
<1>4. \/ UNCHANGED <<calls, asked>>
      \/ a.r \in page.bound /\ Loads(page, Forgotten(cache), {a.r}, TRUE)
  BY DEF HearReset
<1>5. ServiceOK'
  BY <1>1, <1>2, <1>4, ServiceRests, OneLoaded DEF IInv
<1>6. PICK d : d = drawer'
  OBVIOUS
<1>7. FormOK(d)
  BY <1>2, <1>3, <1>6, FormsReached
<1>8. Before(book.rows, book'.rows)
  BY <1>1, BeforeSelf DEF SomebodysWork
<1>. QED
  BY <1>1, <1>5, <1>6, <1>7, <1>8, DeskStep

LEMMA HearAssignedStep ==
  ASSUME IInv, NEW a \in replies, HearAssigned(a)
  PROVE  IInv'
<1>1. SomebodysWork /\ page' = page /\ replies' \subseteq replies
  BY DEF HearAssigned
<1>2. FormOK(drawer)
  BY DEF IInv, DeskOK
<1>3. drawer' \in {drawer, Closed, [drawer EXCEPT !.step = "failed"]}
  BY DEF HearAssigned
<1>4. Lists(0) \/ UNCHANGED <<calls, asked>>
  BY DEF HearAssigned
<1>5. ServiceOK'
  BY <1>1, <1>4, ServiceRests, ListsKeep DEF IInv
<1>6. PICK d : d = drawer'
  OBVIOUS
<1>7. FormOK(d)
  BY <1>2, <1>3, <1>6, FormsReached
<1>8. Before(book.rows, book'.rows)
  BY <1>1, BeforeSelf DEF SomebodysWork
<1>. QED
  BY <1>1, <1>5, <1>6, <1>7, <1>8, DeskStep

LEMMA HearSavedStep ==
  ASSUME IInv, NEW a \in replies, HearSaved(a)
  PROVE  IInv'
<1>1. SomebodysWork /\ replies' \subseteq replies
  BY DEF HearSaved
<1>2. FormOK(drawer) /\ PageOK(page) /\ WorldOK /\ ServiceOK
  BY DEF IInv, DeskOK, ServiceOK
<1>3. drawer' \in {drawer, Closed, [drawer EXCEPT !.step = "failed"]}
  BY DEF HearSaved
<1>4. \/ Renders(Taking(a.doc), AfterWrite(cache))
      \/ Renders(Taking(book), cache)
      \/ UNCHANGED <<page, calls, asked>>
  BY DEF HearSaved
<1>5. Snapshot(a.doc.rows) /\ Snapshot(book.rows)
  BY <1>2, OwnSnapshot DEF ServiceOK, RepliesOK
<1>6. ServiceOK' /\ (page' = page \/ PageOK(page)')
  <2>1. CASE Renders(Taking(a.doc), AfterWrite(cache))
    BY <1>1, <1>2, <1>5, <2>1, TakingOK, RendersKeep
  <2>2. CASE Renders(Taking(book), cache)
    BY <1>1, <1>2, <1>5, <2>2, TakingOK, RendersKeep
  <2>3. CASE UNCHANGED <<page, calls, asked>>
    BY <1>1, <1>2, <2>3, ServiceRests
  <2>. QED
    BY <1>4, <2>1, <2>2, <2>3
<1>7. PICK d : d = drawer'
  OBVIOUS
<1>8. FormOK(d)
  BY <1>2, <1>3, <1>7, FormsReached
<1>9. Before(book.rows, book'.rows)
  BY <1>1, BeforeSelf DEF SomebodysWork
<1>. QED
  BY <1>6, <1>7, <1>8, <1>9, DeskStep

(* Codes shown again or asked for again, and the rows taken up anew.        *)
LEMMA RenderingStep ==
  ASSUME IInv, Render \/ (\E r \in DOMAIN cells : RetryCode(r)) \/ OpenMails \/ TakeUp
  PROVE  IInv'
<1>1. SomebodysWork /\ UNCHANGED <<replies, drawer>>
  BY DEF Render, RetryCode, OpenMails, TakeUp
<1>2. FormOK(drawer) /\ PageOK(page) /\ WorldOK /\ ServiceOK
  BY DEF IInv, DeskOK, ServiceOK
<1>3. ServiceOK' /\ (page' = page \/ PageOK(page)')
  <2>1. CASE Render
    BY <1>1, <1>2, <2>1, RendersKeep DEF Render
  <2>2. CASE \E r \in DOMAIN cells : RetryCode(r)
    <3>1. PICK r \in page.bound : Loads(page, cache, {r}, TRUE) /\ page' = page
      BY <2>2 DEF RetryCode
    <3>. QED
      BY <1>1, <1>2, <3>1, OneLoaded
  <2>3. CASE OpenMails
    BY <1>1, <1>2, <2>3, ListsKeep DEF OpenMails
  <2>4. CASE TakeUp
    <3>1. Renders(Taking(book), cache)
      BY <2>4 DEF TakeUp
    <3>2. PageOK(Taking(book))
      BY <1>2, OwnSnapshot, TakingOK
    <3>. QED
      BY <1>1, <1>2, <3>1, <3>2, RendersKeep
  <2>. QED
    BY <2>1, <2>2, <2>3, <2>4
<1>4. Before(book.rows, book'.rows)
  BY <1>1, BeforeSelf DEF SomebodysWork
<1>5. PICK d : d = drawer
  OBVIOUS
<1>6. FormOK(d) /\ drawer' = d
  BY <1>1, <1>2, <1>5
<1>. QED
  BY <1>3, <1>4, <1>6, DeskStep

LEMMA DrawerStep ==
  ASSUME IInv, Close \/ Again \/ Review \/ Announce \/ UNCHANGED vars
  PROVE  IInv'
<1>1. SomebodysWork /\ UNCHANGED <<calls, asked, page, replies>>
  BY DEF Close, Again, Review, Announce, SomebodysWork, service, vars
<1>2. FormOK(drawer)
  BY DEF IInv, DeskOK
<1>3. \/ drawer' = drawer \/ drawer' = Closed
      \/ drawer' = [drawer EXCEPT !.step = "form"] \/ drawer' = [drawer EXCEPT !.step = "dialog"]
  BY DEF Close, Again, Review, Announce, vars
<1>4. PICK d : d = drawer'
  OBVIOUS
<1>5. FormOK(d)
  BY <1>2, <1>3, <1>4, FormsReached
<1>. QED
  BY <1>1, <1>4, <1>5, DeskRests

LEMMA InitInvariant == Init => IInv
<1>. SUFFICES ASSUME Init PROVE IInv
  OBVIOUS
<1>1. PICK o \in Openings :
        /\ up = o.up /\ book = o.book /\ codes = o.codes
        /\ page = [version |-> o.book.version, rows |-> o.book.rows, bound |-> BoundRows(o.book.rows)]
  BY DEF Init
<1>2. calls = {} /\ asked = 0 /\ replies = {} /\ reviews = {} /\ late = {} /\ drawer = Closed
  BY DEF Init
<1>3. WorldOK
  BY <1>1, <1>2, OpeningsAssumption DEF WorldOK
<1>4. ServiceOK
  BY <1>2, <1>3 DEF ServiceOK, CallsOK, RepliesOK, ReviewsOK
<1>5. PageOK(page)
  <2>1. Snapshot(page.rows)
    BY <1>1, <1>3, OwnSnapshot
  <2>2. page.bound \subseteq DOMAIN page.rows
    BY <1>1 DEF BoundRows
  <2>3. page \in [version : {page.version}, rows : {page.rows}, bound : {page.bound}]
    BY <1>1
  <2>. QED
    BY <2>1, <2>2, <2>3 DEF PageOK
<1>. QED
  BY <1>2, <1>4, <1>5, NoForm DEF IInv, DeskOK

LEMMA NextInvariant == IInv /\ [Next]_vars => IInv'
<1>. SUFFICES ASSUME IInv, [Next]_vars PROVE IInv'
  OBVIOUS
<1>1. CASE Serving /\ UNCHANGED <<Desk, heard, news>>
  <2>1. ServiceOK' /\ Before(book.rows, book'.rows)
    BY <1>1, ServingStep DEF IInv
  <2>2. page' = page /\ drawer' = drawer /\ FormOK(drawer)
    BY <1>1 DEF Desk, IInv, DeskOK
  <2>. QED
    BY <2>1, <2>2, DeskStep
<1>2. ASSUME Hearing PROVE IInv'
  BY <1>2, HearingStep, HearResetStep, HearAssignedStep, HearSavedStep DEF Hearing
<1>. QED
  BY <1>1, <1>2, RenderingStep, OpeningStep, DrawerStep, SubmitStep, AgreeStep DEF Next

(* Whatever the addresses, the rows and what is asked for: rows keep their  *)
(* addresses and main mailboxes, what is bound stays bound, requests and    *)
(* forms fit the rows, and a review is heeded until its change is made.     *)
THEOREM Invariance == Spec => []IInv
  BY InitInvariant, NextInvariant, PTL DEF Spec

(* A row bound carries the address it is bound to, which is there outside   *)
(* and belongs to the mailbox its main row is bound to; no two rows are of  *)
(* one address (addresses registered, main mailboxes saved and imported,    *)
(* rows edited, in any order).                                              *)
THEOREM RowsKeepTheirAddresses == Spec => []BindingsHold
<1>1. ASSUME IInv PROVE BindingsHold
  <2>1. RowsOK(book.rows) /\ BoundOutside(book.rows, up)
    BY <1>1 DEF IInv, ServiceOK, WorldOK
  <2>2. \A r \in DOMAIN book.rows : Bound(book.rows, r) => book.rows[r].bound = book.rows[r].email
    BY <2>1, RowTypes
  <2>. QED
    BY <2>1, <2>2 DEF BindingsHold, RowsOK, BoundOutside
<1>. QED
  BY <1>1, Invariance, PTL

(* Mails read for the public are given out only if the code sent with the   *)
(* request named the mailbox while they were read: a code taken back names  *)
(* nothing again, so the second look for it finds out.                      *)
THEOREM MailsGoToTheirCodes == Spec => []AnswersBelongToTheirCodes
<1>1. ASSUME IInv PROVE AnswersBelongToTheirCodes
  BY <1>1 DEF IInv, ServiceOK, CallsOK, CallFits, PublicFits, AnswersBelongToTheirCodes
<1>. QED
  BY <1>1, Invariance, PTL

(* A code is reset, and a mail assigned, from the state its review showed.  *)
THEOREM ReviewsHeeded == Spec => ReviewsAreHeeded
<1>1. IInv /\ [Next]_vars =>
        [\A c \in calls :
           c.op \in Reviewed /\ c.step = "sent" /\ ~c.stale /\ Effected(c) =>
             IF c.op = "reset" THEN up[c.rows[c.r].bound].code = c.seen.code ELSE mail = c.seen.mail]_vars
  BY DEF IInv, ServiceOK, CallsOK, Heeded
<1>. QED
  BY <1>1, Invariance, PTL DEF Spec, ReviewsAreHeeded

(* Who answers: the request a step of the service serves.                   *)
Says(d) == replies' = replies \/ \E status, value : Ends(d, status, value)

LEMMA OneAnswers ==
  ASSUME NEW d, Step(d)
  PROVE  Says(d)
<1>1. \A next : Goes(d, next) => Says(d)
  BY DEF Says, Goes
<1>2. \A status, value : Ends(d, status, value) => Says(d)
  BY DEF Says
<1>3. \A orders : Sends(d, orders) => Says(d)
  BY <1>1 DEF Sends
<1>4. \A seen : Enter(d, seen) => Says(d)
  BY <1>2 DEF Enter
<1>5. SaveAliases(d) => Says(d)
  BY <1>2 DEF SaveAliases
<1>6. ReadCode(d) \/ PrepareReset(d) \/ ConfirmReset(d) => Says(d)
  BY <1>2, <1>3, <1>4 DEF ReadCode, PrepareReset, ConfirmReset
<1>7. LookForMail(d) => Says(d)
  BY <1>1, <1>2 DEF LookForMail
<1>8. AssignMail(d) => Says(d)
  BY <1>2, <1>3, <1>4 DEF AssignMail
<1>9. Changed(d) \/ (\E m \in d.todo : Change(d, m)) => Says(d)
  BY <1>1, <1>2 DEF Changed, Change
<1>10. FindMailbox(d) \/ VerifyCode(d) \/ FindRows(d) => Says(d)
  BY <1>1, <1>2 DEF FindMailbox, VerifyCode, FindRows
<1>11. ReadMails(d) => Says(d)
  BY <1>1, <1>2 DEF ReadMails
<1>12. ConfirmMailbox(d) \/ AnswerPublic(d) \/ CheckEligibility(d) \/ CopyCodes(d) => Says(d)
  BY <1>1, <1>2 DEF ConfirmMailbox, AnswerPublic, CheckEligibility, CopyCodes
<1>13. LookForMain(d) \/ LookForMains(d) => Says(d)
  BY <1>1, <1>2 DEF LookForMain, LookForMains
<1>14. LookForAliases(d) \/ LookAgain(d) => Says(d)
  BY <1>2, <1>3, <1>5 DEF LookForAliases, LookAgain
<1>15. SaveMain(d) => Says(d)
  BY <1>2 DEF SaveMain
<1>16. ImportMains(d) => Says(d)
  BY <1>2 DEF ImportMains
<1>17. Claim(d) => Says(d)
  BY <1>2 DEF Claim
<1>18. ReadCatalog(d) \/ CheckClaim(d) => Says(d)
  BY <1>1, <1>2 DEF ReadCatalog, CheckClaim
<1>. QED
  BY <1>6, <1>7, <1>8, <1>9, <1>10, <1>11, <1>12, <1>13, <1>14, <1>15, <1>16, <1>17, <1>18 DEF Step

LEMMA AnsweredByOthers ==
  ASSUME ServiceOK, Serving, NEW a \in replies', a \notin replies, a.status = 200
  PROVE  \E d \in calls : Step(d) /\ \E status, value : Ends(d, status, value)
<1>1. ASSUME NEW d \in calls, Step(d)
      PROVE  \E status, value : Ends(d, status, value)
  BY <1>1, OneAnswers DEF Says
<1>2. ASSUME NEW c, NEW status, status # 200, NEW value
      PROVE  a \notin Answered(c, status, value)
  BY <1>2 DEF Answered
<1>3. ASSUME NEW d \in calls, GiveUp(d) \/ FailRead(d) PROVE FALSE
  BY <1>2, <1>3 DEF GiveUp, FailRead, Goes, Ends
<1>4. ASSUME NEW c, Arrive(c) PROVE FALSE
  BY <1>2, <1>4 DEF Arrive
<1>5. ASSUME NEW by, NEW op, NEW token, Confirm(by, op, token) PROVE FALSE
  BY <1>2, <1>5 DEF Confirm
<1>6. OtherAsks => FALSE
  BY <1>4, OtherRequests
<1>7. OtherConfirms => FALSE
  BY <1>5 DEF OtherConfirms
<1>8. (\E m \in late : Late(m)) \/ (\E x \in Addresses : Expire(x)) \/ ColleagueSaves => FALSE
  <2>1. (\E m \in late : Late(m)) \/ (\E x \in Addresses : Expire(x)) => replies' = replies
    BY DEF Late, Expire
  <2>2. ColleagueSaves => replies' = replies
    BY DEF ColleagueSaves
  <2>. QED
    BY <2>1, <2>2
<1>9. Restart => FALSE
  BY DEF Restart
<1>. QED
  BY <1>1, <1>3, <1>6, <1>7, <1>8, <1>9 DEF Serving

(* Of the page's steps none answers a request with 200.                     *)
LEMMA NotAnsweredByPage ==
  ASSUME Next, ~Serving, NEW a \in replies', a \notin replies
  PROVE  a.status # 200
<1>1. \/ Render \/ (\E r \in DOMAIN cells : RetryCode(r)) \/ OpenMails
      \/ Opening \/ Close \/ Submit \/ Again \/ Review \/ Agree
      \/ Hearing \/ Announce \/ TakeUp
  BY DEF Next
<1>2. \A c, value : a \in Answered(c, 409, value) => a.status = 409
  BY DEF Answered
<1>3. ASSUME NEW c, Arrive(c) PROVE a.status # 200
  BY <1>2, <1>3 DEF Arrive
<1>4. ASSUME NEW by, NEW op, NEW token, Confirm(by, op, token) PROVE a.status # 200
  BY <1>2, <1>4 DEF Confirm
<1>5. Submit \/ Agree => a.status # 200
  BY <1>3, <1>4 DEF Submit, Agree, service
<1>6. \A op, d : Opens(op, d) => FALSE
  BY DEF Opens
<1>7. Opening => FALSE
  <2>1. OpenReset \/ OpenAssign \/ OpenImport \/ OpenClaim \/ OpenCopy \/ OpenCode => FALSE
    BY <1>6 DEF OpenReset, OpenAssign, OpenImport, OpenClaim, OpenCopy, OpenCode
  <2>2. OpenRegister => FALSE
    BY <1>6 DEF OpenRegister
  <2>3. OpenMain => FALSE
    BY <1>6 DEF OpenMain
  <2>. QED
    BY <2>1, <2>2, <2>3 DEF Opening
<1>8. Hearing => FALSE
  <2>1. \A b \in replies : HearCode(b) \/ HearReview(b) \/ HearEligible(b) \/ HearCodes(b) \/ HearMails(b) => FALSE
    BY DEF HearCode, HearReview, HearEligible, HearCodes, HearMails
  <2>2. \A b \in replies : HearReset(b) => FALSE
    BY DEF HearReset
  <2>3. \A b \in replies : HearAssigned(b) \/ HearSaved(b) => FALSE
    BY DEF HearAssigned, HearSaved
  <2>. QED
    BY <2>1, <2>2, <2>3 DEF Hearing
<1>9. Render \/ (\E r \in DOMAIN cells : RetryCode(r)) \/ OpenMails \/ Close \/ Again \/ Review \/ Announce \/ TakeUp
        => FALSE
  BY DEF Render, RetryCode, OpenMails, Close, Again, Review, Announce, TakeUp, service
<1>. QED
  BY <1>1, <1>5, <1>7, <1>8, <1>9

(***************************************************************************)
(* Codes on the page                                                       *)
(***************************************************************************)
(* Codes only rise, and whatever the log newly knows it has counted.        *)
Rising == \A x \in Addresses : up[x].code <= up'[x].code
Logging == record' = record \/ record'.count > record.count

(* Requests being served are those that were, or new ones.                  *)
CallsStem == \A d \in calls' : d.n > asked \/ \E c \in calls : d.n = c.n /\ d.op = c.op /\ d.r = c.r

(* What a request was answered of a code.                                   *)
Gave(c, value) ==
  /\ c.op = "read" => Matched(c.rows, up, c.r) /\ value = up[c.rows[c.r].bound].code
  /\ c.op = "reset" /\ c.token # 0 => c.step = "done" /\ value = c.made

Answers(a, c) ==
  /\ a.n = c.n /\ a.op = c.op /\ a.r = c.r /\ a.token = c.token
  /\ a.status = 200 => Gave(c, a.value)

(* Answers are those that were, to new requests turned away, or to one that *)
(* was being served.                                                        *)
AnswersStem ==
  \A a \in replies' : a \in replies \/ (a.n > asked /\ a.status # 200) \/ \E c \in calls : Answers(a, c)

CallsMake == \A c \in calls : MakesOK(c)

Follows == CallsStem /\ AnswersStem /\ Rising /\ Logging /\ LogOK' /\ CallsMake'

LEMMA EndsStem ==
  ASSUME NEW c \in calls, NEW status, NEW value, Ends(c, status, value), status = 200 => Gave(c, value)
  PROVE  CallsStem /\ AnswersStem
<1>1. calls' = calls \ {c} /\ replies' = Answered(c, status, value)
  BY DEF Ends
<1>2. CallsStem
  BY <1>1 DEF CallsStem
<1>3. ASSUME NEW a \in replies', a \notin replies
      PROVE  Answers(a, c)
  <2>1. a = [n |-> c.n, op |-> c.op, r |-> c.r, token |-> c.token, status |-> status, value |-> value,
             doc |-> IF c.op \in Saving /\ status = 200 THEN book' ELSE NoBook]
    BY <1>1, <1>3 DEF Answered
  <2>2. /\ a.n = c.n /\ a.op = c.op /\ a.r = c.r /\ a.token = c.token
        /\ a.status = status /\ a.value = value
    BY <2>1
  <2>. QED
    BY <2>2 DEF Answers
<1>4. AnswersStem
  BY <1>3 DEF AnswersStem
<1>. QED
  BY <1>2, <1>4

LEMMA GoesStem ==
  ASSUME NEW c \in calls, NEW next, Goes(c, next), next.n = c.n, next.op = c.op, next.r = c.r
  PROVE  CallsStem /\ AnswersStem
<1>1. calls' = (calls \ {c}) \cup {next} /\ replies' = replies
  BY DEF Goes
<1>. QED
  BY <1>1 DEF CallsStem, AnswersStem

(* A request that comes, or is turned away.                                 *)
LEMMA RefusedStem ==
  ASSUME NEW c, c.n > asked, NEW status, status # 200, NEW value, replies' = Answered(c, status, value),
         calls' = calls
  PROVE  CallsStem /\ AnswersStem
<1>1. ASSUME NEW a \in replies', a \notin replies
      PROVE  a.n > asked /\ a.status # 200
  <2>1. a = [n |-> c.n, op |-> c.op, r |-> c.r, token |-> c.token, status |-> status, value |-> value,
             doc |-> IF c.op \in Saving /\ status = 200 THEN book' ELSE NoBook]
    BY <1>1 DEF Answered
  <2>2. a.n = c.n /\ a.status = status
    BY <2>1
  <2>. QED
    BY <2>2
<1>. QED
  BY <1>1 DEF CallsStem, AnswersStem

LEMMA AddedStem ==
  ASSUME NEW new, calls' = calls \cup new, \A c \in new : c.n > asked, replies' \subseteq replies
  PROVE  CallsStem /\ AnswersStem
  BY DEF CallsStem, AnswersStem

(* A code in a listing is a number.                                         *)
LEMMA ListedCode ==
  ASSUME NEW listing \in [Addresses -> Listing], NEW x \in Addresses
  PROVE  listing[x].code \in Nat
<1>1. listing[x] \in Listing
  OBVIOUS
<1>. QED
  BY <1>1 DEF Listing

(* Of what requests make, nothing is lost by a code that rises.             *)
LEMMA MakesStay ==
  ASSUME ServiceOK, WorldOK', Rising, NEW c \in calls, MakesOK(c)
  PROVE  MakesOK(c)'
<1>1. RowsOK(c.rows)
  BY KnownCall
<1>2. ASSUME c.r \in DOMAIN c.rows, Bound(c.rows, c.r)
      PROVE  c.rows[c.r].bound \in Addresses
  BY <1>1, <1>2, RowTypes
<1>3. ASSUME NEW x \in Addresses
      PROVE  up[x].code \in Nat /\ up'[x].code \in Nat /\ up[x].code <= up'[x].code
  BY DEF ServiceOK, WorldOK, Listing, Rising
<1>4. LookedUp(c) => LookedUp(c)'
  <2>1. ASSUME LookedUp(c), NEW x \in Addresses
        PROVE  c.before[x] <= up'[x].code /\ (c.step # "asked" => c.catalog[x].code <= up'[x].code)
    <3>1. c.before[x] \in Nat /\ c.before[x] <= up[x].code
      BY <2>1 DEF LookedUp
    <3>2. ASSUME c.step # "asked" PROVE c.catalog[x].code \in Nat /\ c.catalog[x].code <= up[x].code
      BY <2>1, <3>2, ListedCode DEF LookedUp
    <3>. QED
      BY <1>3, <3>1, <3>2
  <2>. QED
    BY <2>1 DEF LookedUp
<1>. QED
  BY <1>2, <1>3, <1>4 DEF MakesOK

(* The log is left alone.                                                   *)
LEMMA LogStays ==
  ASSUME LogOK, WorldOK, WorldOK', Rising, record' = record, heard' = heard
  PROVE  LogOK' /\ Logging
<1>1. ASSUME NEW x \in Addresses
      PROVE  record.code[x] <= up'[x].code
  <2>1. record.code[x] \in Nat /\ up[x].code \in Nat /\ up'[x].code \in Nat
    BY DEF LogOK, WorldOK, Listing
  <2>. QED
    BY <2>1 DEF LogOK, Rising
<1>. QED
  BY <1>1 DEF LogOK, Logging

LEMMA SameCodes ==
  ASSUME WorldOK, up' = up
  PROVE  Rising
<1>1. ASSUME NEW x \in Addresses PROVE up[x].code \in Nat
  BY DEF WorldOK, Listing
<1>. QED
  BY <1>1 DEF Rising

-----------------------------------------------------------------------------
(* Steps of the service that change neither a code nor the log.             *)
Fairly(c) == \E status, value : Ends(c, status, value) /\ (status = 200 => Gave(c, value))
Passes(c) == \E next : Goes(c, next) /\ next.n = c.n /\ next.op = c.op /\ next.r = c.r /\ MakesOK(next)

LEMMA QuietFollows ==
  ASSUME ServiceOK, CodesOK, ServiceOK', NEW c \in calls, Fairly(c) \/ Passes(c), UNCHANGED <<up, record, heard>>
  PROVE  Follows
<1>1. WorldOK /\ WorldOK' /\ LogOK /\ CallsMake
  BY DEF ServiceOK, CodesOK, CallsMake
<1>2. Rising
  BY <1>1, SameCodes
<1>3. LogOK' /\ Logging
  BY <1>1, <1>2, LogStays
<1>4. \A d \in calls : MakesOK(d)'
  BY <1>1, <1>2, MakesStay DEF CallsMake
<1>5. CASE Fairly(c)
  <2>1. PICK status, value : Ends(c, status, value) /\ (status = 200 => Gave(c, value))
    BY <1>5 DEF Fairly
  <2>2. CallsStem /\ AnswersStem
    BY <2>1, EndsStem
  <2>3. CallsMake'
    BY <1>4, <2>1 DEF CallsMake, Ends
  <2>. QED
    BY <1>2, <1>3, <2>2, <2>3 DEF Follows
<1>6. CASE Passes(c)
  <2>1. PICK next : Goes(c, next) /\ next.n = c.n /\ next.op = c.op /\ next.r = c.r /\ MakesOK(next)
    BY <1>6 DEF Passes
  <2>2. CallsStem /\ AnswersStem
    BY <2>1, GoesStem
  <2>3. MakesOK(next)'
    BY <2>1 DEF MakesOK, LookedUp
  <2>4. CallsMake'
    BY <1>4, <2>1, <2>3 DEF CallsMake, Goes
  <2>. QED
    BY <1>2, <1>3, <2>2, <2>4 DEF Follows
<1>. QED
  BY <1>5, <1>6

(* A request keeps its number, and what it is for.                          *)
Same(e, c) ==
  e.n = c.n /\ e.op = c.op /\ e.r = c.r /\ e.arg = c.arg /\ e.rows = c.rows /\ e.made = c.made /\ e.token = c.token

LEMMA OnItsWay ==
  ASSUME NEW c, IsCall(c), NEW step, NEW found, NEW todo
  PROVE  /\ Same([c EXCEPT !.step = step], c)
         /\ Same([c EXCEPT !.step = step, !.found = found], c)
         /\ Same([c EXCEPT !.todo = todo, !.step = step], c)
         /\ Same([c EXCEPT !.step = step, !.todo = todo], c)
         /\ [c EXCEPT !.step = step, !.todo = todo].todo = todo
         /\ [c EXCEPT !.step = step, !.todo = todo].step = step
<1>1. Same([c EXCEPT !.step = step], c)
  BY DEF IsCall, Same
<1>2. Same([c EXCEPT !.step = step, !.found = found], c)
  BY DEF IsCall, Same
<1>3. Same([c EXCEPT !.todo = todo, !.step = step], c)
  BY DEF IsCall, Same
<1>4. /\ Same([c EXCEPT !.step = step, !.todo = todo], c)
      /\ [c EXCEPT !.step = step, !.todo = todo].todo = todo
      /\ [c EXCEPT !.step = step, !.todo = todo].step = step
  BY DEF IsCall, Same
<1>. QED
  BY <1>1, <1>2, <1>3, <1>4

LEMMA PassesOn ==
  ASSUME NEW c, c.op \notin {"reset", "codes"}, NEW next, Goes(c, next), Same(next, c), MakesOK(c)
  PROVE  Passes(c)
<1>1. MakesOK(next)
  BY DEF MakesOK, Same
<1>. QED
  BY <1>1 DEF Passes, Same

LEMMA NotAnswered ==
  ASSUME NEW c, NEW status, NEW value, Ends(c, status, value),
         status # 200 \/ c.op \notin {"read", "reset"} \/ (c.op = "reset" /\ c.token = 0)
  PROVE  Fairly(c)
<1>1. status = 200 => Gave(c, value)
  BY DEF Gave
<1>. QED
  BY <1>1 DEF Fairly

(* Reads of codes, and resets.                                              *)
LEMMA CodeSteps ==
  ASSUME ServiceOK, CodesOK, NEW c \in calls, ReadCode(c) \/ PrepareReset(c) \/ ConfirmReset(c)
  PROVE  UNCHANGED <<up, record>> /\ (Fairly(c) \/ Passes(c))
<1>1. UNCHANGED <<up, record>>
  BY DEF ReadCode, PrepareReset, ConfirmReset, Unmoved
<1>2. ASSUME ReadCode(c)
      PROVE  Fairly(c)
  <2>1. c.op = "read"
    BY <1>2 DEF ReadCode, At
  <2>2. CASE Matched(c.rows, up, c.r)
    <3>1. Ends(c, 200, up[c.rows[c.r].bound].code)
      BY <1>2, <2>2 DEF ReadCode
    <3>2. Gave(c, up[c.rows[c.r].bound].code)
      BY <2>1, <2>2 DEF Gave
    <3>. QED
      BY <3>1, <3>2 DEF Fairly
  <2>3. CASE ~Matched(c.rows, up, c.r)
    <3>1. Ends(c, 409, 0)
      BY <1>2, <2>3 DEF ReadCode
    <3>. QED
      BY <3>1, NotAnswered
  <2>. QED
    BY <2>2, <2>3
<1>3. ASSUME PrepareReset(c)
      PROVE  Fairly(c)
  <2>1. c.op = "reset" /\ c.token = 0
    BY <1>3 DEF PrepareReset, At
  <2>2. Ends(c, 409, 0) \/ Ends(c, 200, c.n)
    BY <1>3 DEF PrepareReset, Enter
  <2>. QED
    BY <2>1, <2>2, NotAnswered
<1>4. ASSUME ConfirmReset(c)
      PROVE  Fairly(c) \/ Passes(c)
  <2>1. CASE Ends(c, 409, 0)
    BY <2>1, NotAnswered
  <2>2. CASE ~Ends(c, 409, 0)
    <3>. DEFINE m == [NoOrder EXCEPT !.op = "reset", !.x = c.rows[c.r].bound]
    <3>1. Sends(c, {m}) /\ c.op = "reset"
      BY <1>4, <2>2 DEF ConfirmReset, At
    <3>2. m.op = "reset"
      BY DEF NoOrder
    <3>. HIDE DEF m
    <3>3. PICK todo : todo = {m}
      OBVIOUS
    <3>4. PICK next : next = [c EXCEPT !.step = "sent", !.todo = todo]
      OBVIOUS
    <3>5. Goes(c, next) /\ IsCall(c)
      BY <3>1, <3>3, <3>4, KnownCall DEF Sends
    <3>6. Same(next, c) /\ next.todo = todo /\ next.step = "sent"
      BY <3>4, <3>5 DEF IsCall, Same
    <3>7. MakesOK(next)
      BY <3>1, <3>2, <3>3, <3>6 DEF MakesOK, Same
    <3>. QED
      BY <3>5, <3>6, <3>7 DEF Passes, Same
  <2>. QED
    BY <2>1, <2>2
<1>. QED
  BY <1>1, <1>2, <1>3, <1>4

(* The steps of other requests.                                             *)
LEMMA MailSteps ==
  ASSUME ServiceOK, CodesOK, NEW c \in calls, LookForMail(c) \/ AssignMail(c)
  PROVE  UNCHANGED <<up, record>> /\ (Fairly(c) \/ Passes(c))
<1>1. UNCHANGED <<up, record>> /\ c.op = "assign"
  BY DEF LookForMail, AssignMail, Unmoved, At
<1>2. IsCall(c) /\ MakesOK(c)
  BY KnownCall DEF CodesOK
<1>3. \A status, value : Ends(c, status, value) => Fairly(c)
  BY <1>1, NotAnswered
<1>4. ASSUME LookForMail(c)
      PROVE  Fairly(c) \/ Passes(c)
  <2>. DEFINE found == {s \in DOMAIN c.rows : MatchedAlias(c.rows, up, s)}
  <2>1. Goes(c, [c EXCEPT !.step = "found", !.found = found]) \/ Ends(c, 409, 0)
    BY <1>4 DEF LookForMail
  <2>2. PICK next : next = [c EXCEPT !.step = "found", !.found = found]
    OBVIOUS
  <2>3. Same(next, c)
    BY <1>2, <2>2, OnItsWay
  <2>. HIDE DEF found
  <2>. QED
    BY <1>1, <1>2, <1>3, <2>1, <2>2, <2>3, PassesOn
<1>5. ASSUME AssignMail(c)
      PROVE  Fairly(c) \/ Passes(c)
  <2>1. \/ \E status, value : Ends(c, status, value)
        \/ \E orders : Sends(c, orders)
    <3>. DEFINE now == MailSeen(c.rows, c.to, Source(c))
    <3>1. Ends(c, 409, 0) \/ Enter(c, now)
            \/ Sends(c, {[NoOrder EXCEPT !.op = "assign", !.x = c.rows[c.to].bound]})
      BY <1>5 DEF AssignMail
    <3>. QED
      BY <3>1 DEF Enter
  <2>2. ASSUME NEW orders, Sends(c, orders) PROVE Passes(c)
    <3>1. PICK next : next = [c EXCEPT !.step = "sent", !.todo = orders]
      OBVIOUS
    <3>2. Goes(c, next) /\ Same(next, c)
      BY <1>2, <2>2, <3>1, OnItsWay DEF Sends
    <3>. QED
      BY <1>1, <1>2, <3>2, PassesOn
  <2>. QED
    BY <1>3, <2>1, <2>2
<1>. QED
  BY <1>1, <1>4, <1>5

LEMMA MailboxSteps ==
  ASSUME ServiceOK, CodesOK, NEW c \in calls,
         FindMailbox(c) \/ VerifyCode(c) \/ FindRows(c) \/ ConfirmMailbox(c) \/ AnswerPublic(c)
  PROVE  UNCHANGED <<up, record>> /\ (Fairly(c) \/ Passes(c))
<1>1. UNCHANGED <<up, record>> /\ c.op \in {"public", "query", "mails"}
  BY DEF FindMailbox, VerifyCode, FindRows, ConfirmMailbox, AnswerPublic, Unmoved, At
<1>2. IsCall(c) /\ MakesOK(c)
  BY KnownCall DEF CodesOK
<1>3. \A status, value : Ends(c, status, value) => Fairly(c)
  BY <1>1, NotAnswered
<1>4. ASSUME NEW step, NEW found, Goes(c, [c EXCEPT !.step = step, !.found = found])
      PROVE  Passes(c)
  <2>1. PICK next : next = [c EXCEPT !.step = step, !.found = found]
    OBVIOUS
  <2>2. Same(next, c)
    BY <1>2, <2>1, OnItsWay
  <2>. QED
    BY <1>1, <1>2, <1>4, <2>1, <2>2, PassesOn
<1>5. ASSUME NEW step, Goes(c, [c EXCEPT !.step = step])
      PROVE  Passes(c)
  <2>1. PICK next : next = [c EXCEPT !.step = step]
    OBVIOUS
  <2>2. Same(next, c)
    BY <1>2, <2>1, OnItsWay
  <2>. QED
    BY <1>1, <1>2, <1>5, <2>1, <2>2, PassesOn
<1>6. FindMailbox(c) => Fairly(c) \/ Passes(c)
  <2>. DEFINE targets == FindTarget(c.rows, up, c.arg)
  <2>1. FindMailbox(c) => Ends(c, 404, 0) \/ Goes(c, [c EXCEPT !.step = "found", !.found = targets])
    BY DEF FindMailbox
  <2>. HIDE DEF targets
  <2>. QED
    BY <1>3, <1>4, <2>1
<1>7. VerifyCode(c) \/ ConfirmMailbox(c) \/ AnswerPublic(c) => Fairly(c) \/ Passes(c)
  BY <1>3, <1>5 DEF VerifyCode, ConfirmMailbox, AnswerPublic
<1>8. FindRows(c) => Fairly(c) \/ Passes(c)
  BY <1>3, <1>4 DEF FindRows
<1>. QED
  BY <1>1, <1>6, <1>7, <1>8

LEMMA RowSteps ==
  ASSUME ServiceOK, CodesOK, NEW c \in calls,
         \/ LookForMain(c) \/ LookForAliases(c) \/ LookAgain(c)
         \/ LookForMains(c) \/ SaveMain(c) \/ ImportMains(c)
         \/ CheckEligibility(c) \/ Claim(c)
  PROVE  UNCHANGED <<up, record>> /\ (Fairly(c) \/ Passes(c))
<1>1. UNCHANGED <<up, record>> /\ c.op \notin {"read", "reset", "mails", "codes"}
  BY DEF LookForMain, LookForAliases, LookAgain, LookForMains, SaveMain, ImportMains, CheckEligibility, Claim,
     Unmoved, At
<1>2. IsCall(c) /\ MakesOK(c)
  BY KnownCall DEF CodesOK
<1>3. \A status, value : Ends(c, status, value) => Fairly(c)
  BY <1>1, NotAnswered
<1>4. ASSUME NEW next, Goes(c, next), Same(next, c) PROVE Passes(c)
  BY <1>1, <1>2, <1>4, PassesOn
<1>5. ASSUME NEW orders, Sends(c, orders) PROVE Passes(c)
  <2>1. PICK next : next = [c EXCEPT !.step = "sent", !.todo = orders]
    OBVIOUS
  <2>2. Goes(c, next) /\ Same(next, c)
    BY <1>2, <1>5, <2>1, OnItsWay DEF Sends
  <2>. QED
    BY <1>4, <2>2
<1>6. SaveAliases(c) => Fairly(c)
  BY <1>3 DEF SaveAliases
<1>7. LookForMain(c) => Fairly(c) \/ Passes(c)
  <2>1. Same([c EXCEPT !.step = "found"], c)
    BY <1>2, OnItsWay
  <2>. QED
    BY <1>3, <1>4, <2>1 DEF LookForMain
<1>8. LookForAliases(c) \/ LookAgain(c) => Fairly(c) \/ Passes(c)
  BY <1>3, <1>5, <1>6 DEF LookForAliases, LookAgain
<1>9. ASSUME LookForMains(c) PROVE Fairly(c) \/ Passes(c)
  <2>1. PICK x \in c.x :
          IF ~MayManage(c, x) THEN Ends(c, 409, 0)
          ELSE Goes(c, [c EXCEPT !.todo = MainOrders(c, x),
                                 !.step = IF MainOrders(c, x) = {} THEN "done" ELSE "sent"])
    BY <1>9 DEF LookForMains
  <2>2. PICK todo : todo = MainOrders(c, x)
    OBVIOUS
  <2>3. PICK step : step = IF todo = {} THEN "done" ELSE "sent"
    OBVIOUS
  <2>4. Ends(c, 409, 0) \/ Goes(c, [c EXCEPT !.todo = todo, !.step = step])
    BY <2>1, <2>2, <2>3
  <2>5. Same([c EXCEPT !.todo = todo, !.step = step], c)
    BY <1>2, OnItsWay
  <2>. QED
    BY <1>3, <1>4, <2>4, <2>5
<1>10. SaveMain(c) => Fairly(c)
  BY <1>3 DEF SaveMain
<1>11. ImportMains(c) => Fairly(c)
  BY <1>3 DEF ImportMains
<1>12. CheckEligibility(c) \/ Claim(c) => Fairly(c)
  BY <1>3 DEF CheckEligibility, Claim
<1>. QED
  BY <1>1, <1>7, <1>8, <1>9, <1>10, <1>11, <1>12

(* A catalog is of what is outside when it is read.                         *)
LEMMA ClaimSteps ==
  ASSUME ServiceOK, CodesOK, NEW c \in calls, ReadCatalog(c) \/ CheckClaim(c) \/ CopyCodes(c)
  PROVE  UNCHANGED <<up, record>> /\ (Fairly(c) \/ Passes(c))
<1>1. UNCHANGED <<up, record>> /\ c.op = "codes"
  BY DEF ReadCatalog, CheckClaim, CopyCodes, Unmoved, At
<1>2. IsCall(c) /\ LookedUp(c) /\ up \in [Addresses -> Listing]
  BY <1>1, KnownCall DEF CodesOK, MakesOK, ServiceOK, WorldOK
<1>3. \A status, value : Ends(c, status, value) => Fairly(c)
  BY <1>1, NotAnswered
<1>4. ASSUME ReadCatalog(c) PROVE Passes(c)
  <2>1. PICK next : next = [c EXCEPT !.step = "found", !.catalog = up]
    OBVIOUS
  <2>2. next.n = c.n /\ next.op = c.op /\ next.r = c.r /\ next.before = c.before /\ next.catalog = up
    BY <1>2, <2>1 DEF IsCall
  <2>3. \A x \in Addresses : up[x].code \in Nat /\ up[x].code <= up[x].code
    BY <1>2, ListedCode
  <2>4. LookedUp(next)
    BY <1>2, <2>2, <2>3 DEF LookedUp
  <2>5. MakesOK(next)
    BY <1>1, <2>2, <2>4 DEF MakesOK
  <2>. QED
    BY <1>4, <2>1, <2>2, <2>5 DEF ReadCatalog, Passes
<1>5. ASSUME CheckClaim(c) PROVE Fairly(c) \/ Passes(c)
  <2>1. c.step = "found" /\ (Ends(c, 409, 0) \/ \E r : Goes(c, [c EXCEPT !.step = "read", !.found = {r}]))
    BY <1>5 DEF CheckClaim, At
  <2>2. ASSUME NEW r, Goes(c, [c EXCEPT !.step = "read", !.found = {r}]) PROVE Passes(c)
    <3>1. PICK found : found = {r}
      OBVIOUS
    <3>2. PICK next : next = [c EXCEPT !.step = "read", !.found = found]
      OBVIOUS
    <3>3. /\ next.n = c.n /\ next.op = c.op /\ next.r = c.r
          /\ next.before = c.before /\ next.catalog = c.catalog /\ next.step # "asked"
      BY <1>2, <3>2 DEF IsCall
    <3>4. LookedUp(next)
      BY <1>2, <2>1, <3>3 DEF LookedUp
    <3>5. MakesOK(next)
      BY <1>1, <3>3, <3>4 DEF MakesOK
    <3>. QED
      BY <2>2, <3>1, <3>2, <3>3, <3>5 DEF Passes
  <2>. QED
    BY <1>3, <2>1, <2>2
<1>6. CopyCodes(c) => Fairly(c)
  BY <1>3 DEF CopyCodes
<1>. QED
  BY <1>1, <1>4, <1>5, <1>6

LEMMA FailingSteps ==
  ASSUME ServiceOK, CodesOK, NEW c \in calls, GiveUp(c) \/ FailRead(c)
  PROVE  UNCHANGED <<up, record>> /\ (Fairly(c) \/ Passes(c))
<1>1. UNCHANGED <<up, record>>
  BY DEF GiveUp, FailRead
<1>2. IsCall(c) /\ MakesOK(c)
  BY KnownCall DEF CodesOK
<1>3. Ends(c, 502, 0) => Fairly(c)
  BY NotAnswered
<1>4. CASE c.op = "register" /\ GiveUp(c)
  <2>1. PICK next : next = [c EXCEPT !.step = "done", !.todo = {}]
    OBVIOUS
  <2>2. Goes(c, next) /\ Same(next, c)
    BY <1>2, <1>4, <2>1, OnItsWay DEF GiveUp
  <2>. QED
    BY <1>1, <1>2, <1>4, <2>2, PassesOn
<1>. QED
  BY <1>1, <1>3, <1>4 DEF GiveUp, FailRead

-----------------------------------------------------------------------------
(* Steps that change a code or the log.                                     *)

(* What an order outside does to codes.                                     *)
LEMMA TakesCodes ==
  ASSUME WorldOK, NEW m \in Order, Takes(m)
  PROVE  Rising /\ (m.op = "reset" => up'[m.x].code = codes')
<1>1. m.x \in Addresses
  BY DEF Order
<1>2. up \in [Addresses -> Listing] /\ codes \in Nat /\ \A x \in Addresses : up[x].code \in Nat /\ up[x].code <= codes
  BY DEF WorldOK, Listing
<1>3. PICK item \in Listing : up' = [up EXCEPT ![m.x] = item] /\ Becomes(m, item)
  BY TakesItem
<1>4. item.code \in Nat /\ (item.code = up[m.x].code \/ item.code = codes + 1)
  BY <1>3 DEF Becomes, Listing
<1>5. up[m.x].code <= item.code
  BY <1>1, <1>2, <1>4
<1>6. Rising
  BY <1>1, <1>2, <1>3, <1>5 DEF Rising
<1>7. ASSUME m.op = "reset"
      PROVE  up'[m.x].code = codes'
  <2>1. up' = [up EXCEPT ![m.x] = Recoded(up[m.x])] /\ codes' = codes + 1
    BY <1>7 DEF Takes, Took
  <2>2. Recoded(up[m.x]).code = codes + 1
    <3>1. PICK new : new = codes + 1
      OBVIOUS
    <3>2. up[m.x] \in Listing
      BY <1>1, <1>2
    <3>3. Recoded(up[m.x]) = [up[m.x] EXCEPT !.code = new, !.live = TRUE]
      BY <3>1 DEF Recoded
    <3>. QED
      BY <3>1, <3>2, <3>3 DEF Listing
  <2>. QED
    BY <1>1, <1>2, <2>1, <2>2
<1>. QED
  BY <1>6, <1>7

LEMMA ChangeFollows ==
  ASSUME ServiceOK, CodesOK, ServiceOK', heard' = heard, NEW c \in calls, NEW m \in c.todo, Change(c, m)
  PROVE  Follows
<1>1. /\ c.step = "sent" /\ Takes(m) /\ record' = record
      /\ Goes(c, [c EXCEPT !.todo = @ \ {m}, !.made = codes',
                           !.step = IF c.todo = {m} THEN "done" ELSE "sent"])
  BY DEF Change
<1>2. IsCall(c) /\ OrdersFit(c) /\ RowsOK(c.rows) /\ m \in Order /\ MakesOK(c)
  BY KnownCall DEF IsCall, CodesOK
<1>3. WorldOK /\ WorldOK' /\ LogOK /\ CallsMake
  BY DEF ServiceOK, CodesOK, CallsMake
<1>4. Rising /\ (m.op = "reset" => up'[m.x].code = codes')
  BY <1>1, <1>2, <1>3, TakesCodes
<1>5. LogOK' /\ Logging
  BY <1>1, <1>3, <1>4, LogStays
<1>6. PICK made : made = codes'
  OBVIOUS
<1>7. PICK step : step = IF c.todo = {m} THEN "done" ELSE "sent"
  OBVIOUS
<1>8. PICK next : next = [c EXCEPT !.todo = c.todo \ {m}, !.made = made, !.step = step]
  OBVIOUS
<1>9. Goes(c, next)
  BY <1>1, <1>6, <1>7, <1>8
<1>10. /\ next.step = step /\ next.todo = c.todo \ {m} /\ next.made = made
       /\ next.n = c.n /\ next.op = c.op /\ next.r = c.r /\ next.rows = c.rows /\ next.arg = c.arg
  BY <1>2, <1>8 DEF IsCall
<1>11. MakesOK(next)'
  <2>1. ASSUME c.op = "reset"
        PROVE  c.r \in DOMAIN c.rows /\ Bound(c.rows, c.r) /\ made \in Nat /\ made <= up'[c.rows[c.r].bound].code
    <3>1. c.r \in DOMAIN c.rows /\ Bound(c.rows, c.r)
      BY <1>1, <1>2, <2>1 DEF OrdersFit
    <3>2. m.op = "reset" /\ m.x = c.rows[c.r].bound
      BY <1>2, <2>1 DEF OrdersFit, MakesOK
    <3>3. made \in Nat
      BY <1>3, <1>6 DEF WorldOK
    <3>. QED
      BY <1>4, <1>6, <3>1, <3>2, <3>3
  <2>2. c.op # "codes"
    BY <1>1, <1>2 DEF OrdersFit, Reviewed, Managing
  <2>. QED
    BY <1>2, <1>10, <2>1, <2>2 DEF MakesOK
<1>12. \A d \in calls : MakesOK(d)'
  BY <1>3, <1>4, MakesStay DEF CallsMake
<1>13. CallsMake'
  BY <1>9, <1>11, <1>12 DEF CallsMake, Goes
<1>14. CallsStem /\ AnswersStem
  BY <1>9, <1>10, GoesStem
<1>. QED
  BY <1>4, <1>5, <1>13, <1>14 DEF Follows

(* A change is counted, and what a reset made becomes the code logged.      *)
LEMMA ChangedFollows ==
  ASSUME ServiceOK, CodesOK, ServiceOK', heard' = heard, NEW c \in calls, Changed(c)
  PROVE  Follows
<1>1. c.step = "done" /\ c.op \in Reviewed /\ Ends(c, 200, c.made) /\ up' = up
  BY DEF Changed, At, Unmoved
<1>2. WorldOK /\ WorldOK' /\ LogOK /\ CallsMake /\ MakesOK(c) /\ RowsOK(c.rows)
  BY KnownCall DEF ServiceOK, CodesOK, CallsMake
<1>3. Rising
  BY <1>1, <1>2, SameCodes
<1>4. /\ record \in [count : Nat, code : [Addresses -> Nat]] /\ record.count \in Nat
      /\ record.code \in [Addresses -> Nat]
      /\ heard.record \in Nat /\ heard.record <= record.count
      /\ \A x \in Addresses : record.code[x] <= up[x].code
  BY <1>2 DEF LogOK
<1>5. LogOK' /\ Logging
  <2>1. CASE c.op = "reset"
    <3>. DEFINE x == c.rows[c.r].bound
    <3>1. x \in Addresses /\ c.made \in Nat /\ c.made <= up[x].code
      BY <1>1, <1>2, <2>1, RowTypes DEF MakesOK
    <3>2. record' = [count |-> record.count + 1, code |-> [record.code EXCEPT ![x] = c.made]]
      BY <2>1 DEF Changed
    <3>. HIDE DEF x
    <3>3. [record.code EXCEPT ![x] = c.made] \in [Addresses -> Nat]
      BY <1>4, <3>1
    <3>4. record'.count = record.count + 1 /\ record'.code = [record.code EXCEPT ![x] = c.made]
          /\ record' \in [count : Nat, code : [Addresses -> Nat]]
      BY <1>4, <3>2, <3>3
    <3>5. \A y \in Addresses : record'.code[y] <= up'[y].code
      BY <1>1, <1>4, <3>1, <3>4
    <3>. QED
      BY <1>4, <3>4, <3>5 DEF LogOK, Logging
  <2>2. CASE c.op # "reset"
    <3>1. PICK n : n = record.count + 1
      OBVIOUS
    <3>2. record' = [record EXCEPT !.count = n]
      BY <2>2, <3>1 DEF Changed
    <3>3. record'.count = n /\ record'.code = record.code /\ record' \in [count : Nat, code : [Addresses -> Nat]]
      BY <1>4, <3>1, <3>2
    <3>. QED
      BY <1>1, <1>4, <3>1, <3>3 DEF LogOK, Logging
  <2>. QED
    BY <2>1, <2>2
<1>6. CallsMake'
  <2>1. \A d \in calls : MakesOK(d)'
    BY <1>2, <1>3, MakesStay DEF CallsMake
  <2>. QED
    BY <1>1, <2>1 DEF CallsMake, Ends
<1>7. Gave(c, c.made)
  BY <1>1 DEF Gave, Reviewed
<1>8. CallsStem /\ AnswersStem
  BY <1>1, <1>7, EndsStem
<1>. QED
  BY <1>3, <1>5, <1>6, <1>8 DEF Follows

(* Mails are read; a list asked for anew is counted.                        *)
LEMMA ReadMailsFollows ==
  ASSUME ServiceOK, CodesOK, ServiceOK', heard' = heard, NEW c \in calls, ReadMails(c)
  PROVE  Follows
<1>1. up' = up /\ c.op \in {"public", "query", "mails"}
  BY DEF ReadMails, At, Unmoved
<1>2. WorldOK /\ WorldOK' /\ LogOK /\ CallsMake /\ MakesOK(c) /\ IsCall(c)
  BY KnownCall DEF ServiceOK, CodesOK, CallsMake
<1>3. PICK r \in c.found :
        \/ Ends(c, 409, 0) /\ UNCHANGED record
        \/ /\ c.op = "public" /\ UNCHANGED record
           /\ Goes(c, [c EXCEPT !.step = "read", !.rows = book.rows,
                                !.seen = [NoSeen EXCEPT !.identity = Identity(c.rows, r)],
                                !.stale = ~Names(up, Target(c), c.arg)])
        \/ /\ Ends(c, 200, ShownUnder(c, MainOf(c.rows, r)))
           /\ record' = IF c.op = "mails" THEN [record EXCEPT !.count = @ + c.arg] ELSE record
  BY DEF ReadMails
<1>4. CASE Ends(c, 409, 0) /\ UNCHANGED record
  <2>1. Fairly(c)
    BY <1>4, NotAnswered
  <2>. QED
    BY <1>1, <1>4, <2>1, QuietFollows
<1>5. CASE /\ c.op = "public" /\ UNCHANGED record
           /\ Goes(c, [c EXCEPT !.step = "read", !.rows = book.rows,
                                !.seen = [NoSeen EXCEPT !.identity = Identity(c.rows, r)],
                                !.stale = ~Names(up, Target(c), c.arg)])
  <2>1. PICK seen : seen = [NoSeen EXCEPT !.identity = Identity(c.rows, r)]
    OBVIOUS
  <2>2. PICK stale : stale = ~Names(up, Target(c), c.arg)
    OBVIOUS
  <2>3. PICK next : next = [c EXCEPT !.step = "read", !.rows = book.rows, !.seen = seen, !.stale = stale]
    OBVIOUS
  <2>4. Goes(c, next)
    BY <1>5, <2>1, <2>2, <2>3
  <2>5. next.n = c.n /\ next.op = c.op /\ next.r = c.r
    BY <1>2, <2>3 DEF IsCall
  <2>6. MakesOK(next)
    BY <1>5, <2>5 DEF MakesOK
  <2>7. Passes(c)
    BY <2>4, <2>5, <2>6 DEF Passes
  <2>. QED
    BY <1>1, <1>5, <2>7, QuietFollows
<1>6. CASE /\ Ends(c, 200, ShownUnder(c, MainOf(c.rows, r)))
           /\ record' = IF c.op = "mails" THEN [record EXCEPT !.count = @ + c.arg] ELSE record
  <2>1. CASE record' = record
    <3>1. Fairly(c)
      BY <1>1, <1>6, NotAnswered
    <3>. QED
      BY <1>1, <2>1, <3>1, QuietFollows
  <2>2. CASE record' # record
    <3>1. /\ record \in [count : Nat, code : [Addresses -> Nat]] /\ record.count \in Nat
          /\ heard.record \in Nat /\ heard.record <= record.count
          /\ \A x \in Addresses : record.code[x] <= up[x].code
      BY <1>2 DEF LogOK
    <3>2. PICK n : n = record.count + c.arg
      OBVIOUS
    <3>3. c.op = "mails" /\ record' = [record EXCEPT !.count = n]
      BY <1>6, <2>2, <3>2
    <3>4. c.arg \in Nat
      BY <1>2, <3>3 DEF MakesOK
    <3>5. record'.count = n /\ record'.code = record.code /\ record' \in [count : Nat, code : [Addresses -> Nat]]
      BY <3>1, <3>2, <3>3, <3>4
    <3>6. n # record.count
      BY <2>2, <3>1, <3>3
    <3>7. record'.count > record.count /\ LogOK'
      BY <1>1, <3>1, <3>2, <3>4, <3>5, <3>6 DEF LogOK
    <3>8. Rising
      BY <1>1, <1>2, SameCodes
    <3>9. CallsMake'
      <4>1. \A d \in calls : MakesOK(d)'
        BY <1>2, <3>8, MakesStay DEF CallsMake
      <4>. QED
        BY <1>6, <4>1 DEF CallsMake, Ends
    <3>10. Gave(c, ShownUnder(c, MainOf(c.rows, r)))
      BY <3>3 DEF Gave
    <3>11. CallsStem /\ AnswersStem
      BY <1>6, <3>10, EndsStem
    <3>. QED
      BY <3>7, <3>8, <3>9, <3>11 DEF Follows, Logging
  <2>. QED
    BY <2>1, <2>2
<1>. QED
  BY <1>3, <1>4, <1>5, <1>6

(* A change that comes late.                                                *)
LEMMA LateFollows ==
  ASSUME ServiceOK, CodesOK, ServiceOK', heard' = heard, NEW m \in late, Late(m)
  PROVE  Follows
<1>1. Takes(m) /\ calls' = Overtaken(m) /\ replies' = replies /\ record' = record
  BY DEF Late
<1>2. WorldOK /\ WorldOK' /\ LogOK /\ CallsMake /\ m \in Order
  BY DEF ServiceOK, WorldOK, CodesOK, CallsMake
<1>3. Rising
  BY <1>1, <1>2, TakesCodes
<1>4. LogOK' /\ Logging
  BY <1>1, <1>2, <1>3, LogStays
<1>5. ASSUME NEW d \in calls'
      PROVE  MakesOK(d)' /\ \E c \in calls : d.n = c.n /\ d.op = c.op /\ d.r = c.r
  <2>1. PICK c \in calls : d = IF Overtakes(m, c) THEN [c EXCEPT !.stale = TRUE] ELSE c
    BY <1>1 DEF Overtaken
  <2>2. MakesOK(c)' /\ IsCall(c)
    BY <1>2, <1>3, KnownCall, MakesStay DEF CallsMake
  <2>3. CASE d = [c EXCEPT !.stale = TRUE]
    <3>1. /\ d.n = c.n /\ d.op = c.op /\ d.r = c.r /\ d.arg = c.arg /\ d.todo = c.todo /\ d.step = c.step
          /\ d.rows = c.rows /\ d.made = c.made /\ d.catalog = c.catalog /\ d.before = c.before
      BY <2>2, <2>3 DEF IsCall
    <3>. QED
      BY <2>2, <3>1 DEF MakesOK, LookedUp
  <2>4. CASE d = c
    BY <2>2, <2>4
  <2>. QED
    BY <2>1, <2>3, <2>4
<1>. QED
  BY <1>1, <1>3, <1>4, <1>5 DEF Follows, CallsStem, AnswersStem, CallsMake

(* A request comes, or is turned away: nothing else happens.                *)
NewOne(c) ==
  /\ c.n > asked /\ c.todo = {} /\ c.step = "asked"
  /\ c.op = "mails" => c.arg \in Nat
  /\ c.op = "codes" => c.before = [x \in Addresses |-> up[x].code]

LEMMA ArrivingFollows ==
  ASSUME ServiceOK, CodesOK, ServiceOK', UNCHANGED <<up, record, heard>>, NEW c, NewOne(c),
         \/ calls' = calls \cup {c} /\ replies' \subseteq replies
         \/ calls' = calls /\ replies' = Answered(c, 409, 0)
         \/ calls' = calls /\ replies' \subseteq replies
  PROVE  Follows
<1>1. WorldOK /\ WorldOK' /\ LogOK /\ CallsMake
  BY DEF ServiceOK, CodesOK, CallsMake
<1>2. Rising
  BY <1>1, SameCodes
<1>3. LogOK' /\ Logging
  BY <1>1, <1>2, LogStays
<1>4. \A d \in calls : MakesOK(d)'
  BY <1>1, <1>2, MakesStay DEF CallsMake
<1>5. MakesOK(c)'
  <2>1. \A x \in Addresses : up[x].code \in Nat /\ up[x].code <= up[x].code
    BY <1>1, ListedCode DEF WorldOK
  <2>2. c.op = "codes" => LookedUp(c)'
    BY <2>1 DEF NewOne, LookedUp
  <2>. QED
    BY <2>2 DEF NewOne, MakesOK
<1>6. CallsMake'
  BY <1>4, <1>5 DEF CallsMake
<1>7. CallsStem /\ AnswersStem
  <2>1. CASE calls' = calls \cup {c} /\ replies' \subseteq replies
    BY <2>1 DEF CallsStem, AnswersStem, NewOne
  <2>2. CASE calls' = calls /\ replies' = Answered(c, 409, 0)
    BY <2>2, RefusedStem DEF NewOne
  <2>3. CASE calls' = calls /\ replies' \subseteq replies
    BY <2>3 DEF CallsStem, AnswersStem
  <2>. QED
    BY <2>1, <2>2, <2>3
<1>. QED
  BY <1>2, <1>3, <1>6, <1>7 DEF Follows

LEMMA NewCalls ==
  ASSUME ServiceOK, NEW by, NEW op, NEW r, NEW to, NEW x, NEW arg, NEW seen, op = "mails" => arg \in Nat
  PROVE  NewOne(Call(by, op, r, to, x, arg, seen))
<1>1. asked \in Nat
  BY DEF ServiceOK, WorldOK
<1>. QED
  BY <1>1 DEF NewOne, Call

LEMMA ArriveFollows ==
  ASSUME ServiceOK, CodesOK, ServiceOK', heard' = heard, NEW by, NEW op, op # "mails", NEW r, NEW to, NEW x, NEW arg,
         NEW seen, Arrive(Call(by, op, r, to, x, arg, seen))
  PROVE  Follows
<1>1. PICK c : c = Call(by, op, r, to, x, arg, seen)
  OBVIOUS
<1>2. NewOne(c) /\ Arrive(c)
  BY <1>1, NewCalls
<1>3. /\ UNCHANGED <<up, record>>
      /\ \/ calls' = calls \cup {c} /\ replies' \subseteq replies
         \/ calls' = calls /\ replies' = Answered(c, 409, 0)
  BY <1>2 DEF Arrive
<1>. QED
  BY <1>2, <1>3, ArrivingFollows

LEMMA ConfirmFollows ==
  ASSUME ServiceOK, CodesOK, ServiceOK', heard' = heard, NEW by, NEW op \in Reviewed, NEW token, Confirm(by, op, token)
  PROVE  Follows
<1>. DEFINE mine == {v \in reviews : v.token = token /\ v.by = by /\ v.op = op}
            made(v) == [Call(by, op, v.r, v.to, {}, v.arg, v.seen) EXCEPT !.token = token]
<1>1. PICK v \in IF mine = {} THEN {NoReview} ELSE mine :
        IF v = NoReview \/ Pending(op, v.r)
        THEN replies' = Answered(made(v), 409, 0) /\ UNCHANGED <<calls, reviews>>
        ELSE calls' = calls \cup {made(v)} /\ UNCHANGED replies
  BY DEF Confirm
<1>2. PICK d : d = Call(by, op, v.r, v.to, {}, v.arg, v.seen)
  OBVIOUS
<1>3. PICK c : c = [d EXCEPT !.token = token]
  OBVIOUS
<1>4. c.n = asked + 1 /\ c.todo = {} /\ c.step = "asked" /\ c.op = op
  BY <1>2, <1>3 DEF Call
<1>5. asked \in Nat
  BY DEF ServiceOK, WorldOK
<1>6. NewOne(c)
  BY <1>4, <1>5 DEF NewOne, Reviewed
<1>7. \/ calls' = calls \cup {c} /\ replies' \subseteq replies
      \/ calls' = calls /\ replies' = Answered(c, 409, 0)
  BY <1>1, <1>2, <1>3
<1>8. UNCHANGED <<up, record>>
  BY DEF Confirm
<1>. QED
  BY <1>6, <1>7, <1>8, ArrivingFollows

LEMMA RestartFollows ==
  ASSUME ServiceOK, CodesOK, ServiceOK', heard' = heard, Restart
  PROVE  Follows
<1>1. /\ calls' = {} /\ UNCHANGED <<up, record>>
      /\ replies' = replies \cup {[n |-> c.n, op |-> c.op, r |-> c.r, token |-> c.token, status |-> 0, value |-> 0,
                                  doc |-> NoBook] : c \in Unanswered}
  BY DEF Restart
<1>2. WorldOK /\ WorldOK' /\ LogOK
  BY DEF ServiceOK, CodesOK
<1>3. Rising
  BY <1>1, <1>2, SameCodes
<1>4. LogOK' /\ Logging
  BY <1>1, <1>2, <1>3, LogStays
<1>5. AnswersStem
  <2>1. ASSUME NEW a \in replies', a \notin replies
        PROVE  \E c \in calls : Answers(a, c)
    <3>1. PICK c \in Unanswered : a = [n |-> c.n, op |-> c.op, r |-> c.r, token |-> c.token, status |-> 0,
                                       value |-> 0, doc |-> NoBook]
      BY <1>1, <2>1
    <3>2. c \in calls /\ a.n = c.n /\ a.op = c.op /\ a.r = c.r /\ a.token = c.token /\ a.status = 0
      BY <3>1 DEF Unanswered
    <3>. QED
      BY <3>2 DEF Answers
  <2>. QED
    BY <2>1 DEF AnswersStem
<1>. QED
  BY <1>1, <1>3, <1>4, <1>5 DEF Follows, CallsStem, CallsMake

(* Where requests and answers stay as they are.                             *)
LEMMA NothingFollows ==
  ASSUME ServiceOK, CodesOK, ServiceOK', heard' = heard, Rising, record' = record, calls' = calls,
         replies' \subseteq replies
  PROVE  Follows
<1>1. WorldOK /\ WorldOK' /\ LogOK /\ CallsMake
  BY DEF ServiceOK, CodesOK, CallsMake
<1>2. LogOK' /\ Logging
  BY <1>1, LogStays
<1>3. CallsMake'
  BY <1>1, MakesStay DEF CallsMake
<1>. QED
  BY <1>2, <1>3 DEF Follows, CallsStem, AnswersStem

LEMMA ExpireCodes ==
  ASSUME WorldOK, NEW x \in Addresses, Expire(x)
  PROVE  Rising
<1>1. up' = [up EXCEPT ![x].live = FALSE] /\ up \in [Addresses -> Listing]
  BY DEF Expire, WorldOK
<1>2. ASSUME NEW y \in Addresses
      PROVE  up[y].code <= up'[y].code
  <2>1. up[y] \in Listing /\ up[y].code \in Nat
    BY <1>1 DEF Listing
  <2>2. up'[y] = IF y = x THEN [up[y] EXCEPT !.live = FALSE] ELSE up[y]
    BY <1>1
  <2>3. [up[y] EXCEPT !.live = FALSE].code = up[y].code
    BY <2>1 DEF Listing
  <2>. QED
    BY <2>1, <2>2, <2>3
<1>. QED
  BY <1>2 DEF Rising

LEMMA ServingFollows ==
  ASSUME ServiceOK, CodesOK, ServiceOK', heard' = heard, Serving
  PROVE  Follows
<1>1. ASSUME NEW c \in calls,
             \/ ReadCode(c) \/ PrepareReset(c) \/ ConfirmReset(c)
             \/ LookForMail(c) \/ AssignMail(c)
             \/ FindMailbox(c) \/ VerifyCode(c) \/ FindRows(c) \/ ConfirmMailbox(c) \/ AnswerPublic(c)
             \/ LookForMain(c) \/ LookForAliases(c) \/ LookAgain(c)
             \/ LookForMains(c) \/ SaveMain(c) \/ ImportMains(c)
             \/ CheckEligibility(c) \/ Claim(c) \/ ReadCatalog(c) \/ CheckClaim(c) \/ CopyCodes(c)
             \/ GiveUp(c) \/ FailRead(c)
      PROVE  Follows
  <2>1. UNCHANGED <<up, record>> /\ (Fairly(c) \/ Passes(c))
    BY <1>1, CodeSteps, MailSteps, MailboxSteps, RowSteps, ClaimSteps, FailingSteps
  <2>. QED
    BY <2>1, QuietFollows
<1>2. ASSUME NEW c \in calls, Changed(c) \/ ReadMails(c) \/ \E m \in c.todo : Change(c, m)
      PROVE  Follows
  BY <1>2, ChangedFollows, ReadMailsFollows, ChangeFollows
<1>3. ASSUME NEW c \in calls, Step(c) PROVE Follows
  BY <1>1, <1>2, <1>3 DEF Step
<1>4. ASSUME OtherAsks PROVE Follows
  BY <1>4, OtherRequests, ArriveFollows
<1>5. ASSUME OtherConfirms PROVE Follows
  <2>1. PICK v \in reviews : v.op \in Reviewed /\ Confirm("other", v.op, v.token)
    BY <1>5 DEF OtherConfirms, ServiceOK, ReviewsOK
  <2>. QED
    BY <2>1, ConfirmFollows
<1>6. ASSUME ColleagueSaves PROVE Follows
  <2>1. UNCHANGED <<up, calls, replies, record>>
    BY <1>6 DEF ColleagueSaves
  <2>2. Rising
    BY <2>1, SameCodes DEF ServiceOK
  <2>. QED
    BY <2>1, <2>2, NothingFollows
<1>7. ASSUME NEW x \in Addresses, Expire(x) PROVE Follows
  <2>1. UNCHANGED <<calls, replies, record>>
    BY <1>7 DEF Expire
  <2>2. Rising
    BY <1>7, ExpireCodes DEF ServiceOK
  <2>. QED
    BY <2>1, <2>2, NothingFollows
<1>8. (\E m \in late : Late(m)) \/ Restart => Follows
  BY LateFollows, RestartFollows
<1>. QED
  BY <1>1, <1>3, <1>4, <1>5, <1>6, <1>7, <1>8 DEF Serving

-----------------------------------------------------------------------------
(* What the page holds stays sound.                                         *)

(* The drawer comes to show nothing it did not.                             *)
Eases == 
  /\ drawer'.kind # "mails"
  /\ drawer'.kind = "result" => drawer.kind = "result" /\ drawer'.r = drawer.r /\ drawer'.value = drawer.value

Rows == DOMAIN book.rows

LEMMA RowCodes ==
  ASSUME WorldOK, NEW r \in Rows
  PROVE  book.rows[r].email \in Addresses /\ CodeOf(r) \in Nat
<1>1. book.rows[r].email \in Addresses
  BY RowTypes DEF WorldOK, Rows
<1>. QED
  BY <1>1 DEF WorldOK, CodeOf, Listing

LEMMA CodesRise ==
  ASSUME WorldOK, WorldOK', Before(book.rows, book'.rows), Rising, NEW r \in Rows
  PROVE  r \in Rows' /\ CodeOf(r) <= CodeOf(r)' /\ CodeOf(r)' \in Nat /\ CodeOf(r) \in Nat
<1>1. r \in DOMAIN book'.rows /\ book'.rows[r].email = book.rows[r].email
  BY DEF Before, Rows
<1>2. book.rows[r].email \in Addresses /\ CodeOf(r) \in Nat
  BY RowCodes
<1>3. CodeOf(r)' \in Nat
  BY <1>1, <1>2 DEF CodeOf, WorldOK, Listing
<1>. QED
  BY <1>1, <1>2, <1>3 DEF CodeOf, Rising, Rows

LEMMA SoundStays ==
  ASSUME WorldOK, WorldOK', Before(book.rows, book'.rows), Rising, Eases, NEW r \in Rows, NEW v, Sound(r, v)
  PROVE  Sound(r, v)'
<1>1. CodeOf(r) <= CodeOf(r)' /\ CodeOf(r)' \in Nat /\ CodeOf(r) \in Nat
  BY CodesRise
<1>2. v <= CodeOf(r)'
  BY <1>1 DEF Sound
<1>3. Shown(r)' => Shown(r) /\ drawer'.value = drawer.value
  BY DEF Shown, Eases
<1>. QED
  BY <1>2, <1>3 DEF Sound

LEMMA TimelyStays ==
  ASSUME WorldOK, LogOK, LogOK', Before(book.rows, book'.rows), Logging, heard' = heard, NEW r \in Rows, NEW v,
         Timely(r, v)
  PROVE  Timely(r, v)'
<1>1. record.count \in Nat /\ record'.count \in Nat /\ heard.record \in Nat /\ heard.record <= record.count
  BY DEF LogOK
<1>2. book'.rows[r].email = book.rows[r].email
  BY DEF Before, Rows
<1>3. CASE record'.count > record.count
  BY <1>1, <1>3 DEF Timely, Untold
<1>4. CASE record' = record
  BY <1>2, <1>4 DEF Timely, Untold, LoggedFor
<1>. QED
  BY <1>3, <1>4 DEF Logging

LEMMA EntryStays ==
  ASSUME WorldOK, WorldOK', Before(book.rows, book'.rows), Rising, Eases, LogOK, LogOK', Logging, heard' = heard,
         NEW r \in Rows, NEW e, EntryOK(r, e)
  PROVE  EntryOK(r, e)'
<1>1. CASE e.stale \/ e.value = 0
  BY <1>1 DEF EntryOK
<1>2. CASE ~e.stale /\ e.value # 0
  <2>1. Sound(r, e.value) /\ (Timely(r, e.value) \/ e.overtaken)
    BY <1>2 DEF EntryOK
  <2>2. Sound(r, e.value)'
    BY <2>1, SoundStays
  <2>3. Timely(r, e.value) => Timely(r, e.value)'
    BY TimelyStays
  <2>. QED
    BY <2>1, <2>2, <2>3 DEF EntryOK
<1>. QED
  BY <1>1, <1>2

(* An answer to a request waited for is what the code was then.             *)
LEMMA PendingStays ==
  ASSUME ServiceOK, CodesOK, ServiceOK', Before(book.rows, book'.rows), Follows, Eases, heard' = heard,
         asked' \in Nat, asked <= asked', NEW r \in Rows, NEW n \in Nat, PendingOK(r, n)
  PROVE  PendingOK(r, n)'
<1>. SUFFICES ASSUME n # 0
              PROVE  /\ n <= asked'
                     /\ \A c \in calls' : c.n = n => c.op = "read" /\ c.r = r
                     /\ \A a \in replies' : a.n = n /\ a.status = 200 => Sound(r, a.value)' /\ Timely(r, a.value)'
  BY DEF PendingOK
<1>1. asked \in Nat /\ n <= asked
  BY DEF ServiceOK, WorldOK, PendingOK
<1>2. n <= asked'
  BY <1>1
<1>3. \A c \in calls : c.n = n => c.op = "read" /\ c.r = r
  BY DEF PendingOK
<1>4. \A a \in replies : a.n = n /\ a.status = 200 => Sound(r, a.value) /\ Timely(r, a.value)
  BY DEF PendingOK
<1>5. ASSUME NEW c \in calls', c.n = n
      PROVE  c.op = "read" /\ c.r = r
  <2>1. ~(c.n > asked)
    BY <1>1, <1>5
  <2>2. PICK d \in calls : c.n = d.n /\ c.op = d.op /\ c.r = d.r
    BY <2>1 DEF Follows, CallsStem
  <2>. QED
    BY <1>3, <1>5, <2>2
<1>6. ASSUME NEW a \in replies', a.n = n, a.status = 200
      PROVE  Sound(r, a.value) /\ Timely(r, a.value)
  <2>1. CASE a \in replies
    BY <1>4, <1>6, <2>1
  <2>2. CASE a \notin replies
    <3>1. ~(a.n > asked)
      BY <1>1, <1>6
    <3>2. PICK c \in calls : Answers(a, c)
      BY <2>2, <3>1 DEF Follows, AnswersStem
    <3>3. c.op = "read" /\ c.r = r /\ Gave(c, a.value)
      BY <1>3, <1>6, <3>2 DEF Answers
    <3>4. Matched(c.rows, up, r) /\ a.value = up[c.rows[r].bound].code
      BY <3>3 DEF Gave
    <3>5. RowsOK(c.rows) /\ Before(c.rows, book.rows)
      BY KnownCall
    <3>6. r \in DOMAIN c.rows /\ c.rows[r].bound = c.rows[r].email
      BY <3>4, <3>5, MatchedRow
    <3>7. a.value = CodeOf(r)
      BY <3>4, <3>5, <3>6 DEF CodeOf, Before
    <3>8. CodeOf(r) \in Nat /\ book.rows[r].email \in Addresses
      BY RowCodes DEF ServiceOK
    <3>9. Shown(r) => drawer.value <= a.value
      BY <3>7 DEF CodesOK, ShownOK, Shown
    <3>10. LoggedFor(r) <= a.value
      BY <3>7, <3>8 DEF CodesOK, LogOK, LoggedFor, CodeOf
    <3>. QED
      BY <3>7, <3>8, <3>9, <3>10 DEF Sound, Timely
  <2>. QED
    BY <2>1, <2>2
<1>7. ASSUME NEW a \in replies', a.n = n, a.status = 200
      PROVE  Sound(r, a.value)' /\ Timely(r, a.value)'
  <2>1. Sound(r, a.value) /\ Timely(r, a.value)
    BY <1>6, <1>7
  <2>2. WorldOK /\ WorldOK' /\ LogOK /\ LogOK' /\ Rising /\ Logging
    BY DEF ServiceOK, CodesOK, Follows
  <2>3. Sound(r, a.value)'
    BY <2>1, <2>2, SoundStays
  <2>4. Timely(r, a.value)'
    BY <2>1, <2>2, TimelyStays
  <2>. QED
    BY <2>3, <2>4
<1>. QED
  BY <1>2, <1>5, <1>7

(* What a reset's answer gives is a code its row had.                       *)
LEMMA AnswersGiven ==
  ASSUME ServiceOK, CodesOK, ServiceOK', Before(book.rows, book'.rows), Follows
  PROVE  \A a \in replies' : GivenOK(a)'
<1>. SUFFICES ASSUME NEW a \in replies' PROVE GivenOK(a)'
  OBVIOUS
<1>0. WorldOK /\ WorldOK' /\ Rising /\ asked \in Nat
  BY DEF ServiceOK, Follows, WorldOK
<1>1. ASSUME NEW r \in Rows, NEW v \in Nat, v <= CodeOf(r)
      PROVE  r \in Rows' /\ v <= CodeOf(r)'
  <2>1. r \in Rows' /\ CodeOf(r) <= CodeOf(r)' /\ CodeOf(r)' \in Nat /\ CodeOf(r) \in Nat
    BY <1>0, CodesRise
  <2>. QED
    BY <1>1, <2>1
<1>2. CASE a \in replies
  <2>1. GivenOK(a)
    BY <1>2 DEF CodesOK
  <2>2. Gives(a) => a.r \in DOMAIN book'.rows /\ a.value <= CodeOf(a.r)'
    BY <1>1, <2>1 DEF GivenOK, Rows
  <2>. QED
    BY <2>1, <2>2 DEF GivenOK
<1>3. CASE a.n > asked /\ a.status # 200
  BY <1>0, <1>3 DEF GivenOK, Gives
<1>4. ASSUME NEW c \in calls, Answers(a, c)
      PROVE  GivenOK(a)'
  <2>1. MakesOK(c) /\ IsCall(c) /\ RowsOK(c.rows) /\ Before(c.rows, book.rows)
    BY KnownCall DEF CodesOK
  <2>2. a.n # 0
    BY <1>4, <2>1 DEF Answers, IsCall
  <2>3. ASSUME Gives(a)
        PROVE  a.r \in DOMAIN book'.rows /\ a.value \in Nat /\ a.value <= CodeOf(a.r)'
    <3>1. c.op = "reset" /\ c.step = "done" /\ a.value = c.made /\ a.r = c.r
      BY <1>4, <2>3 DEF Answers, Gave, Gives
    <3>2. /\ c.r \in DOMAIN c.rows /\ Bound(c.rows, c.r) /\ c.made \in Nat
          /\ c.made <= up[c.rows[c.r].bound].code
      BY <2>1, <3>1 DEF MakesOK
    <3>3. c.rows[c.r].bound = c.rows[c.r].email
      BY <2>1, <3>2, RowTypes
    <3>4. c.r \in Rows /\ book.rows[c.r].email = c.rows[c.r].email
      BY <2>1, <3>2 DEF Before, Rows
    <3>5. c.made <= CodeOf(c.r)
      BY <3>2, <3>3, <3>4 DEF CodeOf
    <3>. QED
      BY <1>1, <3>1, <3>2, <3>4, <3>5 DEF Rows
  <2>. QED
    BY <2>2, <2>3 DEF GivenOK
<1>. QED
  BY <1>2, <1>3, <1>4 DEF Follows, AnswersStem

(* A cell left as it is.                                                    *)
LEMMA CellStays ==
  ASSUME WorldOK, WorldOK', Before(book.rows, book'.rows), Rising, Eases, LogOK, LogOK', Logging, heard' = heard,
         news' = news, page' = page,
         NEW r \in Rows, NEW cell, NEW e, CellOK(r, cell, e),
         NEW f, f.pending = e.pending \/ f.pending = 0, f.overtaken = e.overtaken
  PROVE  CellOK(r, cell, f)'
<1>1. CASE cell.value = 0
  BY <1>1 DEF CellOK
<1>2. CASE cell.value # 0
  <2>1. /\ e.pending = 0 /\ Sound(r, cell.value)
        /\ Timely(r, cell.value) \/ e.overtaken \/ news
    BY <1>2 DEF CellOK
  <2>2. Sound(r, cell.value)'
    BY <2>1, SoundStays
  <2>3. Timely(r, cell.value) => Timely(r, cell.value)'
    BY TimelyStays
  <2>. QED
    BY <2>1, <2>2, <2>3 DEF CellOK
<1>. QED
  BY <1>1, <1>2

(* An entry forgotten, and one kept.                                        *)
KeptFrom(e, f) ==
  /\ f.shot = e.shot /\ f.overtaken = e.overtaken
  /\ f = e \/ (f.stale /\ f.pending = 0 /\ f.value = e.value)

Forgets(e, f) == f = [e EXCEPT !.stale = TRUE, !.pending = 0]

LEMMA ForgottenAt ==
  ASSUME NEW kept, NEW r \in DOMAIN kept
  PROVE  Forgets(kept[r], Forgotten(kept)[r])
  BY Zenon DEF Forgotten, Forgets

LEMMA ForgottenEntry ==
  ASSUME NEW r, NEW e, EntryOK(r, e), NEW f, Forgets(e, f)
  PROVE  EntryOK(r, f) /\ KeptFrom(e, f) /\ f.pending = 0 /\ f.stale
<1>1. /\ e \in [shot : {e.shot}, value : Nat, stale : BOOLEAN, pending : Nat, overtaken : BOOLEAN]
      /\ f = [e EXCEPT !.stale = TRUE, !.pending = 0]
  BY DEF EntryOK, Forgets
<1>2. /\ f \in [shot : {e.shot}, value : Nat, stale : BOOLEAN, pending : Nat, overtaken : BOOLEAN]
      /\ f.stale /\ f.pending = 0 /\ f.value = e.value /\ f.shot = e.shot /\ f.overtaken = e.overtaken
  BY <1>1
<1>. QED
  BY <1>2 DEF EntryOK, KeptFrom

(* The cache as it is, or dropped.                                          *)
Drops(kept) == kept = cache \/ kept = Forgotten(cache)

LEMMA DroppedCache ==
  ASSUME CodesOK, NEW kept, Drops(kept), NEW r \in Aliases(page.rows)
  PROVE  /\ DOMAIN kept = Aliases(page.rows) /\ EntryOK(r, kept[r]) /\ PendingOK(r, kept[r].pending)
         /\ kept[r].shot = Shot(page.rows, r) /\ KeptFrom(cache[r], kept[r])
<1>1. /\ DOMAIN cache = Aliases(page.rows) /\ EntryOK(r, cache[r]) /\ PendingOK(r, cache[r].pending)
      /\ cache[r].shot = Shot(page.rows, r)
  BY DEF CodesOK, ShownOK
<1>2. CASE kept = cache
  BY <1>1, <1>2 DEF KeptFrom
<1>3. CASE kept = Forgotten(cache)
  <2>1. DOMAIN kept = Aliases(page.rows) /\ kept[r] = [cache[r] EXCEPT !.stale = TRUE, !.pending = 0]
    BY <1>1, <1>3 DEF Forgotten
  <2>2. PICK f : f = kept[r]
    OBVIOUS
  <2>3. PICK e : e = cache[r]
    OBVIOUS
  <2>4. f = [e EXCEPT !.stale = TRUE, !.pending = 0] /\ EntryOK(r, e)
    BY <1>1, <2>1, <2>2, <2>3
  <2>5. EntryOK(r, f) /\ KeptFrom(e, f) /\ f.pending = 0
    <3>1. Forgets(e, f)
      BY <2>4 DEF Forgets
    <3>. QED
      BY <2>4, <3>1, ForgottenEntry
  <2>6. f.shot = Shot(page.rows, r) /\ PendingOK(r, f.pending)
    BY <1>1, <2>3, <2>5 DEF KeptFrom, PendingOK
  <2>. QED
    BY <2>1, <2>2, <2>3, <2>5, <2>6
<1>. QED
  BY <1>2, <1>3 DEF Drops

(* The rows of a page are rows of the inventory.                            *)
LEMMA PageAliases ==
  ASSUME NEW pg, PageOK(pg), NEW r \in Aliases(pg.rows)
  PROVE  r \in Rows /\ r \in DOMAIN pg.rows /\ book.rows[r].email = pg.rows[r].email
  BY DEF PageOK, Snapshot, Before, Aliases, Rows

(* The drawer shows a code its row had.                                     *)
LEMMA DrawerStays ==
  ASSUME WorldOK, WorldOK', Before(book.rows, book'.rows), Rising, Eases, ShownOK
  PROVE  /\ drawer'.kind # "mails"
         /\ drawer'.kind = "result" =>
              drawer'.r \in DOMAIN book'.rows /\ drawer'.value \in Nat /\ drawer'.value <= CodeOf(drawer.r)'
<1>. SUFFICES ASSUME drawer'.kind = "result"
              PROVE  drawer'.r \in DOMAIN book'.rows /\ drawer'.value \in Nat /\ drawer'.value <= CodeOf(drawer.r)'
  BY DEF Eases
<1>1. drawer.kind = "result" /\ drawer'.r = drawer.r /\ drawer'.value = drawer.value
  BY DEF Eases
<1>2. PICK r \in Rows : r = drawer.r /\ drawer.value \in Nat /\ drawer.value <= CodeOf(r)
  BY <1>1 DEF ShownOK, Rows
<1>3. r \in Rows' /\ CodeOf(r) <= CodeOf(r)' /\ CodeOf(r)' \in Nat /\ CodeOf(r) \in Nat
  BY CodesRise
<1>4. drawer.value <= CodeOf(r)'
  BY <1>2, <1>3
<1>5. r = drawer'.r /\ CodeOf(r)' = CodeOf(drawer.r)'
  BY <1>1, <1>2
<1>. QED
  BY <1>1, <1>2, <1>3, <1>4, <1>5 DEF Rows

(* A step that leaves the page and its cells alone.                         *)
Onward ==
  /\ ServiceOK' /\ Before(book.rows, book'.rows) /\ Follows /\ Eases
  /\ asked' \in Nat /\ asked <= asked' /\ heard' = heard

LEMMA CodesStay ==
  ASSUME IInv, CodesOK, Onward, UNCHANGED <<page, cells, news>>, Drops(cache')
  PROVE  CodesOK'
<1>1. WorldOK /\ WorldOK' /\ LogOK /\ LogOK' /\ Rising /\ Logging /\ ServiceOK /\ ServiceOK'
  BY DEF IInv, ServiceOK, CodesOK, Follows, Onward
<1>2. \A a \in replies' : GivenOK(a)'
  BY <1>1, AnswersGiven DEF Onward
<1>3. \A c \in calls' : MakesOK(c)'
  BY DEF Onward, Follows, CallsMake
<1>4. DOMAIN cells = Aliases(page.rows) /\ DOMAIN cache = Aliases(page.rows)
  BY DEF CodesOK, ShownOK
<1>5. PICK kept : kept = cache'
  OBVIOUS
<1>6. Drops(kept)
  BY <1>5
<1>7. DOMAIN kept = Aliases(page.rows)
  BY <1>4, <1>6 DEF Drops, Forgotten
<1>8. ASSUME NEW r \in Aliases(page.rows)
      PROVE  /\ kept[r].shot = Shot(page.rows, r)
             /\ EntryOK(r, kept[r])' /\ PendingOK(r, kept[r].pending)' /\ CellOK(r, cells[r], kept[r])'
  <2>1. r \in Rows
    BY PageAliases DEF IInv, DeskOK
  <2>2. /\ EntryOK(r, kept[r]) /\ PendingOK(r, kept[r].pending)
        /\ kept[r].shot = Shot(page.rows, r) /\ KeptFrom(cache[r], kept[r])
    BY <1>6, DroppedCache
  <2>3. PICK f : f = kept[r]
    OBVIOUS
  <2>4. PICK e : e = cache[r]
    OBVIOUS
  <2>5. EntryOK(r, f)'
    <3>1. EntryOK(r, f)
      BY <2>2, <2>3
    <3>. QED
      BY <1>1, <2>1, <3>1, EntryStays DEF Onward
  <2>6. PendingOK(r, f.pending)'
    <3>1. PICK n : n = f.pending
      OBVIOUS
    <3>2. PendingOK(r, n) /\ n \in Nat
      BY <2>2, <2>3, <3>1 DEF EntryOK
    <3>3. PendingOK(r, n)'
      BY <1>1, <2>1, <3>2, PendingStays DEF Onward
    <3>. QED
      BY <3>1, <3>3
  <2>7. CellOK(r, cells[r], f)'
    <3>1. PICK cell : cell = cells[r]
      OBVIOUS
    <3>2. CellOK(r, cell, e)
      BY <2>4, <3>1 DEF CodesOK, ShownOK
    <3>3. (f.pending = e.pending \/ f.pending = 0) /\ f.overtaken = e.overtaken
      BY <2>2, <2>3, <2>4 DEF KeptFrom
    <3>4. CellOK(r, cell, f)'
      BY <1>1, <2>1, <3>2, <3>3, CellStays DEF Onward
    <3>. QED
      BY <3>1, <3>4
  <2>. QED
    BY <2>2, <2>3, <2>5, <2>6, <2>7
<1>9. /\ drawer'.kind # "mails"
      /\ drawer'.kind = "result" =>
           drawer'.r \in DOMAIN book'.rows /\ drawer'.value \in Nat /\ drawer'.value <= CodeOf(drawer.r)'
  BY <1>1, DrawerStays DEF Onward, CodesOK
<1>10. ShownOK'
  <2>1. page' = page /\ cells' = cells
    OBVIOUS
  <2>2. DOMAIN cells' = Aliases(page'.rows) /\ DOMAIN cache' = Aliases(page'.rows)
    BY <1>4, <1>5, <1>7, <2>1
  <2>3. ASSUME NEW r \in Aliases(page'.rows)
        PROVE  /\ cache'[r].shot = Shot(page'.rows, r)
               /\ EntryOK(r, cache[r])' /\ PendingOK(r, cache[r].pending)' /\ CellOK(r, cells[r], cache[r])'
    <3>1. r \in Aliases(page.rows)
      BY <2>1
    <3>2. kept[r].shot = Shot(page.rows, r) /\ EntryOK(r, kept[r])'
      BY <1>8, <3>1
    <3>3. PendingOK(r, kept[r].pending)'
      BY <1>8, <3>1
    <3>4. CellOK(r, cells[r], kept[r])'
      BY <1>8, <3>1
    <3>. QED
      BY <1>5, <2>1, <3>2, <3>3, <3>4
  <2>. QED
    BY <1>9, <2>2, <2>3 DEF ShownOK
<1>. QED
  BY <1>1, <1>2, <1>3, <1>10 DEF CodesOK

(* Numbers of requests only grow.                                           *)
LEMMA AskedGrows ==
  ASSUME asked \in Nat, Serving
  PROVE  asked' \in Nat /\ asked <= asked'
<1>1. \A by, op, r, to, x, arg, seen : Arrive(Call(by, op, r, to, x, arg, seen)) => asked' = asked + 1
  BY DEF Arrive, Call
<1>2. ASSUME NEW c \in calls, Step(c) \/ GiveUp(c) \/ FailRead(c) PROVE asked' = asked
  <2>1. ReadCode(c) \/ PrepareReset(c) \/ ConfirmReset(c) \/ LookForMail(c) \/ AssignMail(c) => asked' = asked
    BY DEF ReadCode, PrepareReset, ConfirmReset, LookForMail, AssignMail, Unmoved
  <2>2. Changed(c) \/ (\E m \in c.todo : Change(c, m)) => asked' = asked
    BY DEF Changed, Change, Unmoved
  <2>3. FindMailbox(c) \/ VerifyCode(c) \/ FindRows(c) \/ ReadMails(c) \/ ConfirmMailbox(c) \/ AnswerPublic(c)
          => asked' = asked
    BY DEF FindMailbox, VerifyCode, FindRows, ReadMails, ConfirmMailbox, AnswerPublic, Unmoved
  <2>4. LookForMain(c) \/ LookForAliases(c) \/ LookAgain(c) \/ LookForMains(c) => asked' = asked
    BY DEF LookForMain, LookForAliases, LookAgain, LookForMains, Unmoved
  <2>5. SaveMain(c) \/ ImportMains(c) \/ CheckEligibility(c) \/ Claim(c) \/ ReadCatalog(c) \/ CheckClaim(c)
          \/ CopyCodes(c) => asked' = asked
    BY DEF SaveMain, ImportMains, CheckEligibility, Claim, ReadCatalog, CheckClaim, CopyCodes, Unmoved
  <2>6. GiveUp(c) \/ FailRead(c) => asked' = asked
    BY DEF GiveUp, FailRead, Unmoved
  <2>. QED
    BY <1>2, <2>1, <2>2, <2>3, <2>4, <2>5, <2>6 DEF Step
<1>3. (\E m \in late : Late(m)) \/ (\E x \in Addresses : Expire(x)) \/ ColleagueSaves \/ Restart => asked' = asked
  BY DEF Late, Expire, ColleagueSaves, Restart
<1>4. OtherConfirms => asked' = asked + 1
  BY DEF OtherConfirms, Confirm
<1>5. OtherAsks => asked' = asked + 1
  BY <1>1, OtherRequests
<1>6. asked' = asked \/ asked' = asked + 1
  BY <1>2, <1>3, <1>4, <1>5 DEF Serving
<1>. QED
  BY <1>6

(* Drawers that show no new result.                                         *)
LEMMA EasesOn ==
  ASSUME IsForm(drawer), drawer.kind # "mails",
         \/ drawer' = drawer \/ drawer' = Closed
         \/ \E step : drawer' = [drawer EXCEPT !.step = step]
         \/ \E step, n : drawer' = [drawer EXCEPT !.step = step, !.n = n]
         \/ \E step, token : drawer' = [drawer EXCEPT !.step = step, !.token = token]
         \/ drawer.kind = "code" /\ \E step, value : drawer' = [drawer EXCEPT !.step = step, !.value = value]
  PROVE  Eases
<1>1. CASE drawer' = drawer
  BY <1>1 DEF Eases
<1>2. CASE drawer' = Closed
  BY <1>2 DEF Eases, Closed
<1>3. ASSUME NEW step, NEW n, NEW token, NEW value, drawer' = [drawer EXCEPT !.step = step]
      PROVE  Eases
  BY <1>3 DEF Eases, IsForm
<1>4. ASSUME NEW step, NEW n, drawer' = [drawer EXCEPT !.step = step, !.n = n]
      PROVE  Eases
  BY <1>4 DEF Eases, IsForm
<1>5. ASSUME NEW step, NEW token, drawer' = [drawer EXCEPT !.step = step, !.token = token]
      PROVE  Eases
  BY <1>5 DEF Eases, IsForm
<1>6. ASSUME drawer.kind = "code", NEW step, NEW value, drawer' = [drawer EXCEPT !.step = step, !.value = value]
      PROVE  Eases
  BY <1>6 DEF Eases, IsForm
<1>. QED
  BY <1>1, <1>2, <1>3, <1>4, <1>5, <1>6

(* Requests served.                                                         *)
LEMMA ServingCodes ==
  ASSUME IInv, CodesOK, IInv', Serving, UNCHANGED <<Desk, heard, news>>
  PROVE  CodesOK'
<1>1. ServiceOK /\ ServiceOK' /\ asked \in Nat
  BY DEF IInv, ServiceOK, WorldOK
<1>2. Before(book.rows, book'.rows) /\ Follows /\ asked' \in Nat /\ asked <= asked'
  BY <1>1, ServingStep, ServingFollows, AskedGrows
<1>3. UNCHANGED <<page, cells, cache, drawer>>
  BY DEF Desk
<1>4. Eases
  BY <1>3 DEF Eases, CodesOK, ShownOK
<1>. QED
  BY <1>1, <1>2, <1>3, <1>4, CodesStay DEF Onward, Drops

(* Nothing asked for, or a request that is none for mails.                  *)
LEMMA RestCodes ==
  ASSUME IInv, CodesOK, IInv', SomebodysWork, UNCHANGED <<calls, asked, page, cells, heard, news>>,
         replies' \subseteq replies, Eases, Drops(cache')
  PROVE  CodesOK'
<1>1. ServiceOK /\ ServiceOK' /\ WorldOK /\ asked \in Nat
  BY DEF IInv, ServiceOK, WorldOK
<1>2. Rising /\ record' = record
  BY <1>1, SameCodes DEF SomebodysWork
<1>3. Follows
  BY <1>1, <1>2, NothingFollows
<1>4. Before(book.rows, book'.rows)
  BY BeforeSelf DEF SomebodysWork
<1>. QED
  BY <1>1, <1>3, <1>4, CodesStay DEF Onward

LEMMA AskingCodes ==
  ASSUME IInv, CodesOK, IInv', UNCHANGED <<book, page, cells, cache, heard, news>>, Follows, asked' = asked + 1, Eases
  PROVE  CodesOK'
<1>1. ServiceOK /\ ServiceOK' /\ asked \in Nat
  BY DEF IInv, ServiceOK, WorldOK
<1>2. Before(book.rows, book'.rows)
  BY BeforeSelf
<1>. QED
  BY <1>1, <1>2, CodesStay DEF Onward, Drops

LEMMA ListsCodes ==
  ASSUME IInv, CodesOK, IInv', SomebodysWork, NEW refresh \in Nat, Lists(refresh), replies' \subseteq replies,
         UNCHANGED <<page, cells, heard, news>>, Eases, Drops(cache')
  PROVE  CodesOK'
<1>1. ServiceOK /\ ServiceOK' /\ asked \in Nat
  BY DEF IInv, ServiceOK, WorldOK
<1>2. PICK c : c = Call("me", "mails", 1, 0, {}, refresh, NoSeen)
  OBVIOUS
<1>3. NewOne(c) /\ calls' = calls \cup {c} /\ asked' = asked + 1
  BY <1>1, <1>2, NewCalls DEF Lists
<1>4. UNCHANGED <<up, record, heard>>
  BY DEF SomebodysWork
<1>5. Follows
  BY <1>1, <1>3, <1>4, ArrivingFollows
<1>6. Before(book.rows, book'.rows)
  BY BeforeSelf DEF SomebodysWork
<1>. QED
  BY <1>1, <1>3, <1>5, <1>6, CodesStay DEF Onward

(* A form opened is none of a result.                                       *)
LEMMA FormOpens ==
  ASSUME NEW op, NEW d, Opens(op, d), d.kind \notin {"mails", "result"}
  PROVE  Eases
  BY DEF Opens, Eases

LEMMA OpeningEases ==
  ASSUME Opening
  PROVE  Eases /\ SomebodysWork /\ UNCHANGED <<calls, asked, replies, page, cells, cache, heard, news>>
<1>1. \A op, d : Opens(op, d) => SomebodysWork /\ UNCHANGED <<calls, asked, replies, page, cells, cache, heard, news>>
  BY DEF Opens, SomebodysWork
<1>2. ASSUME NEW kind, NEW r
      PROVE  /\ Form(kind, r).kind = kind
             /\ [Form(kind, r) EXCEPT !.step = "dialog"].kind = kind
             /\ \A arg : [Form(kind, r) EXCEPT !.arg = arg].kind = kind
             /\ \A to, arg : [Form(kind, r) EXCEPT !.to = to, !.arg = arg].kind = kind
             /\ \A x, seen : [Form(kind, r) EXCEPT !.x = x, !.seen = seen].kind = kind
             /\ \A x, arg : [Form(kind, r) EXCEPT !.x = x, !.arg = arg].kind = kind
             /\ \A to, x, seen : [Form(kind, r) EXCEPT !.to = to, !.x = x, !.seen = seen].kind = kind
             /\ \A x, arg, seen : [Form(kind, r) EXCEPT !.x = x, !.arg = arg, !.seen = seen].kind = kind
  BY DEF Form, Closed
<1>3. \E op, d : Opens(op, d) /\ d.kind \notin {"mails", "result"}
  <2>1. CASE OpenReset
    <3>1. PICK r : Opens("reset", Form("reset", r))
      BY <2>1 DEF OpenReset
    <3>. QED
      BY <1>2, <3>1
  <2>2. CASE OpenAssign
    <3>1. PICK to, under : Opens("assign", [Form("assign", 0) EXCEPT !.to = to, !.arg = under])
      BY <2>2 DEF OpenAssign
    <3>2. [Form("assign", 0) EXCEPT !.to = to, !.arg = under].kind = "assign"
      BY <1>2
    <3>. QED
      BY <3>1, <3>2
  <2>3. CASE OpenRegister
    <3>1. \/ \E r, xs, seen : Opens("register", [Form("register", r) EXCEPT !.x = xs, !.seen = seen])
          \/ \E r, to, xs, seen : Opens("register", [Form("register", r) EXCEPT !.to = to, !.x = xs, !.seen = seen])
      BY <2>3 DEF OpenRegister
    <3>2. \A r, xs, seen : [Form("register", r) EXCEPT !.x = xs, !.seen = seen].kind = "register"
      BY <1>2
    <3>3. \A r, to, xs, seen : [Form("register", r) EXCEPT !.to = to, !.x = xs, !.seen = seen].kind = "register"
      BY <1>2
    <3>4. CASE \E r, xs, seen : Opens("register", [Form("register", r) EXCEPT !.x = xs, !.seen = seen])
      BY <3>2, <3>4
    <3>5. CASE \E r, to, xs, seen : Opens("register", [Form("register", r) EXCEPT !.to = to, !.x = xs, !.seen = seen])
      BY <3>3, <3>5
    <3>. QED
      BY <3>1, <3>4, <3>5
  <2>4. CASE OpenMain
    <3>1. \/ \E xs, arg : Opens("saveMain", [Form("saveMain", 0) EXCEPT !.x = xs, !.arg = arg])
          \/ \E r, xs, arg, seen : Opens("saveMain", [Form("saveMain", r) EXCEPT !.x = xs, !.arg = arg, !.seen = seen])
      BY <2>4 DEF OpenMain
    <3>2. \A xs, arg : [Form("saveMain", 0) EXCEPT !.x = xs, !.arg = arg].kind = "saveMain"
      BY <1>2
    <3>3. \A r, xs, arg, seen : [Form("saveMain", r) EXCEPT !.x = xs, !.arg = arg, !.seen = seen].kind = "saveMain"
      BY <1>2
    <3>4. CASE \E xs, arg : Opens("saveMain", [Form("saveMain", 0) EXCEPT !.x = xs, !.arg = arg])
      BY <3>2, <3>4
    <3>5. CASE \E r, xs, arg, seen : Opens("saveMain", [Form("saveMain", r) EXCEPT !.x = xs, !.arg = arg, !.seen = seen])
      BY <3>3, <3>5
    <3>. QED
      BY <3>1, <3>4, <3>5
  <2>5. CASE OpenImport
    <3>1. Opens("import", [Form("import", 0) EXCEPT !.step = "dialog"])
      BY <2>5 DEF OpenImport
    <3>2. [Form("import", 0) EXCEPT !.step = "dialog"].kind = "import"
      BY <1>2
    <3>. QED
      BY <3>1, <3>2
  <2>6. CASE OpenClaim \/ OpenCopy
    <3>1. \E r, arg : \/ Opens("claim", [Form("claim", r) EXCEPT !.arg = arg])
                      \/ Opens("codes", [Form("codes", r) EXCEPT !.arg = arg])
      BY <2>6 DEF OpenClaim, OpenCopy
    <3>2. \A r, arg : /\ [Form("claim", r) EXCEPT !.arg = arg].kind = "claim"
                      /\ [Form("codes", r) EXCEPT !.arg = arg].kind = "codes"
      BY <1>2
    <3>. QED
      BY <3>1, <3>2
  <2>7. CASE OpenCode
    <3>1. PICK r : Opens("read", Form("code", r))
      BY <2>7 DEF OpenCode
    <3>. QED
      BY <1>2, <3>1
  <2>. QED
    BY <2>1, <2>2, <2>3, <2>4, <2>5, <2>6, <2>7 DEF Opening
<1>. QED
  BY <1>1, <1>3, FormOpens

(* Forms opened, filled in, sent and closed.                                *)
LEMMA DrawerCodes ==
  ASSUME IInv, CodesOK, IInv', Opening \/ Close \/ Submit \/ Again \/ Review \/ Agree \/ UNCHANGED vars
  PROVE  CodesOK'
<1>1. IsForm(drawer) /\ drawer.kind # "mails" /\ ServiceOK /\ ServiceOK' /\ asked \in Nat
  BY DEF IInv, DeskOK, FormOK, ServiceOK, WorldOK, CodesOK, ShownOK
<1>2. CASE Opening
  BY <1>2, OpeningEases, RestCodes DEF Drops
<1>3. CASE Close \/ Again \/ Review \/ UNCHANGED vars
  <2>1. /\ SomebodysWork /\ UNCHANGED <<calls, asked, replies, page, cells, cache, heard, news>>
        /\ \/ drawer' = drawer \/ drawer' = Closed \/ \E step : drawer' = [drawer EXCEPT !.step = step]
    BY <1>3 DEF Close, Again, Review, vars, service, SomebodysWork
  <2>2. Eases
    BY <1>1, <2>1, EasesOn
  <2>. QED
    BY <2>1, <2>2, RestCodes DEF Drops
<1>4. CASE Submit
  <2>1. PICK op : op = Asks[drawer.kind]
    OBVIOUS
  <2>2. op # "mails"
    BY <1>4, <2>1 DEF Submit, Asks
  <2>3. PICK c : c = Call("me", op, drawer.r, drawer.to, {}, drawer.arg, NoSeen)
    OBVIOUS
  <2>4. Arrive(Call("me", op, drawer.r, drawer.to, {}, drawer.arg, NoSeen)) /\ heard' = heard
    BY <1>4, <2>1 DEF Submit
  <2>5. Follows
    BY <1>1, <2>2, <2>4, ArriveFollows
  <2>6. asked' = asked + 1 /\ book' = book
    BY <2>4 DEF Arrive, Call
  <2>7. Eases
    BY <1>1, <1>4, EasesOn DEF Submit
  <2>. QED
    BY <1>4, <2>5, <2>6, <2>7, AskingCodes DEF Submit
<1>5. CASE Agree
  <2>1. CASE ~StillCurrent
    <3>1. /\ SomebodysWork /\ UNCHANGED <<calls, asked, replies, page, cells, cache, heard, news>>
          /\ drawer' = [drawer EXCEPT !.step = "failed"]
      BY <1>5, <2>1 DEF Agree, service, SomebodysWork
    <3>2. Eases
      BY <1>1, <3>1, EasesOn
    <3>. QED
      BY <3>1, <3>2, RestCodes DEF Drops
  <2>2. CASE StillCurrent
    <3>1. /\ UNCHANGED <<page, cells, cache, heard, news>>
          /\ drawer' = [drawer EXCEPT !.step = "sent", !.n = asked + 1]
      BY <1>5, <2>2 DEF Agree
    <3>2. Eases
      BY <1>1, <3>1, EasesOn
    <3>3. Follows /\ asked' = asked + 1 /\ book' = book
      <4>1. CASE drawer.kind \in Reviewed
        <5>1. Confirm("me", drawer.kind, drawer.token)
          BY <1>5, <2>2, <4>1 DEF Agree
        <5>2. Follows
          BY <1>1, <3>1, <4>1, <5>1, ConfirmFollows
        <5>. QED
          BY <5>1, <5>2 DEF Confirm
      <4>2. CASE drawer.kind \notin Reviewed
        <5>1. Arrive(Call("me", drawer.kind, drawer.r, drawer.to, drawer.x, drawer.arg, drawer.seen))
          BY <1>5, <2>2, <4>2 DEF Agree
        <5>2. Follows
          BY <1>1, <3>1, <5>1, ArriveFollows
        <5>. QED
          BY <5>1, <5>2 DEF Arrive, Call
      <4>. QED
        BY <4>1, <4>2
    <3>. QED
      BY <3>1, <3>2, <3>3, AskingCodes
  <2>. QED
    BY <2>1, <2>2
<1>. QED
  BY <1>2, <1>3, <1>4, <1>5

(* Answers that change the drawer only, and the list of mails.              *)
LEMMA OtherAnswers ==
  ASSUME IInv, CodesOK, IInv', NEW a \in replies, HearReview(a) \/ HearEligible(a) \/ HearCodes(a) \/ HearMails(a)
  PROVE  CodesOK'
<1>1. IsForm(drawer) /\ drawer.kind # "mails"
  BY DEF IInv, DeskOK, FormOK, CodesOK, ShownOK
<1>2. /\ SomebodysWork /\ UNCHANGED <<calls, asked, page, cells, cache, heard, news>> /\ replies' \subseteq replies
      /\ \/ drawer' = drawer \/ drawer' = Closed \/ \E step : drawer' = [drawer EXCEPT !.step = step]
         \/ \E step, token : drawer' = [drawer EXCEPT !.step = step, !.token = token]
  <2>1. /\ SomebodysWork /\ UNCHANGED <<calls, asked, page, cells, cache, heard, news>>
        /\ replies' \subseteq replies
    BY DEF HearReview, HearEligible, HearCodes, HearMails
  <2>2. \/ drawer' = drawer \/ drawer' = Closed
        \/ drawer' = [drawer EXCEPT !.step = "dialog"] \/ drawer' = [drawer EXCEPT !.step = "failed"]
        \/ drawer' = [drawer EXCEPT !.step = "dialog", !.token = a.value]
    BY DEF HearReview, HearEligible, HearCodes, HearMails
  <2>. QED
    BY <2>1, <2>2
<1>3. Eases
  BY <1>1, <1>2, EasesOn
<1>. QED
  BY <1>2, <1>3, RestCodes DEF Drops

LEMMA MailsCodes ==
  ASSUME IInv, CodesOK, IInv', OpenMails \/ \E a \in replies : HearAssigned(a)
  PROVE  CodesOK'
<1>1. IsForm(drawer) /\ drawer.kind # "mails"
  BY DEF IInv, DeskOK, FormOK, CodesOK, ShownOK
<1>2. CASE OpenMails
  <2>1. SomebodysWork /\ UNCHANGED <<replies, page, cells, cache, drawer, heard, news>> /\ Lists(1)
    BY <1>2 DEF OpenMails
  <2>2. Eases
    BY <1>1, <2>1, EasesOn
  <2>. QED
    BY <2>1, <2>2, ListsCodes DEF Drops
<1>3. ASSUME NEW a \in replies, HearAssigned(a) PROVE CodesOK'
  <2>1. /\ SomebodysWork /\ UNCHANGED <<page, cells, heard, news>> /\ replies' \subseteq replies
        /\ Lists(0) \/ UNCHANGED <<calls, asked>>
        /\ \/ drawer' = drawer \/ drawer' = Closed \/ \E step : drawer' = [drawer EXCEPT !.step = step]
    <3>1. /\ SomebodysWork /\ UNCHANGED <<page, cells, heard, news>> /\ replies' \subseteq replies
          /\ Lists(0) \/ UNCHANGED <<calls, asked>>
      BY <1>3 DEF HearAssigned
    <3>2. drawer' = drawer \/ drawer' = Closed \/ drawer' = [drawer EXCEPT !.step = "failed"]
      BY <1>3 DEF HearAssigned
    <3>. QED
      BY <3>1, <3>2
  <2>2. Drops(cache')
    BY <1>3 DEF HearAssigned, AfterWrite, Drops
  <2>3. Eases
    BY <1>1, <2>1, EasesOn
  <2>. QED
    BY <2>1, <2>2, <2>3, ListsCodes, RestCodes
<1>. QED
  BY <1>2, <1>3

(* Changes announced: what the page holds may be out of date now.           *)
LEMMA AnnounceCodes ==
  ASSUME IInv, CodesOK, IInv', Announce
  PROVE  CodesOK'
<1>1. /\ UNCHANGED <<up, book, calls, asked, replies, record, page, cells, drawer>>
      /\ heard' = [book |-> book.version, record |-> record.count]
      /\ \/ news' = TRUE /\ cache' = Forgotten(cache)
         \/ UNCHANGED <<news, cache>> /\ ~(record.count > heard.record)
  BY DEF Announce, service, Announced, AfterNews
<1>2. /\ LogOK /\ (\A c \in calls : MakesOK(c)) /\ (\A a \in replies : GivenOK(a)) /\ ShownOK
  BY DEF CodesOK
<1>3. LogOK'
  <2>1. heard'.record = record.count /\ record.count \in Nat
    BY <1>1, <1>2 DEF LogOK
  <2>. QED
    BY <1>1, <1>2, <2>1 DEF LogOK
<1>4. (\A c \in calls' : MakesOK(c)') /\ (\A a \in replies' : GivenOK(a)')
  BY <1>1, <1>2 DEF MakesOK, LookedUp, GivenOK, CodeOf
<1>5. ASSUME NEW r, NEW v
      PROVE  (Sound(r, v) => Sound(r, v)') /\ (~(record.count > heard.record) /\ Timely(r, v) => Timely(r, v)')
  BY <1>1 DEF Sound, Shown, CodeOf, Timely, Untold, LoggedFor
<1>6. CASE news' = TRUE /\ cache' = Forgotten(cache)
  <2>1. PICK kept : kept = Forgotten(cache)
    OBVIOUS
  <2>2. DOMAIN cells = Aliases(page.rows) /\ DOMAIN kept = Aliases(page.rows)
    BY <1>2, <2>1 DEF ShownOK, Forgotten
  <2>3. ASSUME NEW r \in Aliases(page.rows)
        PROVE  /\ kept[r].shot = Shot(page.rows, r) /\ EntryOK(r, kept[r])' /\ PendingOK(r, kept[r].pending)'
               /\ CellOK(r, cells[r], kept[r])'
    <3>1. PICK e : e = cache[r]
      OBVIOUS
    <3>2. PICK f : f = kept[r]
      OBVIOUS
    <3>3. EntryOK(r, e) /\ f = [e EXCEPT !.stale = TRUE, !.pending = 0] /\ CellOK(r, cells[r], e)
      BY <1>2, <2>1, <3>1, <3>2 DEF ShownOK, Forgotten
    <3>4. EntryOK(r, f) /\ f.shot = e.shot /\ f.pending = 0 /\ f.stale
      <4>1. EntryOK(r, f) /\ KeptFrom(e, f) /\ f.pending = 0 /\ f.stale
        <5>1. Forgets(e, f)
          BY <3>3 DEF Forgets
        <5>. QED
          BY <3>3, <5>1, ForgottenEntry
      <4>. QED
        BY <4>1 DEF KeptFrom
    <3>5. EntryOK(r, f)' /\ PendingOK(r, f.pending)'
      BY <3>4 DEF EntryOK, PendingOK
    <3>6. CellOK(r, cells[r], f)'
      BY <1>1, <1>5, <1>6, <3>3, <3>4 DEF CellOK
    <3>. QED
      BY <1>2, <3>1, <3>2, <3>4, <3>5, <3>6 DEF ShownOK
  <2>4. ShownOK'
    <3>1. page' = page /\ cells' = cells /\ drawer' = drawer /\ cache' = kept
      BY <1>1, <1>6, <2>1
    <3>2. drawer.kind = "result" => drawer.r \in DOMAIN book.rows /\ drawer.value \in Nat /\ drawer.value <= CodeOf(drawer.r)'
      BY <1>1, <1>2 DEF ShownOK, CodeOf
    <3>3. drawer.kind # "mails"
      BY <1>2 DEF ShownOK
    <3>. QED
      BY <1>1, <2>2, <2>3, <3>1, <3>2, <3>3 DEF ShownOK
  <2>. QED
    BY <1>3, <1>4, <2>4 DEF CodesOK
<1>7. CASE UNCHANGED <<news, cache>> /\ ~(record.count > heard.record)
  <2>1. ASSUME NEW r \in Aliases(page.rows)
        PROVE  /\ EntryOK(r, cache[r])' /\ PendingOK(r, cache[r].pending)' /\ CellOK(r, cells[r], cache[r])'
    <3>1. EntryOK(r, cache[r]) /\ PendingOK(r, cache[r].pending) /\ CellOK(r, cells[r], cache[r])
      BY <1>2 DEF ShownOK
    <3>2. EntryOK(r, cache[r])'
      BY <1>5, <1>7, <3>1 DEF EntryOK
    <3>3. PendingOK(r, cache[r].pending)'
      BY <1>1, <1>5, <1>7, <3>1 DEF PendingOK
    <3>4. CellOK(r, cells[r], cache[r])'
      BY <1>1, <1>5, <1>7, <3>1 DEF CellOK
    <3>. QED
      BY <3>2, <3>3, <3>4
  <2>2. ShownOK'
    <3>1. page' = page /\ cells' = cells /\ drawer' = drawer /\ cache' = cache
      BY <1>1, <1>7
    <3>2. drawer.kind = "result" => drawer.r \in DOMAIN book.rows /\ drawer.value \in Nat /\ drawer.value <= CodeOf(drawer.r)'
      BY <1>1, <1>2 DEF ShownOK, CodeOf
    <3>. QED
      BY <1>1, <1>2, <2>1, <3>1, <3>2 DEF ShownOK
  <2>. QED
    BY <1>3, <1>4, <2>2 DEF CodesOK
<1>. QED
  BY <1>1, <1>6, <1>7

-----------------------------------------------------------------------------
(* Cells filled from the cache, and what it lacks asked for.                *)
UpTo(want, r) == Cardinality({s \in want : s <= r})

LEMMA UpToCounts ==
  ASSUME NEW want, want \subseteq Nat, IsFiniteSet(want)
  PROVE  /\ Cardinality(want) \in Nat
         /\ \A r \in want : UpTo(want, r) \in Nat \ {0} /\ UpTo(want, r) <= Cardinality(want)
         /\ \A r, s \in want : UpTo(want, r) = UpTo(want, s) => r = s
<1>. DEFINE T(r) == {s \in want : s <= r}
<1>1. Cardinality(want) \in Nat
  BY FS_CardinalityType
<1>2. ASSUME NEW r \in want
      PROVE  /\ UpTo(want, r) = Cardinality(T(r)) /\ IsFiniteSet(T(r)) /\ Cardinality(T(r)) \in Nat \ {0}
             /\ Cardinality(T(r)) <= Cardinality(want)
  <2>1. T(r) \subseteq want /\ r \in T(r)
    OBVIOUS
  <2>2. IsFiniteSet(T(r)) /\ Cardinality(T(r)) <= Cardinality(want)
    BY <2>1, FS_Subset
  <2>3. Cardinality(T(r)) \in Nat /\ Cardinality(T(r)) # 0
    BY <2>1, <2>2, FS_CardinalityType, FS_EmptySet
  <2>. QED
    BY <2>2, <2>3 DEF UpTo
<1>3. ASSUME NEW r \in want, NEW s \in want, r < s
      PROVE  Cardinality(T(r)) < Cardinality(T(s))
  <2>1. s \notin T(r) /\ T(r) \cup {s} \subseteq T(s)
    <3>1. r \in Nat /\ s \in Nat
      OBVIOUS
    <3>2. ASSUME NEW q \in want, q <= r PROVE q <= s
      BY <1>3, <3>1, <3>2
    <3>3. ~(s <= r) /\ s <= s
      BY <1>3, <3>1
    <3>. QED
      BY <3>2, <3>3
  <2>2. IsFiniteSet(T(r)) /\ IsFiniteSet(T(s)) /\ Cardinality(T(r)) \in Nat /\ Cardinality(T(s)) \in Nat
    BY <1>2
  <2>3. IsFiniteSet(T(r) \cup {s}) /\ Cardinality(T(r) \cup {s}) = Cardinality(T(r)) + 1
    BY <2>1, <2>2, FS_AddElement
  <2>4. Cardinality(T(r) \cup {s}) <= Cardinality(T(s))
    BY <2>1, <2>2, FS_Subset
  <2>. QED
    BY <2>2, <2>3, <2>4
<1>4. ASSUME NEW r \in want, NEW s \in want, UpTo(want, r) = UpTo(want, s)
      PROVE  r = s
  <2>1. Cardinality(T(r)) = Cardinality(T(s)) /\ Cardinality(T(r)) \in Nat
    BY <1>2, <1>4
  <2>2. ~(r < s) /\ ~(s < r)
    BY <1>3, <2>1
  <2>. QED
    BY <2>2
<1>. QED
  BY <1>1, <1>2, <1>4

Asking(pg, kept, some, refresh) == {r \in some : Wanted(Entry(pg, kept, r), refresh)}
AskedAs(want, r) == [Call("me", "read", r, 0, {}, 0, NoSeen) EXCEPT !.n = asked + UpTo(want, r)]

LEMMA LoadsShape ==
  ASSUME NEW pg, NEW kept, NEW some, NEW refresh, Loads(pg, kept, some, refresh),
         NEW want, want = Asking(pg, kept, some, refresh)
  PROVE  /\ DOMAIN cells' = Aliases(pg.rows) /\ DOMAIN cache' = Aliases(pg.rows)
         /\ calls' = calls \cup {AskedAs(want, r) : r \in want} /\ asked' = asked + Cardinality(want)
         /\ \A r \in Aliases(pg.rows) :
              /\ r \in want => cache'[r] = [Entry(pg, kept, r) EXCEPT !.pending = asked + UpTo(want, r)]
              /\ r \notin want => cache'[r] = Entry(pg, kept, r)
              /\ r \in some /\ cache'[r].pending # 0 => cells'[r] = [value |-> 0, waits |-> cache'[r].pending]
              /\ r \in some /\ cache'[r].pending = 0 => cells'[r] = [value |-> cache'[r].value, waits |-> 0]
              /\ r \notin some /\ refresh /\ r \in DOMAIN cells => cells'[r] = cells[r]
              /\ r \notin some /\ ~(refresh /\ r \in DOMAIN cells) => cells'[r] = NoCell
<1>. DEFINE number(r) == asked + Cardinality({s \in want : s <= r})
            entry(r) == IF r \in want THEN [Entry(pg, kept, r) EXCEPT !.pending = number(r)] ELSE Entry(pg, kept, r)
            cell(r) == IF entry(r).pending # 0 THEN [value |-> 0, waits |-> entry(r).pending]
                       ELSE [value |-> entry(r).value, waits |-> 0]
<1>1. /\ cache' = [r \in Aliases(pg.rows) |-> IF r \in some THEN entry(r) ELSE Entry(pg, kept, r)]
      /\ cells' = [r \in Aliases(pg.rows) |->
                     CASE r \in some -> cell(r)
                       [] r \notin some /\ refresh /\ r \in DOMAIN cells -> cells[r]
                       [] OTHER -> NoCell]
      /\ calls' = calls \cup {[Call("me", "read", r, 0, {}, 0, NoSeen) EXCEPT !.n = number(r)] : r \in want}
      /\ asked' = asked + Cardinality(want)
  BY DEF Loads, Asking
<1>2. calls' = calls \cup {AskedAs(want, r) : r \in want}
  BY <1>1 DEF AskedAs, UpTo
<1>3. want \subseteq some
  BY DEF Asking
<1>4. \A r : number(r) = asked + UpTo(want, r)
  BY DEF UpTo
<1>5. DOMAIN cells' = Aliases(pg.rows) /\ DOMAIN cache' = Aliases(pg.rows)
  BY <1>1
<1>. HIDE DEF number
<1>6. ASSUME NEW r \in Aliases(pg.rows)
      PROVE  /\ cache'[r] = entry(r)
             /\ r \in some => cells'[r] = cell(r)
             /\ r \notin some /\ refresh /\ r \in DOMAIN cells => cells'[r] = cells[r]
             /\ r \notin some /\ ~(refresh /\ r \in DOMAIN cells) => cells'[r] = NoCell
  <2>1. cache'[r] = entry(r)
    BY <1>1, <1>3
  <2>. HIDE DEF cell, entry
  <2>2. cells'[r] = CASE r \in some -> cell(r)
                      [] r \notin some /\ refresh /\ r \in DOMAIN cells -> cells[r]
                      [] OTHER -> NoCell
    BY <1>1
  <2>. QED
    BY <2>1, <2>2
<1>7. ASSUME NEW r \in Aliases(pg.rows)
      PROVE  /\ r \in want => cache'[r] = [Entry(pg, kept, r) EXCEPT !.pending = asked + UpTo(want, r)]
             /\ r \notin want => cache'[r] = Entry(pg, kept, r)
  BY <1>4, <1>6
<1>8. ASSUME NEW r \in Aliases(pg.rows), r \in some
      PROVE  cells'[r] = IF cache'[r].pending # 0 THEN [value |-> 0, waits |-> cache'[r].pending]
                         ELSE [value |-> cache'[r].value, waits |-> 0]
  <2>. HIDE DEF entry
  <2>. QED
    BY <1>6, <1>8
<1>. QED
  BY <1>1, <1>2, <1>5, <1>6, <1>7, <1>8

(* The requests made for codes follow.                                      *)
LEMMA LoadsFollow ==
  ASSUME ServiceOK, CodesOK, ServiceOK', SomebodysWork, heard' = heard, replies' \subseteq replies,
         NEW want, want \subseteq Nat, IsFiniteSet(want),
         calls' = calls \cup {AskedAs(want, r) : r \in want}, asked' = asked + Cardinality(want)
  PROVE  /\ Follows /\ asked' \in Nat /\ asked <= asked'
         /\ \A r \in want : asked + UpTo(want, r) \in Nat \ {0} /\ asked + UpTo(want, r) > asked
                              /\ asked + UpTo(want, r) <= asked'
         /\ \A c \in calls' : \A r \in want : c.n = asked + UpTo(want, r) => c.op = "read" /\ c.r = r
<1>1. asked \in Nat
  BY DEF ServiceOK, WorldOK
<1>2. PICK m \in Nat : m = Cardinality(want)
  BY UpToCounts
<1>3. ASSUME NEW r \in want
      PROVE  \E k \in Nat \ {0} : k = UpTo(want, r) /\ k <= m
  BY <1>2, UpToCounts
<1>4. \A r \in want : /\ asked + UpTo(want, r) \in Nat \ {0} /\ asked + UpTo(want, r) > asked
                      /\ asked + UpTo(want, r) <= asked + m
  BY <1>1, <1>3
<1>5. ASSUME NEW r \in want
      PROVE  LET c == AskedAs(want, r) IN
               c.n = asked + UpTo(want, r) /\ c.op = "read" /\ c.r = r /\ c.todo = {} /\ c.step = "asked"
  BY DEF AskedAs, Call
<1>6. CallsStem /\ AnswersStem
  <2>1. \A c \in {AskedAs(want, r) : r \in want} : c.n > asked
    BY <1>4, <1>5
  <2>. QED
    BY <2>1, AddedStem
<1>7. WorldOK /\ WorldOK' /\ LogOK /\ CallsMake /\ record' = record
  BY DEF ServiceOK, CodesOK, CallsMake, SomebodysWork
<1>8. Rising
  BY <1>7, SameCodes DEF SomebodysWork
<1>9. LogOK' /\ Logging
  BY <1>7, <1>8, LogStays
<1>10. CallsMake'
  <2>1. \A c \in calls : MakesOK(c)'
    BY <1>7, <1>8, MakesStay DEF CallsMake
  <2>2. ASSUME NEW c, NEW r \in want, c = AskedAs(want, r) PROVE MakesOK(c)'
    <3>1. c.op = "read"
      BY <1>5, <2>2
    <3>. QED
      BY <3>1 DEF MakesOK
  <2>3. \A c \in calls' : MakesOK(c)'
    BY <2>1, <2>2
  <2>. QED
    BY <2>3 DEF CallsMake
<1>11. ASSUME NEW c \in calls', NEW r \in want, c.n = asked + UpTo(want, r)
       PROVE  c.op = "read" /\ c.r = r
  <2>1. PICK k \in Nat \ {0} : k = UpTo(want, r)
    BY <1>3
  <2>2. c \notin calls
    <3>1. c \in calls => c.n \in Nat /\ c.n <= asked
      BY KnownCall DEF CallFits, IsCall
    <3>. QED
      BY <1>1, <1>11, <2>1, <3>1
  <2>3. PICK s \in want : c = AskedAs(want, s)
    BY <2>2
  <2>4. c.n = asked + UpTo(want, s) /\ c.op = "read" /\ c.r = s
    BY <1>5, <2>3
  <2>5. PICK j \in Nat \ {0} : j = UpTo(want, s)
    BY <1>3
  <2>6. j = k
    BY <1>1, <1>11, <2>1, <2>4, <2>5
  <2>7. r = s
    BY <2>1, <2>5, <2>6, UpToCounts
  <2>. QED
    BY <2>4, <2>7
<1>. QED
  BY <1>1, <1>2, <1>4, <1>6, <1>8, <1>9, <1>10, <1>11 DEF Follows

(* The entry of a row as it is now.                                         *)
LEMMA EntryKept ==
  ASSUME CodesOK, NEW pg, NEW kept, Drops(kept), NEW r \in Aliases(pg.rows), NEW e, e = Entry(pg, kept, r)
  PROVE  /\ EntryOK(r, e) /\ PendingOK(r, e.pending) /\ e.shot = Shot(pg.rows, r)
         /\ pg = page => KeptFrom(cache[r], e)
<1>1. DOMAIN kept = Aliases(page.rows)
  BY DEF CodesOK, ShownOK, Drops, Forgotten
<1>2. CASE r \in DOMAIN kept /\ kept[r].shot = Shot(pg.rows, r)
  <2>1. e = kept[r] /\ r \in Aliases(page.rows)
    BY <1>1, <1>2 DEF Entry
  <2>2. EntryOK(r, kept[r]) /\ PendingOK(r, kept[r].pending) /\ KeptFrom(cache[r], kept[r])
    BY <2>1, DroppedCache
  <2>. QED
    BY <1>2, <2>1, <2>2
<1>3. CASE ~(r \in DOMAIN kept /\ kept[r].shot = Shot(pg.rows, r))
  <2>1. PICK shot : shot = Shot(pg.rows, r)
    OBVIOUS
  <2>2. e = [shot |-> shot, value |-> 0, stale |-> TRUE, pending |-> 0, overtaken |-> FALSE]
    BY <1>3, <2>1 DEF Entry, NoEntry
  <2>3. EntryOK(r, e)
    BY <2>2 DEF EntryOK
  <2>4. PendingOK(r, e.pending)
    BY <2>2 DEF PendingOK
  <2>5. pg # page
    <3>1. pg = page => r \in DOMAIN kept /\ kept[r].shot = Shot(pg.rows, r)
      BY <1>1, DroppedCache
    <3>. QED
      BY <1>3, <3>1
  <2>. QED
    BY <2>1, <2>2, <2>3, <2>4, <2>5
<1>. QED
  BY <1>2, <1>3

(* What is shown after cells were filled.                                   *)
LEMMA LoadsCodes ==
  ASSUME IInv, CodesOK, IInv', SomebodysWork, heard' = heard, replies' \subseteq replies, Eases,
         NEW pg, PageOK(pg), page' = pg, NEW kept, Drops(kept),
         NEW some, some \subseteq Aliases(pg.rows) \cap pg.bound, NEW refresh, Loads(pg, kept, some, refresh),
         refresh => pg = page /\ news' = news
  PROVE  CodesOK'
<1>. DEFINE want == Asking(pg, kept, some, refresh)
<1>1. /\ WorldOK /\ WorldOK' /\ ServiceOK /\ ServiceOK' /\ LogOK /\ asked \in Nat
      /\ Before(book.rows, book'.rows) /\ RepliesOK /\ ShownOK
  BY BeforeSelf DEF IInv, ServiceOK, WorldOK, CodesOK, SomebodysWork
<1>2. want \subseteq some
  BY DEF Asking
<1>3. want \subseteq Nat /\ IsFiniteSet(want)
  <2>1. some \subseteq pg.bound
    OBVIOUS
  <2>2. some \subseteq Nat /\ IsFiniteSet(some)
    BY <2>1, PageRows
  <2>. QED
    BY <1>2, <2>2, FS_Subset
<1>4. /\ DOMAIN cells' = Aliases(pg.rows) /\ DOMAIN cache' = Aliases(pg.rows)
      /\ calls' = calls \cup {AskedAs(want, r) : r \in want} /\ asked' = asked + Cardinality(want)
  BY LoadsShape
<1>5. ASSUME NEW r \in Aliases(pg.rows)
      PROVE  /\ r \in want => cache'[r] = [Entry(pg, kept, r) EXCEPT !.pending = asked + UpTo(want, r)]
             /\ r \notin want => cache'[r] = Entry(pg, kept, r)
             /\ r \in some /\ cache'[r].pending # 0 => cells'[r] = [value |-> 0, waits |-> cache'[r].pending]
             /\ r \in some /\ cache'[r].pending = 0 => cells'[r] = [value |-> cache'[r].value, waits |-> 0]
             /\ r \notin some /\ refresh /\ r \in DOMAIN cells => cells'[r] = cells[r]
             /\ r \notin some /\ ~(refresh /\ r \in DOMAIN cells) => cells'[r] = NoCell
  BY LoadsShape
<1>6. \A r \in want : ~Wanted(Entry(pg, kept, r), refresh) => FALSE
  BY DEF Asking
<1>7. \A r \in some \ want : ~Wanted(Entry(pg, kept, r), refresh)
  BY DEF Asking
<1>. HIDE DEF want
<1>8. /\ Follows /\ asked' \in Nat /\ asked <= asked'
      /\ \A r \in want : asked + UpTo(want, r) \in Nat \ {0} /\ asked + UpTo(want, r) > asked
                           /\ asked + UpTo(want, r) <= asked'
      /\ \A c \in calls' : \A r \in want : c.n = asked + UpTo(want, r) => c.op = "read" /\ c.r = r
  BY <1>1, <1>3, <1>4, LoadsFollow
<1>9. LogOK' /\ Rising /\ Logging /\ CallsMake'
  BY <1>8 DEF Follows
<1>10. \A a \in replies' : GivenOK(a)'
  BY <1>1, <1>8, AnswersGiven
<1>11. ASSUME NEW r \in Aliases(pg.rows)
       PROVE  /\ cache'[r].shot = Shot(pg.rows, r)
              /\ EntryOK(r, cache[r])' /\ PendingOK(r, cache[r].pending)' /\ CellOK(r, cells[r], cache[r])'
  <2>0. r \in Rows
    BY PageAliases
  <2>1. PICK e : e = Entry(pg, kept, r)
    OBVIOUS
  <2>2. /\ EntryOK(r, e) /\ PendingOK(r, e.pending) /\ e.shot = Shot(pg.rows, r)
        /\ pg = page => KeptFrom(cache[r], e)
    BY <2>1, EntryKept
  <2>3. EntryOK(r, e)'
    BY <1>1, <1>9, <2>0, <2>2, EntryStays
  <2>4. PICK f : f = cache'[r]
    OBVIOUS
  <2>5. PICK cell : cell = cells'[r]
    OBVIOUS
  <2>6. e.pending \in Nat /\ e.value \in Nat
    BY <2>2 DEF EntryOK
  <2>7. CASE r \in want
    <3>1. PICK n \in Nat \ {0} : n = asked + UpTo(want, r) /\ n > asked /\ n <= asked'
      BY <1>8, <2>7
    <3>2. f = [e EXCEPT !.pending = n]
      BY <1>5, <2>1, <2>4, <2>7, <3>1
    <3>3. /\ f \in [shot : {e.shot}, value : Nat, stale : BOOLEAN, pending : Nat, overtaken : BOOLEAN]
          /\ f.shot = e.shot /\ f.value = e.value /\ f.stale = e.stale /\ f.overtaken = e.overtaken /\ f.pending = n
      BY <2>2, <3>1, <3>2 DEF EntryOK
    <3>4. EntryOK(r, f)'
      BY <2>3, <3>3 DEF EntryOK
    <3>5. PendingOK(r, n)'
      <4>1. \A c \in calls' : c.n = n => c.op = "read" /\ c.r = r
        BY <1>8, <2>7, <3>1
      <4>2. \A a \in replies' : a.n # n
        <5>1. \A a \in replies : a.n \in Nat /\ a.n <= asked
          BY <1>1 DEF RepliesOK
        <5>. QED
          BY <1>1, <3>1, <5>1
      <4>. QED
        BY <3>1, <4>1, <4>2 DEF PendingOK
    <3>6. cell = [value |-> 0, waits |-> n] /\ r \in pg.bound
      BY <1>2, <1>5, <2>4, <2>5, <2>7, <3>1, <3>3
    <3>7. CellOK(r, cell, f)'
      <4>1. cell \in [value : Nat, waits : Nat] /\ cell.value = 0 /\ r \in page'.bound
        BY <3>1, <3>6
      <4>. QED
        BY <4>1 DEF CellOK
    <3>. QED
      BY <2>2, <2>4, <2>5, <3>3, <3>4, <3>5, <3>7
  <2>8. CASE r \notin want
    <3>1. f = e
      BY <1>5, <2>1, <2>4, <2>8
    <3>2. PendingOK(r, e.pending)'
      <4>1. PICK n \in Nat : n = e.pending
        BY <2>6
      <4>2. PendingOK(r, n)
        BY <2>2, <4>1
      <4>3. PendingOK(r, n)'
        BY <1>1, <1>8, <2>0, <4>2, PendingStays
      <4>. QED
        BY <4>1, <4>3
    <3>3. CellOK(r, cell, e)'
      <4>1. CASE r \in some /\ e.pending # 0
        <5>1. cell = [value |-> 0, waits |-> e.pending] /\ r \in page'.bound
          <6>1. cache'[r] = e /\ e.pending # 0 /\ r \in some
            BY <2>4, <3>1, <4>1
          <6>2. cells'[r] = [value |-> 0, waits |-> cache'[r].pending]
            BY <1>5, <6>1
          <6>3. r \in page'.bound
            BY <6>1
          <6>. QED
            BY <2>5, <6>1, <6>2, <6>3
        <5>2. cell \in [value : Nat, waits : Nat] /\ cell.value = 0
          BY <2>6, <5>1
        <5>. QED
          BY <5>1, <5>2 DEF CellOK
      <4>2. CASE r \in some /\ e.pending = 0
        <5>1. cell = [value |-> e.value, waits |-> 0] /\ r \in page'.bound
          <6>1. cache'[r] = e /\ e.pending = 0 /\ r \in some
            BY <2>4, <3>1, <4>2
          <6>2. cells'[r] = [value |-> cache'[r].value, waits |-> 0]
            BY <1>5, <6>1
          <6>3. cells'[r] = [value |-> e.value, waits |-> 0]
            BY <6>1, <6>2
          <6>4. r \in page'.bound
            BY <6>1
          <6>. QED
            BY <2>5, <6>3, <6>4
        <5>2. cell \in [value : Nat, waits : Nat] /\ cell.value = e.value
          BY <2>6, <5>1
        <5>3. e.value # 0 /\ ~e.stale
          BY <1>7, <2>1, <2>8, <4>2 DEF Wanted
        <5>4. Sound(r, e.value)' /\ (Timely(r, e.value)' \/ e.overtaken)
          BY <2>3, <5>3 DEF EntryOK
        <5>. QED
          BY <4>2, <5>1, <5>2, <5>4 DEF CellOK
      <4>3. CASE r \notin some /\ refresh /\ r \in DOMAIN cells
        <5>1. cell = cells[r] /\ page' = page /\ news' = news /\ KeptFrom(cache[r], e) /\ r \in Aliases(page.rows)
          BY <1>5, <2>2, <2>5, <4>3
        <5>2. PICK g : g = cache[r]
          OBVIOUS
        <5>3. CellOK(r, cell, g)
          BY <1>1, <5>1, <5>2 DEF ShownOK
        <5>4. (e.pending = g.pending \/ e.pending = 0) /\ e.overtaken = g.overtaken
          BY <5>1, <5>2 DEF KeptFrom
        <5>. QED
          BY <1>1, <1>9, <2>0, <5>1, <5>3, <5>4, CellStays
      <4>4. CASE r \notin some /\ ~(refresh /\ r \in DOMAIN cells)
        <5>1. cell = NoCell
          BY <1>5, <2>5, <4>4
        <5>. QED
          BY <5>1 DEF CellOK, NoCell
      <4>. QED
        BY <4>1, <4>2, <4>3, <4>4
    <3>. QED
      BY <2>2, <2>3, <2>4, <2>5, <3>1, <3>2, <3>3
  <2>. QED
    BY <2>7, <2>8
<1>12. /\ drawer'.kind # "mails"
       /\ drawer'.kind = "result" =>
            drawer'.r \in DOMAIN book'.rows /\ drawer'.value \in Nat /\ drawer'.value <= CodeOf(drawer.r)'
  BY <1>1, <1>9, DrawerStays
<1>13. ShownOK'
  BY <1>4, <1>11, <1>12 DEF ShownOK
<1>. QED
  BY <1>9, <1>10, <1>13 DEF CodesOK, CallsMake

LEMMA RendersCodes ==
  ASSUME IInv, CodesOK, IInv', SomebodysWork, heard' = heard, replies' \subseteq replies, Eases,
         NEW pg, PageOK(pg), NEW kept, Drops(kept), Renders(pg, kept)
  PROVE  CodesOK'
<1>1. page' = pg /\ Loads(pg, kept, Aliases(pg.rows) \cap pg.bound, FALSE)
  BY DEF Renders
<1>2. PICK some : some = Aliases(pg.rows) \cap pg.bound
  OBVIOUS
<1>3. some \subseteq Aliases(pg.rows) \cap pg.bound /\ Loads(pg, kept, some, FALSE)
  BY <1>1, <1>2
<1>. QED
  BY <1>1, <1>3, LoadsCodes

(* One cell is read again.                                                  *)
LEMMA OneRead ==
  ASSUME IInv, CodesOK, IInv', SomebodysWork, UNCHANGED <<page, heard, news>>, replies' \subseteq replies, Eases,
         NEW kept, Drops(kept), NEW r \in DOMAIN cells \cap page.bound, Loads(page, kept, {r}, TRUE)
  PROVE  CodesOK'
<1>1. PICK pg : pg = page
  OBVIOUS
<1>2. PICK some : some = {r}
  OBVIOUS
<1>3. PageOK(pg) /\ page' = pg
  BY <1>1 DEF IInv, DeskOK
<1>4. some \subseteq Aliases(pg.rows) \cap pg.bound /\ Loads(pg, kept, some, TRUE)
  BY <1>1, <1>2 DEF CodesOK, ShownOK
<1>. QED
  BY <1>1, <1>3, <1>4, LoadsCodes

LEMMA RenderingCodes ==
  ASSUME IInv, CodesOK, IInv', Render \/ (\E r \in DOMAIN cells : RetryCode(r)) \/ TakeUp
  PROVE  CodesOK'
<1>1. SomebodysWork /\ UNCHANGED <<replies, drawer, heard>>
  BY DEF Render, RetryCode, TakeUp
<1>2. Eases
  BY <1>1 DEF Eases, CodesOK, ShownOK
<1>3. Drops(cache) /\ PageOK(page) /\ WorldOK
  BY DEF Drops, IInv, DeskOK, ServiceOK
<1>4. CASE Render
  BY <1>1, <1>2, <1>3, <1>4, RendersCodes DEF Render
<1>5. ASSUME NEW r \in DOMAIN cells, RetryCode(r) PROVE CodesOK'
  <2>1. r \in DOMAIN cells \cap page.bound /\ Loads(page, cache, {r}, TRUE) /\ UNCHANGED <<page, heard, news>>
    BY <1>5 DEF RetryCode
  <2>. QED
    BY <1>1, <1>2, <1>3, <2>1, OneRead
<1>6. CASE TakeUp
  <2>1. Renders(Taking(book), cache)
    BY <1>6 DEF TakeUp
  <2>2. PageOK(Taking(book))
    BY <1>3, OwnSnapshot, TakingOK
  <2>. QED
    BY <1>1, <1>2, <1>3, <2>1, <2>2, RendersCodes
<1>. QED
  BY <1>4, <1>5, <1>6

LEMMA SavedCodes ==
  ASSUME IInv, CodesOK, IInv', NEW a \in replies, HearSaved(a)
  PROVE  CodesOK'
<1>1. SomebodysWork /\ replies' \subseteq replies /\ UNCHANGED <<heard, news>>
  BY DEF HearSaved
<1>2. IsForm(drawer) /\ drawer.kind # "mails" /\ PageOK(page) /\ WorldOK
  BY DEF IInv, DeskOK, FormOK, ServiceOK, CodesOK, ShownOK
<1>3. drawer' = drawer \/ drawer' = Closed \/ drawer' = [drawer EXCEPT !.step = "failed"]
  BY DEF HearSaved
<1>4. Eases
  BY <1>2, <1>3, EasesOn
<1>5. \/ Renders(Taking(a.doc), AfterWrite(cache))
      \/ Renders(Taking(book), cache)
      \/ UNCHANGED <<page, cells, cache, calls, asked>>
  BY DEF HearSaved
<1>6. Snapshot(a.doc.rows) /\ Snapshot(book.rows)
  BY <1>2, OwnSnapshot DEF IInv, ServiceOK, RepliesOK
<1>7. Drops(cache) /\ Drops(AfterWrite(cache))
  BY DEF Drops, AfterWrite
<1>8. CASE Renders(Taking(a.doc), AfterWrite(cache))
  <2>1. PageOK(Taking(a.doc))
    BY <1>2, <1>6, TakingOK
  <2>. QED
    BY <1>1, <1>4, <1>7, <1>8, <2>1, RendersCodes
<1>9. CASE Renders(Taking(book), cache)
  <2>1. PageOK(Taking(book))
    BY <1>2, <1>6, TakingOK
  <2>. QED
    BY <1>1, <1>4, <1>7, <1>9, <2>1, RendersCodes
<1>10. CASE UNCHANGED <<page, cells, cache, calls, asked>>
  BY <1>1, <1>4, <1>7, <1>10, RestCodes
<1>. QED
  BY <1>5, <1>8, <1>9, <1>10

(* A step of the page that asks for nothing changes no code, and no request.*)
LEMMA RestFacts ==
  ASSUME IInv, CodesOK, IInv', SomebodysWork, UNCHANGED <<calls, asked, heard>>, replies' \subseteq replies
  PROVE  /\ LogOK' /\ (\A c \in calls' : MakesOK(c)') /\ (\A a \in replies' : GivenOK(a)')
         /\ \A r : CodeOf(r)' = CodeOf(r) /\ LoggedFor(r)' = LoggedFor(r)
         /\ Untold' = Untold /\ book' = book /\ asked' = asked /\ calls' = calls
<1>1. UNCHANGED <<up, book, record>>
  BY DEF SomebodysWork
<1>2. LogOK'
  BY <1>1 DEF CodesOK, LogOK
<1>3. \A c \in calls' : MakesOK(c)'
  BY <1>1 DEF CodesOK, MakesOK, LookedUp
<1>4. \A a \in replies' : GivenOK(a)'
  BY <1>1 DEF CodesOK, GivenOK, CodeOf
<1>5. \A r : CodeOf(r)' = CodeOf(r) /\ LoggedFor(r)' = LoggedFor(r)
  BY <1>1 DEF CodeOf, LoggedFor
<1>6. Untold' = Untold
  BY <1>1 DEF Untold
<1>. QED
  BY <1>1, <1>2, <1>3, <1>4, <1>5, <1>6

(* A code read arrives.                                                     *)
LEMMA CodeHeard ==
  ASSUME IInv, CodesOK, IInv', NEW a \in replies, HearCode(a)
  PROVE  CodesOK'
<1>1. /\ SomebodysWork /\ UNCHANGED <<calls, asked, page, heard, news>> /\ replies' \subseteq replies
      /\ drawer' = drawer \/ (drawer.kind = "code" /\ drawer' = [drawer EXCEPT !.step = "shown", !.value = a.value])
  BY DEF HearCode
<1>2. IsForm(drawer) /\ drawer.kind # "mails" /\ ShownOK /\ GivenOK(a)
  BY DEF IInv, DeskOK, FormOK, CodesOK, ShownOK
<1>3. /\ LogOK' /\ (\A c \in calls' : MakesOK(c)') /\ (\A b \in replies' : GivenOK(b)')
      /\ \A r : CodeOf(r)' = CodeOf(r) /\ LoggedFor(r)' = LoggedFor(r)
      /\ Untold' = Untold /\ book' = book
  BY <1>1, RestFacts
<1>4. Eases
  BY <1>1, <1>2, EasesOn
<1>5. ASSUME NEW r, NEW v
      PROVE  (Sound(r, v) => Sound(r, v)') /\ (Timely(r, v) => Timely(r, v)')
  BY <1>3, <1>4 DEF Sound, Shown, Timely, Eases
<1>. DEFINE waited(r) == cache[r].pending = a.n
            shown(r) == waited(r) /\ a.status = 200 /\ cache[r].shot = Shot(page.rows, r)
<1>6. /\ cells' = [r \in DOMAIN cells |->
                     IF cells[r].waits = a.n THEN [value |-> IF shown(r) THEN a.value ELSE 0, waits |-> 0]
                     ELSE cells[r]]
      /\ cache' = [r \in DOMAIN cache |->
                     CASE waited(r) /\ a.status = 200 ->
                            [cache[r] EXCEPT !.value = a.value, !.stale = FALSE, !.pending = 0, !.overtaken = FALSE]
                       [] waited(r) /\ a.status # 200 -> [cache[r] EXCEPT !.stale = TRUE, !.pending = 0]
                       [] OTHER -> cache[r]]
  BY DEF HearCode
<1>7. DOMAIN cells = Aliases(page.rows) /\ DOMAIN cache = Aliases(page.rows)
  BY <1>2 DEF ShownOK
<1>8. DOMAIN cells' = Aliases(page.rows) /\ DOMAIN cache' = Aliases(page.rows)
  BY <1>6, <1>7
<1>9. ASSUME NEW r \in Aliases(page.rows)
      PROVE  /\ cache'[r].shot = Shot(page.rows, r)
             /\ EntryOK(r, cache[r])' /\ PendingOK(r, cache[r].pending)' /\ CellOK(r, cells[r], cache[r])'
  <2>1. PICK e : e = cache[r]
    OBVIOUS
  <2>2. PICK f : f = cache'[r]
    OBVIOUS
  <2>3. PICK cell : cell = cells[r]
    OBVIOUS
  <2>4. PICK next : next = cells'[r]
    OBVIOUS
  <2>5. EntryOK(r, e) /\ PendingOK(r, e.pending) /\ CellOK(r, cell, e) /\ e.shot = Shot(page.rows, r)
    BY <1>2, <2>1, <2>3 DEF ShownOK
  <2>6. e \in [shot : {e.shot}, value : Nat, stale : BOOLEAN, pending : Nat, overtaken : BOOLEAN]
    BY <2>5 DEF EntryOK
  <2>7. f = CASE e.pending = a.n /\ a.status = 200 ->
                   [e EXCEPT !.value = a.value, !.stale = FALSE, !.pending = 0, !.overtaken = FALSE]
              [] e.pending = a.n /\ a.status # 200 -> [e EXCEPT !.stale = TRUE, !.pending = 0]
              [] OTHER -> e
    BY <1>6, <1>7, <2>1, <2>2
  <2>8. next = IF cell.waits = a.n
               THEN [value |-> IF e.pending = a.n /\ a.status = 200 THEN a.value ELSE 0, waits |-> 0]
               ELSE cell
    BY <1>6, <1>7, <2>1, <2>3, <2>4, <2>5
  <2>9. a.n # 0
    BY <1>2 DEF GivenOK
  <2>10. CASE e.pending = a.n /\ a.status = 200
    <3>1. Sound(r, a.value) /\ Timely(r, a.value) /\ a.value \in Nat
      BY <2>5, <2>9, <2>10 DEF PendingOK, Sound
    <3>2. f = [e EXCEPT !.value = a.value, !.stale = FALSE, !.pending = 0, !.overtaken = FALSE]
      BY <2>7, <2>10
    <3>3. /\ f \in [shot : {f.shot}, value : Nat, stale : BOOLEAN, pending : Nat, overtaken : BOOLEAN]
          /\ f.shot = e.shot /\ f.value = a.value /\ f.pending = 0
      BY <2>6, <3>1, <3>2
    <3>4. Sound(r, a.value)' /\ Timely(r, a.value)'
      BY <1>5, <3>1
    <3>5. EntryOK(r, f)'
      BY <3>3, <3>4 DEF EntryOK
    <3>6. PendingOK(r, f.pending)'
      BY <3>3 DEF PendingOK
    <3>7. CASE cell.waits = a.n
      <4>1. next = [value |-> a.value, waits |-> 0]
        BY <2>8, <2>10, <3>7
      <4>2. cell # NoCell
        BY <2>9, <3>7 DEF NoCell
      <4>3. r \in page'.bound
        BY <1>1, <2>5, <4>2 DEF CellOK
      <4>4. next \in [value : Nat, waits : Nat] /\ next.value = a.value
        BY <3>1, <4>1
      <4>5. CellOK(r, next, f)'
        BY <3>3, <3>4, <4>3, <4>4 DEF CellOK
      <4>. QED
        BY <2>2, <2>4, <2>5, <3>3, <3>5, <3>6, <4>5
    <3>8. CASE cell.waits # a.n
      <4>1. next = cell /\ cell.value = 0
        BY <2>5, <2>8, <2>9, <2>10, <3>8 DEF CellOK
      <4>2. CellOK(r, next, f)'
        BY <1>1, <2>5, <4>1 DEF CellOK
      <4>. QED
        BY <2>2, <2>4, <2>5, <3>3, <3>5, <3>6, <4>2
    <3>. QED
      BY <3>7, <3>8
  <2>11. CASE ~(e.pending = a.n /\ a.status = 200)
    <3>1. (f = e \/ f = [e EXCEPT !.stale = TRUE, !.pending = 0])
      BY <2>7, <2>11
    <3>2. EntryOK(r, f) /\ f.shot = e.shot /\ f.overtaken = e.overtaken /\ (f.pending = e.pending \/ f.pending = 0)
      <4>1. CASE f = e
        BY <2>5, <4>1
      <4>2. CASE f = [e EXCEPT !.stale = TRUE, !.pending = 0]
        <5>1. EntryOK(r, f) /\ KeptFrom(e, f) /\ f.pending = 0
          <6>1. Forgets(e, f)
            BY <2>5, <4>2 DEF Forgets
          <6>. QED
            BY <2>5, <4>2, <6>1, ForgottenEntry
        <5>. QED
          BY <5>1 DEF KeptFrom
      <4>. QED
        BY <3>1, <4>1, <4>2
    <3>3. EntryOK(r, f)'
      BY <1>5, <3>2 DEF EntryOK
    <3>4. PendingOK(r, f.pending)
      BY <2>5, <3>2 DEF PendingOK
    <3>5. PendingOK(r, f.pending)'
      BY <1>1, <1>5, <3>4 DEF PendingOK
    <3>6. CellOK(r, next, f)'
      <4>1. CASE cell.waits = a.n
        <5>1. next = [value |-> 0, waits |-> 0]
          BY <2>8, <2>11, <4>1
        <5>. QED
          BY <5>1 DEF CellOK, NoCell
      <4>2. CASE cell.waits # a.n
        <5>1. next = cell
          BY <2>8, <4>2
        <5>. QED
          BY <1>1, <1>5, <2>5, <3>2, <5>1 DEF CellOK
      <4>. QED
        BY <4>1, <4>2
    <3>. QED
      BY <2>2, <2>4, <2>5, <3>2, <3>3, <3>5, <3>6
  <2>. QED
    BY <2>10, <2>11
<1>10. /\ drawer'.kind # "mails"
       /\ drawer'.kind = "result" =>
            drawer'.r \in DOMAIN book'.rows /\ drawer'.value \in Nat /\ drawer'.value <= CodeOf(drawer.r)'
  BY <1>2, <1>3, <1>4 DEF Eases, ShownOK
<1>11. ShownOK'
  <2>1. page' = page
    BY <1>1
  <2>2. drawer'.kind = "result" => drawer'.r = drawer.r
    BY <1>4 DEF Eases
  <2>. QED
    BY <1>8, <1>9, <1>10, <2>1, <2>2 DEF ShownOK
<1>. QED
  BY <1>3, <1>11 DEF CodesOK

(* A code reset in the form that is open.                                   *)
LEMMA ResetShown ==
  ASSUME IInv, CodesOK, IInv', NEW a \in replies, HearReset(a), a.status = 200, Mine(a)
  PROVE  CodesOK'
<1>1. /\ SomebodysWork /\ UNCHANGED <<calls, asked, page, heard, news>> /\ replies' \subseteq replies
      /\ drawer' = Result(a) /\ a.op = "reset" /\ a.token # 0
  BY DEF HearReset
<1>2. ShownOK /\ GivenOK(a) /\ PageOK(page) /\ LogOK /\ WorldOK
  BY DEF CodesOK, IInv, DeskOK, ServiceOK
<1>3. /\ LogOK' /\ (\A c \in calls' : MakesOK(c)') /\ (\A b \in replies' : GivenOK(b)')
      /\ \A r : CodeOf(r)' = CodeOf(r) /\ LoggedFor(r)' = LoggedFor(r)
      /\ Untold' = Untold /\ book' = book
  BY <1>1, RestFacts
<1>4. a.r \in Rows /\ a.value \in Nat /\ a.value <= CodeOf(a.r)
  BY <1>1, <1>2 DEF GivenOK, Gives, Rows
<1>5. drawer'.kind = "result" /\ drawer'.r = a.r /\ drawer'.value = a.value
  BY <1>1 DEF Result, Closed
<1>6. DOMAIN cells = Aliases(page.rows) /\ DOMAIN cache = Aliases(page.rows)
  BY <1>2 DEF ShownOK
<1>7. PICK kept : kept = Forgotten(cache)
  OBVIOUS
<1>8. DOMAIN kept = Aliases(page.rows) /\ Drops(kept)
  BY <1>6, <1>7 DEF Forgotten, Drops
<1>9. ASSUME NEW r, NEW v
      PROVE  (r # a.r /\ Sound(r, v) => Sound(r, v)') /\ (Timely(r, v) => Timely(r, v)')
  BY <1>3, <1>5 DEF Sound, Shown, Timely
<1>10. ASSUME NEW r \in Aliases(page.rows)
       PROVE  LET f == kept[r] IN
              /\ f.shot = Shot(page.rows, r) /\ EntryOK(r, f)' /\ f.pending = 0
              /\ f \in [shot : {f.shot}, value : Nat, stale : BOOLEAN, pending : Nat, overtaken : BOOLEAN]
              /\ f.overtaken = cache[r].overtaken
  <2>1. PICK e : e = cache[r]
    OBVIOUS
  <2>2. PICK f : f = kept[r]
    OBVIOUS
  <2>3. EntryOK(r, e) /\ Forgets(e, f)
    <3>1. EntryOK(r, e)
      BY <1>2, <2>1 DEF ShownOK
    <3>2. r \in DOMAIN cache
      BY <1>6
    <3>3. Forgets(cache[r], Forgotten(cache)[r])
      BY <3>2, ForgottenAt
    <3>. QED
      BY <1>7, <2>1, <2>2, <3>1, <3>3
  <2>4. EntryOK(r, f) /\ KeptFrom(e, f) /\ f.pending = 0 /\ f.stale /\ e.shot = Shot(page.rows, r)
    <3>1. EntryOK(r, f) /\ KeptFrom(e, f) /\ f.pending = 0 /\ f.stale
      BY <2>3, ForgottenEntry
    <3>2. e.shot = Shot(page.rows, r)
      BY <1>2, <2>1 DEF ShownOK
    <3>. QED
      BY <3>1, <3>2
  <2>5. EntryOK(r, f)'
    BY <2>4 DEF EntryOK
  <2>. QED
    BY <2>1, <2>2, <2>3, <2>4, <2>5 DEF KeptFrom, EntryOK
<1>. DEFINE onPage == a.r \in DOMAIN cells \cap page.bound
            logged == record.code[page.rows[a.r].email]
            given(e) == IF e.pending # 0 THEN e
                        ELSE [e EXCEPT !.value = a.value, !.stale = FALSE, !.overtaken = (logged # a.value)]
            now == given(Entry(page, kept, a.r))
<1>11. IF ~onPage THEN cache' = kept /\ cells' = cells
       ELSE /\ cache' = [kept EXCEPT ![a.r] = now]
            /\ cells' = [cells EXCEPT ![a.r] = IF now.pending = 0 THEN [value |-> now.value, waits |-> 0]
                                               ELSE [value |-> 0, waits |-> now.pending]]
  BY <1>7 DEF HearReset, AfterWrite
<1>12. DOMAIN cells' = Aliases(page.rows) /\ DOMAIN cache' = Aliases(page.rows)
  <2>. HIDE DEF now
  <2>. QED
    BY <1>6, <1>8, <1>11
<1>13. ASSUME NEW r \in Aliases(page.rows), r # a.r \/ r \notin page.bound
       PROVE  /\ cache'[r].shot = Shot(page.rows, r)
              /\ EntryOK(r, cache[r])' /\ PendingOK(r, cache[r].pending)' /\ CellOK(r, cells[r], cache[r])'
  <2>1. PICK e : e = cache[r]
    OBVIOUS
  <2>2. PICK f : f = kept[r]
    OBVIOUS
  <2>3. PICK cell : cell = cells[r]
    OBVIOUS
  <2>4. cache'[r] = f /\ cells'[r] = cell
    <3>. HIDE DEF now
    <3>. QED
      BY <1>6, <1>8, <1>11, <1>13, <2>2, <2>3
  <2>5. CellOK(r, cell, e)
    BY <1>2, <2>1, <2>3 DEF ShownOK
  <2>6. f.shot = Shot(page.rows, r) /\ EntryOK(r, f)' /\ f.pending = 0 /\ f.overtaken = e.overtaken
    BY <1>10, <2>1, <2>2
  <2>7. PendingOK(r, f.pending)'
    BY <2>6 DEF PendingOK
  <2>8. CellOK(r, cell, f)'
    <3>1. CASE cell.value = 0
      BY <1>1, <2>5, <3>1 DEF CellOK
    <3>2. CASE cell.value # 0
      <4>1. r # a.r
        BY <1>13, <2>5, <3>2 DEF CellOK, NoCell
      <4>2. Sound(r, cell.value) /\ (Timely(r, cell.value) \/ e.overtaken \/ news)
        BY <2>5, <3>2 DEF CellOK
      <4>3. Sound(r, cell.value)' /\ (Timely(r, cell.value)' \/ f.overtaken \/ news')
        BY <1>1, <1>9, <2>6, <4>1, <4>2
      <4>. QED
        BY <1>1, <2>5, <2>6, <4>3 DEF CellOK
    <3>. QED
      BY <3>1, <3>2
  <2>. QED
    BY <2>4, <2>6, <2>7, <2>8
<1>14. ASSUME NEW r \in Aliases(page.rows), r = a.r, r \in page.bound
       PROVE  /\ cache'[r].shot = Shot(page.rows, r)
              /\ EntryOK(r, cache[r])' /\ PendingOK(r, cache[r].pending)' /\ CellOK(r, cells[r], cache[r])'
  <2>1. PICK e : e = kept[r]
    OBVIOUS
  <2>2. /\ e.shot = Shot(page.rows, r) /\ e.pending = 0
        /\ e \in [shot : {e.shot}, value : Nat, stale : BOOLEAN, pending : Nat, overtaken : BOOLEAN]
    BY <1>10, <2>1
  <2>3. Entry(page, kept, a.r) = e
    BY <1>8, <1>14, <2>1, <2>2 DEF Entry
  <2>4. PICK over \in BOOLEAN : over = (logged # a.value)
    OBVIOUS
  <2>5. PICK f : f = [e EXCEPT !.value = a.value, !.stale = FALSE, !.overtaken = over]
    OBVIOUS
  <2>6. now = f
    BY <2>2, <2>3, <2>4, <2>5
  <2>7. /\ f \in [shot : {f.shot}, value : Nat, stale : BOOLEAN, pending : Nat, overtaken : BOOLEAN]
        /\ f.shot = e.shot /\ f.value = a.value /\ f.pending = 0 /\ f.overtaken = over
    BY <1>4, <2>2, <2>5
  <2>. HIDE DEF now
  <2>8. onPage
    BY <1>6, <1>14
  <2>9. cache'[r] = f /\ cells'[r] = [value |-> a.value, waits |-> 0]
    BY <1>6, <1>8, <1>11, <1>14, <2>6, <2>7, <2>8
  <2>10. Sound(r, a.value)'
    BY <1>3, <1>4, <1>5, <1>14 DEF Sound
  <2>11. Timely(r, a.value)' \/ over
    <3>1. logged = LoggedFor(r)
      BY <1>2, <1>14, PageAliases DEF LoggedFor
    <3>2. ~over => LoggedFor(r)' = a.value
      BY <1>3, <2>4, <3>1
    <3>3. ~over => LoggedFor(r)' <= a.value
      BY <1>4, <3>2
    <3>. QED
      BY <3>3 DEF Timely
  <2>12. EntryOK(r, f)' /\ PendingOK(r, f.pending)'
    <3>1. EntryOK(r, f)'
      BY <2>7, <2>10, <2>11 DEF EntryOK
    <3>2. PendingOK(r, f.pending)'
      BY <2>7 DEF PendingOK
    <3>. QED
      BY <3>1, <3>2
  <2>. DEFINE cell == [value |-> a.value, waits |-> 0]
  <2>13. cell \in [value : Nat, waits : Nat] /\ cell.value = a.value
    BY <1>4
  <2>. HIDE DEF cell
  <2>14. CellOK(r, cell, f)'
    <3>1. r \in page'.bound
      BY <1>1, <1>14
    <3>. QED
      BY <1>4, <2>7, <2>10, <2>11, <2>13, <3>1 DEF CellOK
  <2>15. cells'[r] = cell
    BY <2>9 DEF cell
  <2>. QED
    BY <2>2, <2>7, <2>9, <2>12, <2>14, <2>15
<1>15. ShownOK'
  <2>1. page' = page
    BY <1>1
  <2>2. drawer'.r \in DOMAIN book'.rows /\ drawer'.value \in Nat /\ drawer'.value <= CodeOf(drawer.r)'
    <3>1. a.r \in DOMAIN book'.rows /\ a.value <= CodeOf(a.r)'
      BY <1>3, <1>4 DEF Rows
    <3>. QED
      BY <1>4, <1>5, <3>1
  <2>3. \A r \in Aliases(page'.rows) :
          /\ cache'[r].shot = Shot(page'.rows, r)
          /\ EntryOK(r, cache[r])' /\ PendingOK(r, cache[r].pending)' /\ CellOK(r, cells[r], cache[r])'
    BY <1>13, <1>14, <2>1
  <2>4. DOMAIN cells' = Aliases(page'.rows) /\ DOMAIN cache' = Aliases(page'.rows)
    BY <1>12, <2>1
  <2>. QED
    BY <1>5, <2>2, <2>3, <2>4 DEF ShownOK
<1>. QED
  BY <1>3, <1>15 DEF CodesOK

LEMMA ResetHeard ==
  ASSUME IInv, CodesOK, IInv', NEW a \in replies, HearReset(a)
  PROVE  CodesOK'
<1>1. SomebodysWork /\ replies' \subseteq replies /\ UNCHANGED <<page, heard, news>>
  BY DEF HearReset
<1>2. IsForm(drawer) /\ drawer.kind # "mails"
  BY DEF IInv, DeskOK, FormOK, CodesOK, ShownOK
<1>3. Drops(cache) /\ Drops(Forgotten(cache))
  BY DEF Drops
<1>4. CASE a.status = 200 /\ Mine(a)
  BY <1>4, ResetShown
<1>5. CASE a.status = 200 /\ ~Mine(a)
  <2>1. cache' = Forgotten(cache) /\ UNCHANGED <<cells, calls, asked, drawer>>
    BY <1>5 DEF HearReset, AfterWrite
  <2>2. Eases
    BY <1>2, <2>1, EasesOn
  <2>. QED
    BY <1>1, <1>3, <2>1, <2>2, RestCodes
<1>6. CASE a.status = 502 /\ Mine(a)
  <2>1. /\ drawer' = [drawer EXCEPT !.step = "failed"]
        /\ IF a.r \in DOMAIN cells \cap page.bound THEN Loads(page, Forgotten(cache), {a.r}, TRUE)
           ELSE cache' = Forgotten(cache) /\ UNCHANGED <<cells, calls, asked>>
    <3>1. ~(a.status = 200) /\ Mine(a)
      BY <1>6
    <3>2. drawer' = [drawer EXCEPT !.step = "failed"]
      BY <1>6, <3>1 DEF HearReset
    <3>3. a.r \in DOMAIN cells \cap page.bound => Loads(page, Forgotten(cache), {a.r}, TRUE)
      BY <1>6, <3>1 DEF HearReset
    <3>4. a.r \notin DOMAIN cells \cap page.bound =>
            cache' = Forgotten(cache) /\ UNCHANGED <<cells, calls, asked>>
      BY <1>6, <3>1 DEF HearReset
    <3>. QED
      BY <3>2, <3>3, <3>4
  <2>2. Eases
    BY <1>2, <2>1, EasesOn
  <2>3. CASE a.r \in DOMAIN cells \cap page.bound
    BY <1>1, <1>3, <2>1, <2>2, <2>3, OneRead
  <2>4. CASE a.r \notin DOMAIN cells \cap page.bound
    BY <1>1, <1>3, <2>1, <2>2, <2>4, RestCodes
  <2>. QED
    BY <2>3, <2>4
<1>7. CASE a.status # 200 /\ ~(a.status = 502 /\ Mine(a))
  <2>1. /\ UNCHANGED <<cells, cache, calls, asked>>
        /\ drawer' = drawer \/ drawer' = [drawer EXCEPT !.step = "failed"]
    BY <1>7 DEF HearReset
  <2>2. Eases
    BY <1>2, <2>1, EasesOn
  <2>. QED
    BY <1>1, <1>3, <2>1, <2>2, RestCodes
<1>. QED
  BY <1>4, <1>5, <1>6, <1>7

LEMMA InitCodes == Init => CodesOK
<1>. SUFFICES ASSUME Init PROVE CodesOK
  OBVIOUS
<1>1. PICK o \in Openings :
        /\ up = o.up /\ book = o.book
        /\ record = [count |-> 0, code |-> [x \in Addresses |-> o.up[x].code]]
        /\ page = [version |-> o.book.version, rows |-> o.book.rows, bound |-> BoundRows(o.book.rows)]
        /\ cells = [r \in Aliases(o.book.rows) |-> NoCell]
        /\ cache = [r \in Aliases(o.book.rows) |-> NoEntry(Shot(o.book.rows, r))]
        /\ heard = [book |-> o.book.version, record |-> 0]
  BY DEF Init
<1>2. calls = {} /\ replies = {} /\ drawer = Closed
  BY DEF Init
<1>3. LogOK
  <2>1. \A x \in Addresses : up[x].code \in Nat
    BY InitInvariant DEF IInv, ServiceOK, WorldOK, Listing
  <2>. QED
    BY <1>1, <2>1 DEF LogOK
<1>4. page.rows = o.book.rows
  BY <1>1
<1>5. ASSUME NEW r \in Aliases(page.rows)
      PROVE  /\ cache[r].shot = Shot(page.rows, r)
             /\ EntryOK(r, cache[r]) /\ PendingOK(r, cache[r].pending) /\ CellOK(r, cells[r], cache[r])
  <2>1. PICK shot : shot = Shot(page.rows, r)
    OBVIOUS
  <2>2. PICK e : e = [shot |-> shot, value |-> 0, stale |-> TRUE, pending |-> 0, overtaken |-> FALSE]
    OBVIOUS
  <2>3. cache[r] = e
    BY <1>1, <1>4, <2>1, <2>2 DEF NoEntry
  <2>4. cells[r] = NoCell
    BY <1>1, <1>4
  <2>5. EntryOK(r, e) /\ PendingOK(r, e.pending) /\ CellOK(r, NoCell, e)
    BY <2>2 DEF EntryOK, PendingOK, CellOK, NoCell
  <2>. QED
    BY <2>1, <2>2, <2>3, <2>4, <2>5
<1>6. ShownOK
  <2>1. DOMAIN cells = Aliases(page.rows) /\ DOMAIN cache = Aliases(page.rows)
    BY <1>1, <1>4
  <2>. QED
    BY <1>2, <1>5, <2>1 DEF ShownOK, Closed
<1>. QED
  BY <1>2, <1>3, <1>6 DEF CodesOK

LEMMA NextCodes ==
  ASSUME IInv, CodesOK, [Next]_vars
  PROVE  CodesOK'
<1>1. IInv'
  BY NextInvariant
<1>2. ASSUME Hearing PROVE CodesOK'
  BY <1>1, <1>2, CodeHeard, OtherAnswers, ResetHeard, MailsCodes, SavedCodes DEF Hearing
<1>3. CASE Serving /\ UNCHANGED <<Desk, heard, news>>
  BY <1>1, <1>3, ServingCodes
<1>4. CASE Render \/ (\E r \in DOMAIN cells : RetryCode(r)) \/ TakeUp
  BY <1>1, <1>4, RenderingCodes
<1>5. CASE OpenMails \/ Announce
  BY <1>1, <1>5, MailsCodes, AnnounceCodes
<1>6. CASE Opening \/ Close \/ Submit \/ Again \/ Review \/ Agree \/ UNCHANGED vars
  BY <1>1, <1>6, DrawerCodes
<1>. QED
  BY <1>2, <1>3, <1>4, <1>5, <1>6 DEF Next

(* What the tab shows of a code: a value read, or given by a reset, is one  *)
(* the address had; it is the newest the log knew of when the tab was last  *)
(* told, unless it came with a reset's answer that a later reset overtook.  *)
THEOREM CodesAreTracked == Spec => []CodesOK
  BY Invariance, InitCodes, NextCodes, PTL DEF Spec

(* A page at rest shows the code in force, and a cell next to the result of *)
(* a reset shows that code (cells filled, codes read late, resets by others *)
(* and changes announced, in any order).                                    *)
THEOREM CodesInForce == Spec => []CodesShownAreInForce
<1>1. ASSUME IInv, CodesOK PROVE CodesShownAreInForce
  <2>. SUFFICES ASSUME NEW r \in DOMAIN cells, NEW x, x = page.rows[r].email,
                       cells[r].value # 0, up[x].code = record.code[x],
                       \/ AtRest /\ ~cache[r].overtaken
                       \/ drawer.kind = "result" /\ drawer.r = r /\ drawer.value = up[x].code
                PROVE  cells[r].value = up[x].code
    BY DEF CodesShownAreInForce
  <2>1. ShownOK /\ LogOK /\ PageOK(page) /\ WorldOK /\ r \in Aliases(page.rows)
    BY <1>1 DEF CodesOK, IInv, DeskOK, ServiceOK, ShownOK
  <2>2. r \in Rows /\ x = book.rows[r].email
    BY <2>1, PageAliases
  <2>3. CellOK(r, cells[r], cache[r])
    BY <2>1 DEF ShownOK
  <2>4. /\ Sound(r, cells[r].value)
        /\ Timely(r, cells[r].value) \/ cache[r].overtaken \/ news
    BY <2>3 DEF CellOK
  <2>5. CodeOf(r) = up[x].code /\ LoggedFor(r) = up[x].code /\ CodeOf(r) \in Nat
    BY <2>1, <2>2, RowCodes DEF CodeOf, LoggedFor
  <2>6. PICK v : v = cells[r].value
    OBVIOUS
  <2>7. v \in Nat /\ v <= CodeOf(r)
    BY <2>4, <2>6 DEF Sound
  <2>8. CASE AtRest /\ ~cache[r].overtaken
    <3>1. ~news /\ ~Untold
      <4>1. ~news /\ heard.record = record.count /\ record.count \in Nat
        BY <2>1, <2>8 DEF AtRest, Announced, LogOK
      <4>. QED
        BY <4>1 DEF Untold
    <3>2. LoggedFor(r) <= v
      BY <2>4, <2>6, <2>8, <3>1 DEF Timely
    <3>. QED
      BY <2>5, <2>6, <2>7, <3>2
  <2>9. CASE drawer.kind = "result" /\ drawer.r = r /\ drawer.value = up[x].code
    <3>1. drawer.value <= v
      BY <2>4, <2>6, <2>9 DEF Sound, Shown
    <3>. QED
      BY <2>5, <2>6, <2>7, <2>9, <3>1
  <2>. QED
    BY <2>8, <2>9
<1>. QED
  BY <1>1, CodesAreTracked, Invariance, PTL

(* A claim's codes go out only while a row carries the claim, whatever      *)
(* became of it while they were looked up; and each is one that row had     *)
(* since it was asked for, the one in force if none was made in between.    *)
THEOREM CodesGivenWithClaims == Spec => CodesGoWithClaims
<1>1. ASSUME IInv, CodesOK, Next, NEW c \in calls, NEW a \in replies', c.op = "codes", a.n = c.n, a.status = 200
      PROVE  \E r \in DOMAIN book.rows : book.rows[r].claim = c.arg /\ HadSince(c, book.rows[r].email, a.value)
  <2>1. a \notin replies
    BY <1>1 DEF IInv, ServiceOK, RepliesOK
  <2>2. Serving
    BY <1>1, <2>1, NotAnsweredByPage
  <2>3. PICK d \in calls : Step(d) /\ \E status, value : Ends(d, status, value)
    BY <1>1, <2>1, <2>2, AnsweredByOthers DEF IInv
  <2>4. c = d
    <3>1. c.n = d.n
      BY <1>1, <2>1, <2>3 DEF Ends, Answered
    <3>2. CallsOK
      BY <1>1 DEF IInv, ServiceOK
    <3>. QED
      BY <1>1, <3>1, <3>2 DEF CallsOK
  <2>5. \A next : ~Goes(c, next)
    BY <2>1 DEF Goes
  <2>6. CopyCodes(c)
    <3>1. ~(\E m \in c.todo : Change(c, m)) /\ ~ReadCatalog(c)
      BY <2>5 DEF Change, ReadCatalog
    <3>2. ~CheckClaim(c)
      <4>1. \A value : a \in Answered(c, 409, value) => a.status = 409
        BY <2>1 DEF Answered
      <4>2. ~Ends(c, 409, 0)
        BY <1>1, <2>1, <4>1 DEF Ends
      <4>3. CheckClaim(c) => Ends(c, 409, 0) \/ \E next : Goes(c, next)
        BY DEF CheckClaim
      <4>. QED
        BY <2>5, <4>2, <4>3
    <3>. QED
      BY <1>1, <2>3, <2>4, <3>1, <3>2 DEF Step, At, Reviewed, ReadCode, PrepareReset, ConfirmReset, LookForMail, AssignMail,
         Changed, FindMailbox, VerifyCode, FindRows, ReadMails, ConfirmMailbox, AnswerPublic, LookForMain,
         LookForAliases, LookAgain, LookForMains, SaveMain, ImportMains, CheckEligibility, Claim
  <2>7. PICK r \in Held(c) : Ends(c, 200, c.catalog[book.rows[r].bound].code)
    <3>1. \A value : a \in Answered(c, 409, value) => a.status = 409
      BY <2>1 DEF Answered
    <3>. QED
      BY <1>1, <2>1, <2>6, <3>1 DEF CopyCodes, Ends
  <2>8. a.value = c.catalog[book.rows[r].bound].code
    <3>1. PICK value : value = c.catalog[book.rows[r].bound].code
      OBVIOUS
    <3>2. \A b \in Answered(c, 200, value) : b \notin replies => b.value = value
      BY DEF Answered
    <3>. QED
      BY <2>1, <2>7, <3>1, <3>2 DEF Ends
  <2>9. r \in DOMAIN book.rows /\ book.rows[r].claim = c.arg /\ Bound(book.rows, r)
    BY <2>7 DEF Held, Extractable, MatchedAlias, Serves, Bound
  <2>10. book.rows[r].bound = book.rows[r].email /\ book.rows[r].email \in Addresses
    <3>1. RowsOK(book.rows)
      BY <1>1 DEF IInv, ServiceOK, WorldOK
    <3>. QED
      BY <2>9, <3>1, RowTypes
  <2>11. LookedUp(c) /\ c.step # "asked"
    BY <1>1, <2>6 DEF CodesOK, MakesOK, CopyCodes, At
  <2>. QED
    BY <2>8, <2>9, <2>10, <2>11 DEF LookedUp, HadSince
<1>2. IInv /\ CodesOK /\ [Next]_vars => [GivenWithClaim]_vars
  BY <1>1 DEF GivenWithClaim
<1>. QED
  BY <1>2, Invariance, CodesAreTracked, PTL DEF Spec, CodesGoWithClaims
=============================================================================
