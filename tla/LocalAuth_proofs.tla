-------------------------- MODULE LocalAuth_proofs --------------------------
(***************************************************************************)
(* Proofs about LocalAuth for every set of employees, processes, pages and *)
(* passwords, every lifetime and every bound.                              *)
(*                                                                         *)
(* A request is trusted only for what it read itself: a log-in for the     *)
(* password it compared at a session version (TrueLogin), a change for     *)
(* the accounts it put together under the lock (TrueCopy).  The argument   *)
(* is that the lock keeps the second true until it is written, and that    *)
(* whatever is written moves a session version on when it makes the first  *)
(* untrue.                                                                 *)
(***************************************************************************)
EXTENDS LocalAuth, FiniteSetTheorems, TLAPS

(***************************************************************************)
(* Types                                                                   *)
(***************************************************************************)
LEMMA AbsentTyped == Absent \in Employee /\ Empty \in [Ids -> Employee]
  BY DEF Absent, Empty, Employee, Roles

LEMMA HiredTyped ==
  ASSUME NEW e \in Emails \cup {""}, NEW role \in Roles \cup {"super"}, NEW w \in Passwords \cup {""}
  PROVE  Hired(e, role, w) \in Employee
  BY DEF Hired, Employee

LEMMA NoChangeTyped == NoChange \in Change
  BY DEF NoChange, Change

LEMMA ScreenTyped == Closed \in Stream /\ SignedOut \in Screen
  BY DEF Closed, SignedOut, Stream, Screen

(* What a page asks is new: nothing of it is done.                          *)
New(r) ==
  /\ r \in Asked /\ r.step = "hash" /\ ~r.matches
  /\ r.op = "create" => r.change.role \in Roles
  /\ r.op = "update" => r.id \in Ids

LEMMA RequestIsNew ==
  ASSUME TypeOK, NEW pg \in Pages, NEW p \in Processes,
         NEW op \in {"setup", "login", "logout", "nickname", "create", "update"},
         NEW id \in Ids \cup {Nobody}, NEW c \in Change, op = "create" => c.role \in Roles,
         op = "update" => id \in Ids
  PROVE  New(Request(pg, p, op, id, c))
<1>1. cookie[BrowserOf[pg]] \in Nat
  BY LocalAuthAssumption DEF TypeOK
<1>. DEFINE seen == IF id \in Ids THEN accounts[id].version ELSE 0
            r == Request(pg, p, op, id, c)
<1>2. seen \in Nat
  <2>1. CASE id \in Ids
    <3>1. accounts[id] \in Employee
      BY <2>1 DEF TypeOK
    <3>2. accounts[id].version \in Nat
      BY <3>1 DEF Employee
    <3>. QED
      BY <2>1, <3>2
  <2>. QED
    BY <2>1
<1>3. r = [page |-> pg, at |-> p, op |-> op, step |-> "hash", token |-> cookie[BrowserOf[pg]], id |-> id,
           seen |-> seen, change |-> c, session |-> 0, matches |-> FALSE, copy |-> Empty]
  BY DEF Request
<1>. HIDE DEF seen, r
<1>4. r \in Asked
  BY <1>1, <1>2, <1>3, AbsentTyped DEF Asked, Between
<1>5. r.step = "hash" /\ r.matches = FALSE /\ r.op = op /\ r.change = c /\ r.id = id
  BY <1>3
<1>6. New(r)
  BY <1>4, <1>5 DEF New
<1>. QED
  BY <1>6 DEF r

LEMMA ChangesTyped ==
  /\ NoChange \in Change /\ Credentials \subseteq Change
  /\ \A c \in Newcomers : c \in Change /\ c.role \in Roles
  /\ \A id \in Ids : Edits(id) \subseteq Change
<1>1. ASSUME NEW c \in Credentials PROVE c \in Change
  BY <1>1 DEF Credentials, Change
<1>2. ASSUME NEW c \in Newcomers PROVE c \in Change /\ c.role \in Roles
  BY <1>2, LocalAuthAssumption DEF Newcomers, Change
<1>3. ASSUME NEW id \in Ids, NEW c \in Edits(id) PROVE c \in Change
  <2>1. CASE c \in {[NoChange EXCEPT !.password = w] : w \in Passwords \ {accounts[id].password}}
    BY <2>1, NoChangeTyped DEF Change
  <2>2. CASE c = [NoChange EXCEPT !.rename = TRUE]
    BY <2>2, NoChangeTyped DEF Change
  <2>3. CASE c \in {[NoChange EXCEPT !.role = role] : role \in Roles \ {accounts[id].role}}
    BY <2>3, NoChangeTyped DEF Change
  <2>4. CASE c = [NoChange EXCEPT !.active = IF accounts[id].active THEN "off" ELSE "on"]
    BY <2>4, NoChangeTyped DEF Change
  <2>. QED
    BY <1>3, <2>1, <2>2, <2>3, <2>4 DEF Edits
<1>. QED
  BY <1>1, <1>2, <1>3, NoChangeTyped

(* A page's requests go to processes there are.                             *)
LEMMA ReachedTyped == ASSUME NEW pg \in Pages PROVE Reached(pg) \subseteq Processes
<1>1. HomeOf[pg] \in Processes
  BY LocalAuthAssumption
<1>. QED
  BY <1>1, Zenon DEF Reached

LEMMA RequestsAreNew ==
  ASSUME TypeOK, NEW pg \in Pages, NEW r \in Requests(pg)
  PROVE  New(r)
<1>1. Reached(pg) \subseteq Processes
  BY ReachedTyped
<1>2. CASE r \in Setups(pg)
  BY <1>1, <1>2, RequestIsNew, ChangesTyped DEF Setups
<1>3. CASE r \in Logins(pg)
  BY <1>1, <1>3, RequestIsNew, ChangesTyped DEF Logins
<1>4. CASE r \in Own(pg)
  <2>1. r \in {Request(pg, p, op, Nobody, NoChange) : p \in Reached(pg), op \in {"logout", "nickname"}}
    BY <1>4 DEF Own
  <2>. QED
    BY <1>1, <2>1, RequestIsNew, ChangesTyped
<1>5. CASE r \in Manages(pg)
  <2>1. CASE r \in {Request(pg, p, "create", Nobody, c) : p \in Reached(pg), c \in Newcomers}
    BY <1>1, <2>1, RequestIsNew, ChangesTyped
  <2>2. ASSUME NEW id \in Ids, r \in {Request(pg, p, "update", id, c) : p \in Reached(pg), c \in Edits(id)}
        PROVE  New(r)
    BY <1>1, <2>2, RequestIsNew, ChangesTyped
  <2>. QED
    BY <1>5, <2>1, <2>2 DEF Manages
<1>. QED
  BY <1>2, <1>3, <1>4, <1>5 DEF Requests

(* What is shown of anybody is a screen.                                    *)
LEMMA ActorsTyped ==
  ASSUME TypeOK, NEW p, NEW token
  PROVE  /\ Actors(p, token) \subseteq Ids
         /\ Swept(p, token) \subseteq sessions
  BY DEF Actors, Opened, Swept, TypeOK, Kept

LEMMA ShownTyped ==
  ASSUME TypeOK, NEW p, NEW token, NEW kept, kept \subseteq Kept
  PROVE  Shown(p, token, kept) \in Screen
<1>. DEFINE who == {s.who : s \in {s \in kept : s.token = token /\ KnownTo(p, s) /\ Live(s)}}
            id == CHOOSE id \in who : TRUE
<1>1. CASE who = {}
  BY <1>1, ScreenTyped DEF Shown
<1>2. CASE who # {}
  <2>1. id \in who
    BY <1>2
  <2>2. id \in Ids
    BY <2>1 DEF Kept
  <2>3. accounts[id].role \in Roles \cup {"super", "none"}
    BY <2>2 DEF TypeOK, Employee
  <2>4. Shown(p, token, kept) = [SignedOut EXCEPT !.who = id, !.role = accounts[id].role]
    BY <1>2 DEF Shown
  <2>. HIDE DEF id
  <2>. QED
    BY <2>2, <2>3, <2>4, ScreenTyped DEF Screen
<1>. QED
  BY <1>1, <1>2

LEMMA RefusedTyped ==
  ASSUME TypeOK, NEW r \in Asked, NEW kept, kept \subseteq Kept, NEW why, Refused(r, kept, why)
  PROVE  /\ page' \in [Pages -> Screen] /\ cookie' \in [Browsers -> Nat] /\ faults' \in Nat
         /\ requests' \subseteq requests
<1>. DEFINE shown == Shown(r.at, cookie[BrowserOf[r.page]], kept)
<1>1. shown \in Screen
  BY ShownTyped
<1>2. r.page \in Pages
  BY DEF Asked
<1>3. [page EXCEPT ![r.page] = shown] \in [Pages -> Screen]
  BY <1>1, <1>2 DEF TypeOK
<1>. HIDE DEF shown
<1>4. requests' \subseteq requests
  BY DEF Refused, Ends
<1>5. \/ page' \in {page, [page EXCEPT ![r.page] = shown]} /\ UNCHANGED <<cookie, faults>>
      \/ faults' = faults + 1 /\ UNCHANGED <<cookie, page>>
  BY DEF Refused, Lost, shown
<1>. QED
  BY <1>3, <1>4, <1>5 DEF TypeOK

LEMMA WelcomedTyped ==
  ASSUME TypeOK, NEW r \in Asked, NEW kept, kept \subseteq Kept, NEW token \in Nat,
         Welcomed(r, token, kept)
  PROVE  page' \in [Pages -> Screen] /\ cookie' \in [Browsers -> Nat] /\ faults' \in Nat
<1>. DEFINE shown == Shown(r.at, token, kept)
<1>1. shown \in Screen
  BY ShownTyped
<1>2. r.page \in Pages
  BY DEF Asked
<1>3. [page EXCEPT ![r.page] = shown] \in [Pages -> Screen]
  BY <1>1, <1>2 DEF TypeOK
<1>4. [cookie EXCEPT ![BrowserOf[r.page]] = token] \in [Browsers -> Nat]
  BY <1>2, LocalAuthAssumption DEF TypeOK
<1>. HIDE DEF shown
<1>5. \/ page' = [page EXCEPT ![r.page] = shown] /\ cookie' = [cookie EXCEPT ![BrowserOf[r.page]] = token] /\ UNCHANGED faults
      \/ faults' = faults + 1 /\ UNCHANGED <<cookie, page>>
  BY DEF Welcomed, Lost, shown
<1>. QED
  BY <1>3, <1>4, <1>5 DEF TypeOK

(***************************************************************************)
(* The invariant                                                           *)
(***************************************************************************)
(* Who is not employed never was: identities are not given twice.           *)
GoodFile(file) ==
  Readable(file) /\ \A id \in Ids : ~file[id].here => file[id] = Absent

Changed(a, b) == a.role # b.role \/ a.password # b.password

TrueSession(s) ==
  /\ s.version <= accounts[s.who].session
  /\ s.version = accounts[s.who].session =>
       s.password = accounts[s.who].password /\ s.role = accounts[s.who].role

TrueLogin(r) ==
  r.op = "login" /\ r.matches =>
    /\ r.id \in Ids /\ r.session <= accounts[r.id].session
    /\ r.session = accounts[r.id].session => accounts[r.id].password = r.change.password

TrueCopy(r) ==
  r.step = "write" => Configured /\ GoodFile(r.copy) /\ OneChange(accounts, r.copy)

HoldsLock(r) == r.step \in Between => r.op \in Changes /\ lock = r.at

InOrder(r) ==
  /\ TrueLogin(r) /\ TrueCopy(r) /\ HoldsLock(r)
  /\ r.op = "create" => r.change.role \in Roles
  /\ r.op = "update" => r.id \in Ids

Alone == \A r, q \in requests : r.step \in Between /\ q.step \in Between => r = q

Inv ==
  /\ TypeOK /\ GoodFile(accounts) /\ Alone
  /\ \A s \in sessions : TrueSession(s)
  /\ \A r \in requests : InOrder(r)

(* A step that leaves accounts and lock alone, forgets sessions and has at  *)
(* most one request go on that is in order and not under the lock.          *)
LEMMA Calm ==
  ASSUME Inv, TypeOK', UNCHANGED <<accounts, lock>>, sessions' \subseteq sessions,
         NEW q, requests' \subseteq requests \cup {q}, q \in requests \/ (q.step = "hash" /\ InOrder(q))
  PROVE  Inv'
<1>1. \A s \in sessions' : TrueSession(s)'
  BY DEF Inv, TrueSession
<1>2. \A r \in requests \cup {q} : InOrder(r)
  BY DEF Inv
<1>3. \A r \in requests' : InOrder(r)'
  BY <1>2 DEF InOrder, TrueLogin, TrueCopy, HoldsLock, Configured
<1>4. Alone'
  <2>1. "hash" \notin Between
    BY DEF Between
  <2>. QED
    BY <2>1 DEF Inv, Alone
<1>. QED
  BY <1>1, <1>3, <1>4 DEF Inv

(* Only a session version that moves on lets password or role differ.       *)
LEMMA OneChangeMovesOn ==
  ASSUME NEW old \in [Ids -> Employee], NEW new \in [Ids -> Employee], OneChange(old, new), NEW id \in Ids
  PROVE  /\ old[id].session <= new[id].session
         /\ old[id].session = new[id].session => ~Changed(old[id], new[id])
<1>1. old[id] \in Employee /\ new[id] \in Employee
  OBVIOUS
<1>2. old[id].session \in Nat /\ new[id].session \in Nat
  BY <1>1 DEF Employee
<1>3. CASE old[id] = new[id]
  BY <1>2, <1>3 DEF Changed
<1>4. CASE NextVersion(old[id], new[id])
  <2>1. \/ new[id].session = old[id].session + 1
        \/ new[id].session = old[id].session /\ ~Changed(old[id], new[id])
    BY <1>4 DEF NextVersion, Changed
  <2>. QED
    BY <1>2, <2>1
<1>. QED
  BY <1>3, <1>4 DEF OneChange

(* So what sessions and log-ins are trusted for outlives every change.      *)
LEMMA TrustOutlives ==
  ASSUME Inv, TypeOK', OneChange(accounts, accounts')
  PROVE  /\ \A s \in Kept : TrueSession(s) => TrueSession(s)'
         /\ \A r \in Asked : TrueLogin(r) => TrueLogin(r)'
<1>1. accounts \in [Ids -> Employee] /\ accounts' \in [Ids -> Employee]
  BY DEF Inv, TypeOK
<1>2. ASSUME NEW s \in Kept, TrueSession(s) PROVE TrueSession(s)'
  <2>1. s.who \in Ids /\ s.version \in Nat
    BY DEF Kept
  <2>2. accounts[s.who].session \in Nat /\ accounts'[s.who].session \in Nat
    BY <1>1, <2>1 DEF Employee
  <2>3. /\ accounts[s.who].session <= accounts'[s.who].session
        /\ accounts[s.who].session = accounts'[s.who].session => ~Changed(accounts[s.who], accounts'[s.who])
    BY <1>1, <2>1, OneChangeMovesOn
  <2>. QED
    BY <1>2, <2>1, <2>2, <2>3 DEF TrueSession, Changed
<1>3. ASSUME NEW r \in Asked, TrueLogin(r), r.op = "login", r.matches PROVE TrueLogin(r)'
  <2>1. r.id \in Ids /\ r.session \in Nat
    BY <1>3 DEF TrueLogin, Asked
  <2>2. accounts[r.id].session \in Nat /\ accounts'[r.id].session \in Nat
    BY <1>1, <2>1 DEF Employee
  <2>3. /\ accounts[r.id].session <= accounts'[r.id].session
        /\ accounts[r.id].session = accounts'[r.id].session => ~Changed(accounts[r.id], accounts'[r.id])
    BY <1>1, <2>1, OneChangeMovesOn
  <2>. QED
    BY <1>3, <2>1, <2>2, <2>3 DEF TrueLogin, Changed
<1>. QED
  BY <1>2, <1>3 DEF TrueLogin

(***************************************************************************)
(* What is put together under the lock                                     *)
(***************************************************************************)
LEMMA RowReplaced ==
  ASSUME accounts \in [Ids -> Employee], GoodFile(accounts),
         NEW id \in Ids, NEW row \in Employee, row.here, Configured \/ id = Super,
         id = Super => row.role = "super" /\ row.active, id # Super => row.role # "super",
         \A x \in Ids \ {id} : accounts[x].here => accounts[x].email # row.email,
         NextVersion(accounts[id], row),
         NEW file, file = [accounts EXCEPT ![id] = row]
  PROVE  file \in [Ids -> Employee] /\ GoodFile(file) /\ OneChange(accounts, file)
<1>1. file[id] = row /\ \A x \in Ids \ {id} : file[x] = accounts[x]
  OBVIOUS
<1>2. file \in [Ids -> Employee]
  OBVIOUS
<1>3. OneChange(accounts, file)
  BY <1>1 DEF OneChange
<1>4. file[Super].here
  BY <1>1, LocalAuthAssumption DEF Configured
<1>5. file[Super].role = "super" /\ file[Super].active
  BY <1>1, LocalAuthAssumption DEF Configured, GoodFile, Readable
<1>6. \A x \in Ids \ {Super} : file[x].role # "super"
  BY <1>1 DEF GoodFile, Readable
<1>7. ASSUME NEW i \in Ids, NEW j \in Ids, file[i].here, file[j].here, file[i].email = file[j].email
      PROVE  i = j
  <2>1. CASE i = id \/ j = id
    BY <1>1, <1>7, <2>1
  <2>2. CASE i # id /\ j # id
    BY <1>1, <1>7, <2>2 DEF GoodFile, Readable
  <2>. QED
    BY <2>1, <2>2
<1>8. \A x \in Ids : ~file[x].here => file[x] = Absent
  BY <1>1 DEF GoodFile
<1>9. GoodFile(file)
  BY <1>4, <1>5, <1>6, <1>7, <1>8 DEF GoodFile, Readable
<1>. QED
  BY <1>2, <1>3, <1>9

LEMMA FirstVersion ==
  ASSUME NEW old \in Employee, NEW new \in Employee, old.version = 0, old.session = 0,
         new.here, new.version = 1, new.session = 1
  PROVE  NextVersion(old, new)
<1>1. new.version = old.version + 1 /\ new.session = old.session + 1
  OBVIOUS
<1>. QED
  BY <1>1 DEF NextVersion

LEMMA HiredRow ==
  ASSUME NEW e \in Emails \cup {""}, NEW role \in Roles \cup {"super"}, NEW w \in Passwords \cup {""},
         NEW row, row = Hired(e, role, w)
  PROVE  /\ row \in Employee /\ row.here /\ row.active /\ row.role = role /\ row.email = e
         /\ NextVersion(Absent, row)
<1>1. row \in Employee
  BY HiredTyped
<1>2. row.here /\ row.active /\ row.role = role /\ row.email = e /\ row.version = 1 /\ row.session = 1
  BY DEF Hired
<1>3. Absent \in Employee /\ Absent.version = 0 /\ Absent.session = 0
  <2>1. Absent.version = 0 /\ Absent.session = 0
    BY DEF Absent
  <2>. QED
    BY <2>1, AbsentTyped
<1>4. NextVersion(Absent, row)
  BY <1>1, <1>2, <1>3, FirstVersion
<1>. QED
  BY <1>1, <1>2, <1>4

LEMMA EntitledAreHere ==
  ASSUME Inv, NEW r, NEW id \in Entitled(r)
  PROVE  id \in Ids /\ accounts[id].here /\ Configured
<1>1. PICK s \in sessions : s.who = id /\ Live(s)
  BY DEF Entitled, Supers, Actors, Opened
<1>2. id \in Ids
  BY <1>1 DEF Inv, TypeOK, Kept
<1>. QED
  BY <1>1, <1>2 DEF Live, Inv, GoodFile, Readable, Configured

LEMMA CreateInOrder ==
  ASSUME Inv, Configured, NEW r \in Asked, r.change.role \in Roles, NEW id \in Ids, MayCreate(r, id)
  PROVE  /\ Create(r, id) \in [Ids -> Employee]
         /\ GoodFile(Create(r, id)) /\ OneChange(accounts, Create(r, id))
<1>. DEFINE e == r.change.email
            role == r.change.role
            w == r.change.password
            row == Hired(e, role, w)
<1>1. e \in Emails \cup {""} /\ role \in Roles \cup {"super"} /\ w \in Passwords \cup {""}
  BY DEF Asked, Change
<1>2. row = Hired(e, role, w) /\ Create(r, id) = [accounts EXCEPT ![id] = row] /\ role \in Roles
  BY DEF Create
<1>. HIDE DEF e, role, w, row
<1>3. row \in Employee /\ row.here
  <2>1. row \in Employee
    BY <1>1, <1>2, HiredTyped
  <2>. QED
    BY <1>2, <2>1 DEF Hired
<1>9. row.role = role /\ row.email = e
  BY <1>2 DEF Hired
<1>4. accounts[id] = Absent /\ id # Super
  BY DEF MayCreate, Inv, GoodFile, Configured
<1>5. row.role # "super"
  BY <1>2, <1>9 DEF Roles
<1>6. \A x \in Ids \ {id} : accounts[x].here => accounts[x].email # row.email
  BY <1>9 DEF MayCreate, e
<1>7. NextVersion(accounts[id], row)
  BY <1>1, <1>2, <1>4, HiredRow
<1>8. accounts \in [Ids -> Employee] /\ GoodFile(accounts)
  BY DEF Inv, TypeOK
<1>10. (id = Super => row.role = "super" /\ row.active) /\ (id # Super => row.role # "super")
  BY <1>4, <1>5
<1>11. Create(r, id) = [accounts EXCEPT ![id] = row]
  BY <1>2
<1>. QED
  BY <1>3, <1>6, <1>7, <1>8, <1>10, <1>11, RowReplaced, Zenon

LEMMA SetNicknameInOrder ==
  ASSUME Inv, Configured, NEW id \in Ids, accounts[id].here
  PROVE  /\ SetNickname(id) \in [Ids -> Employee]
         /\ GoodFile(SetNickname(id)) /\ OneChange(accounts, SetNickname(id))
<1>. DEFINE old == accounts[id]
            row == [old EXCEPT !.nickname = TRUE, !.version = old.version + 1]
<1>1. old \in Employee
  BY DEF Inv, TypeOK
<1>2. SetNickname(id) = [accounts EXCEPT ![id] = row]
  BY DEF SetNickname
<1>3. old.version \in Nat
  BY <1>1 DEF Employee
<1>. HIDE DEF old
<1>4. row \in Employee
  <2>. DEFINE v == old.version + 1
  <2>1. v \in Nat
    BY <1>3
  <2>. HIDE DEF v
  <2>2. [old EXCEPT !.nickname = TRUE, !.version = v] \in Employee
    BY <1>1, <2>1 DEF Employee
  <2>. QED
    BY <2>2 DEF v
<1>5. /\ row.here = old.here /\ row.role = old.role /\ row.active = old.active /\ row.password = old.password
      /\ row.email = old.email /\ row.session = old.session /\ row.version = old.version + 1
  BY <1>1 DEF Employee
<1>. HIDE DEF row
<1>6. NextVersion(old, row) /\ row.here
  BY <1>5 DEF NextVersion, old
<1>7. id = Super => row.role = "super" /\ row.active
  BY <1>5 DEF Inv, GoodFile, Readable, old
<1>8. id # Super => row.role # "super"
  BY <1>5 DEF Inv, GoodFile, Readable, old
<1>9. \A x \in Ids \ {id} : accounts[x].here => accounts[x].email # row.email
  BY <1>5 DEF Inv, GoodFile, Readable, old
<1>10. accounts \in [Ids -> Employee] /\ GoodFile(accounts)
  BY DEF Inv, TypeOK
<1>11. SetNickname(id) = [accounts EXCEPT ![id] = row] /\ NextVersion(accounts[id], row)
  BY <1>2, <1>6 DEF old
<1>. QED
  BY <1>4, <1>6, <1>7, <1>8, <1>9, <1>10, <1>11, RowReplaced, Zenon

LEMMA UpdateInOrder ==
  ASSUME Inv, Configured, NEW r \in Asked, r.id \in Ids, NEW actor, MayUpdate(r, actor)
  PROVE  /\ Update(r) \in [Ids -> Employee]
         /\ GoodFile(Update(r)) /\ OneChange(accounts, Update(r))
<1>. DEFINE id == r.id
            old == accounts[id]
            role == NewRole(r)
            active == NewActive(r)
            session == IF Revokes(r) THEN old.session + 1 ELSE old.session
            password == IF r.change.password = "" THEN old.password ELSE r.change.password
            nickname == old.nickname \/ r.change.rename
            version == old.version + 1
            row == [old EXCEPT !.role = role, !.active = active, !.version = version, !.session = session,
                               !.password = password, !.nickname = nickname]
<1>1. old \in Employee
  BY DEF Inv, TypeOK
<1>2. old.version \in Nat /\ old.session \in Nat
  BY <1>1 DEF Employee
<1>3. Update(r) = [accounts EXCEPT ![id] = row]
  BY DEF Update
<1>4. /\ old.here /\ (old.role = "super" => role = "super" /\ active)
      /\ (role = "super" => old.role = "super")
  BY DEF MayUpdate
<1>5. ~Revokes(r) => role = old.role /\ active = old.active /\ password = old.password
  BY DEF Revokes
<1>6. version \in Nat /\ session \in Nat
  BY <1>2
<1>7. role \in Roles \cup {"super"}
  BY <1>1 DEF NewRole, Employee, Asked, Change
<1>8. active \in BOOLEAN
  <2>1. old.active \in BOOLEAN
    BY <1>1 DEF Employee
  <2>. QED
    BY <2>1, Zenon DEF NewActive
<1>9. password \in Passwords \cup {""}
  BY <1>1 DEF Employee, Asked, Change
<1>10. nickname \in BOOLEAN
  OBVIOUS
<1>11. session = old.session + 1 \/ (session = old.session /\ ~Revokes(r))
  OBVIOUS
<1>. HIDE DEF id, old, role, active, session, password, nickname, version
<1>12. row \in Employee
  BY <1>1, <1>6, <1>7, <1>8, <1>9, <1>10 DEF Employee
<1>13. /\ row.here = old.here /\ row.role = role /\ row.active = active /\ row.password = password
       /\ row.email = old.email /\ row.session = session /\ row.version = version
  BY <1>1 DEF Employee
<1>. HIDE DEF row
<1>14. row.here
  BY <1>4, <1>13
<1>15. NextVersion(old, row)
  <2>1. row.version = old.version + 1
    BY <1>13 DEF version
  <2>2. CASE session = old.session + 1
    BY <1>13, <1>14, <2>1, <2>2 DEF NextVersion
  <2>3. CASE session = old.session /\ ~Revokes(r)
    BY <1>4, <1>5, <1>13, <1>14, <2>1, <2>3 DEF NextVersion
  <2>. QED
    BY <1>11, <2>2, <2>3
<1>16. accounts \in [Ids -> Employee] /\ GoodFile(accounts) /\ id \in Ids
  BY DEF Inv, TypeOK, id
<1>17. id = Super => row.role = "super" /\ row.active
  BY <1>4, <1>13, <1>16 DEF GoodFile, Readable, old
<1>18. id # Super => row.role # "super"
  BY <1>4, <1>13, <1>16 DEF GoodFile, Readable, old
<1>19. \A x \in Ids \ {id} : accounts[x].here => accounts[x].email # row.email
  BY <1>4, <1>13, <1>16 DEF GoodFile, Readable, old
<1>20. NextVersion(accounts[id], row)
  BY <1>15 DEF old
<1>21. Configured \/ id = Super
  OBVIOUS
<1>. QED
  BY <1>3, <1>12, <1>14, <1>16, <1>17, <1>18, <1>19, <1>20, <1>21, RowReplaced, Zenon

(***************************************************************************)
(* Steps that leave the accounts alone                                     *)
(***************************************************************************)
LEMMA NewInOrder ==
  ASSUME NEW r, New(r)
  PROVE  r \in Asked /\ r.step = "hash" /\ InOrder(r)
  BY DEF New, InOrder, TrueLogin, TrueCopy, HoldsLock, Between

LEMMA Arrival ==
  ASSUME Inv, NEW pg \in Pages, NEW r \in Requests(pg), Arrive(r)
  PROVE  Inv'
<1>1. TypeOK /\ New(r)
  BY RequestsAreNew DEF Inv
<1>2. r \in Asked /\ r.step = "hash" /\ InOrder(r)
  BY <1>1, NewInOrder
<1>3. sent' \in Nat /\ UNCHANGED <<public, lock, now>>
  BY <1>1 DEF Arrive, TypeOK
<1>4. sessions \subseteq Kept
  BY <1>1 DEF TypeOK
<1>5. CASE LimitLogin(r)
  <2>1. /\ page' \in [Pages -> Screen] /\ cookie' \in [Browsers -> Nat] /\ faults' \in Nat
        /\ requests' \subseteq requests /\ UNCHANGED <<accounts, sessions, tokens>>
    BY <1>1, <1>2, <1>4, <1>5, RefusedTyped DEF LimitLogin
  <2>2. TypeOK'
    BY <1>1, <1>3, <2>1 DEF TypeOK
  <2>. QED
    BY <1>2, <1>3, <2>1, <2>2, Calm
<1>6. CASE BeginLogin(r)
  <2>1. UNCHANGED <<accounts, sessions, cookie, page, tokens, faults>>
    BY <1>6 DEF BeginLogin
  <2>2. \E q \in Asked : requests' = requests \cup {q} /\ q.step = "hash" /\ InOrder(q)
    <3>1. CASE Stays(r)
      BY <1>2, <3>1 DEF Stays
    <3>2. ASSUME NEW id \in Ids, accounts[id].here,
                 Stays([r EXCEPT !.id = id, !.session = accounts[id].session,
                                 !.matches = accounts[id].password = r.change.password])
          PROVE  \E q \in Asked : requests' = requests \cup {q} /\ q.step = "hash" /\ InOrder(q)
      <4>. DEFINE v == accounts[id].session
                  m == accounts[id].password = r.change.password
                  q == [r EXCEPT !.id = id, !.session = v, !.matches = m]
      <4>1. accounts[id] \in Employee
        BY <1>1 DEF TypeOK
      <4>2. v \in Nat /\ m \in BOOLEAN
        BY <4>1 DEF Employee
      <4>3. m => accounts[id].password = r.change.password
        OBVIOUS
      <4>. HIDE DEF m
      <4>4. q \in Asked
        BY <1>2, <4>2 DEF Asked
      <4>5. q.op = r.op /\ q.step = r.step /\ q.change = r.change /\ q.id = id /\ q.session = v
        BY <1>2 DEF Asked
      <4>6. q.matches = m
        BY <1>2 DEF Asked
      <4>7. requests' = requests \cup {q}
        BY <3>2 DEF Stays, m
      <4>. HIDE DEF q
      <4>8. r.op = "login"
        BY <1>6 DEF BeginLogin
      <4>9. TrueLogin(q)
        BY <4>2, <4>3, <4>5, <4>6 DEF TrueLogin
      <4>10. InOrder(q)
        BY <1>2, <4>5, <4>8, <4>9 DEF InOrder, TrueCopy, HoldsLock, Between
      <4>. QED
        BY <1>2, <4>4, <4>5, <4>7, <4>10
    <3>. QED
      BY <1>6, <3>1, <3>2 DEF BeginLogin
  <2>3. PICK q \in Asked : requests' = requests \cup {q} /\ q.step = "hash" /\ InOrder(q)
    BY <2>2
  <2>4. TypeOK'
    BY <1>1, <1>3, <2>1, <2>3 DEF TypeOK
  <2>. QED
    BY <1>3, <2>1, <2>3, <2>4, Calm
<1>7. CASE Logout(r)
  <2>1. /\ sessions' \subseteq sessions /\ requests' \subseteq requests /\ Welcomed(r, 0, sessions')
        /\ UNCHANGED <<accounts, tokens>>
    BY <1>7 DEF Logout, Ends
  <2>2. page' \in [Pages -> Screen] /\ cookie' \in [Browsers -> Nat] /\ faults' \in Nat
    BY <1>1, <1>2, <1>4, <2>1, WelcomedTyped
  <2>3. TypeOK'
    BY <1>1, <1>3, <2>1, <2>2 DEF TypeOK
  <2>. QED
    BY <1>2, <1>3, <2>1, <2>3, Calm
<1>8. CASE BeginChange(r)
  <2>1. sessions' \subseteq sessions /\ UNCHANGED <<accounts, tokens>>
    BY <1>8 DEF BeginChange, Swept
  <2>2. CASE Stays(r) /\ UNCHANGED <<cookie, page, faults>>
    <3>1. TypeOK'
      BY <1>1, <1>2, <1>3, <2>1, <2>2 DEF TypeOK, Stays
    <3>. QED
      BY <1>2, <1>3, <2>1, <2>2, <3>1, Calm DEF Stays
  <2>3. ASSUME NEW why, Refused(r, sessions', why) PROVE Inv'
    <3>1. /\ page' \in [Pages -> Screen] /\ cookie' \in [Browsers -> Nat] /\ faults' \in Nat
          /\ requests' \subseteq requests
      BY <1>1, <1>2, <1>4, <2>1, <2>3, RefusedTyped
    <3>2. TypeOK'
      BY <1>1, <1>3, <2>1, <3>1 DEF TypeOK
    <3>. QED
      BY <1>2, <1>3, <2>1, <3>1, <3>2, Calm
  <2>. QED
    BY <1>8, <2>2, <2>3 DEF BeginChange
<1>9. CASE BeginSetup(r)
  <2>1. UNCHANGED <<accounts, sessions, tokens>>
    BY <1>9 DEF BeginSetup
  <2>2. CASE Stays(r) /\ UNCHANGED <<cookie, page, faults>>
    <3>1. TypeOK'
      BY <1>1, <1>2, <1>3, <2>1, <2>2 DEF TypeOK, Stays
    <3>. QED
      BY <1>2, <1>3, <2>1, <2>2, <3>1, Calm DEF Stays
  <2>3. CASE Refused(r, sessions, "configured")
    <3>1. /\ page' \in [Pages -> Screen] /\ cookie' \in [Browsers -> Nat] /\ faults' \in Nat
          /\ requests' \subseteq requests
      BY <1>1, <1>2, <1>4, <2>3, RefusedTyped
    <3>2. TypeOK'
      BY <1>1, <1>3, <2>1, <3>1 DEF TypeOK
    <3>. QED
      BY <1>2, <1>3, <2>1, <3>1, <3>2, Calm
  <2>. QED
    BY <1>9, <2>2, <2>3 DEF BeginSetup
<1>. QED
  BY <1>5, <1>6, <1>7, <1>8, <1>9 DEF Arrive

(* Pages come and go without the accounts noticing.                         *)
LEMMA Turning ==
  ASSUME Inv, UNCHANGED <<public, accounts, lock, cookie, tokens, sent>>, sessions' \subseteq sessions,
         requests' \subseteq requests, page' \in [Pages -> Screen], {now, faults}' \subseteq Nat
  PROVE  Inv'
<1>1. TypeOK'
  BY DEF Inv, TypeOK
<1>2. CASE requests = {}
  <2>1. requests' = {} /\ Alone' /\ \A r \in requests' : InOrder(r)'
    BY <1>2 DEF Alone
  <2>2. \A s \in sessions' : TrueSession(s)'
    BY DEF Inv, TrueSession
  <2>. QED
    BY <1>1, <2>1, <2>2 DEF Inv
<1>3. ASSUME NEW q \in requests PROVE Inv'
  BY <1>1, Calm
<1>. QED
  BY <1>2, <1>3

LEMMA PagesTurn ==
  ASSUME Inv, NEW pg \in Pages, Load(pg) \/ Connect(pg) \/ Beat(pg) \/ Disconnect(pg)
  PROVE  Inv'
<1>1. TypeOK
  BY DEF Inv
<1>2. \A p, token : Swept(p, token) \subseteq sessions
  BY DEF Swept
<1>3. sessions \subseteq Kept /\ page \in [Pages -> Screen] /\ {now, faults} \subseteq Nat
  BY <1>1 DEF TypeOK
<1>4. CASE Load(pg)
  <2>1. PICK p \in Reached(pg) :
          /\ sessions' = Swept(p, cookie[BrowserOf[pg]])
          /\ page' = [page EXCEPT ![pg] = Shown(p, cookie[BrowserOf[pg]], sessions')]
    BY <1>4 DEF Load
  <2>2. sessions' \subseteq sessions
    BY <1>2, <2>1
  <2>3. Shown(p, cookie[BrowserOf[pg]], sessions') \in Screen
    BY <1>1, <1>3, <2>2, ShownTyped
  <2>4. page' \in [Pages -> Screen]
    BY <1>3, <2>1, <2>3
  <2>. QED
    BY <1>3, <1>4, <2>2, <2>4, Turning DEF Load
<1>5. CASE Connect(pg)
  <2>1. PICK p \in Reached(pg) :
          /\ sessions' = Swept(p, cookie[BrowserOf[pg]])
          /\ \/ \E id \in Actors(p, cookie[BrowserOf[pg]]) :
                  page' = [page EXCEPT ![pg].stream = [token |-> cookie[BrowserOf[pg]], who |-> id, at |-> p]]
             \/ page' = [page EXCEPT ![pg] = SignedOut]
    BY <1>5 DEF Connect
  <2>2. sessions' \subseteq sessions
    BY <1>2, <2>1
  <2>3. page' = [page EXCEPT ![pg] = SignedOut] => page' \in [Pages -> Screen]
    BY <1>3, ScreenTyped
  <2>4. ASSUME NEW id \in Actors(p, cookie[BrowserOf[pg]]),
               page' = [page EXCEPT ![pg].stream = [token |-> cookie[BrowserOf[pg]], who |-> id, at |-> p]]
        PROVE  page' \in [Pages -> Screen]
    <3>. DEFINE stream == [token |-> cookie[BrowserOf[pg]], who |-> id, at |-> p]
    <3>1. id \in Ids
      BY <1>1, ActorsTyped
    <3>2. cookie[BrowserOf[pg]] \in Nat /\ p \in Processes
      <4>1. cookie[BrowserOf[pg]] \in Nat
        BY <1>1, LocalAuthAssumption DEF TypeOK
      <4>2. p \in Reached(pg) /\ Reached(pg) \subseteq Processes
        BY <2>1, ReachedTyped, Zenon
      <4>. QED
        BY <4>1, <4>2
    <3>3. stream \in Stream
      BY <3>1, <3>2 DEF Stream
    <3>4. page' = [page EXCEPT ![pg].stream = stream]
      BY <2>4
    <3>. HIDE DEF stream
    <3>. QED
      BY <1>3, <3>3, <3>4 DEF Screen
  <2>. QED
    BY <1>3, <1>5, <2>1, <2>2, <2>3, <2>4, Turning DEF Connect
<1>6. CASE Beat(pg)
  <2>. DEFINE stream == page[pg].stream
  <2>1. /\ sessions' = Swept(stream.at, stream.token)
        /\ page' = [page EXCEPT ![pg] = Shown(stream.at, cookie[BrowserOf[pg]], sessions')]
    BY <1>6 DEF Beat
  <2>2. sessions' \subseteq sessions
    BY <1>2, <2>1
  <2>3. Shown(stream.at, cookie[BrowserOf[pg]], sessions') \in Screen
    BY <1>1, <1>3, <2>2, ShownTyped
  <2>4. page' \in [Pages -> Screen]
    BY <1>3, <2>1, <2>3
  <2>. QED
    BY <1>3, <1>6, <2>2, <2>4, Turning DEF Beat
<1>7. CASE Disconnect(pg)
  <2>1. page' = [page EXCEPT ![pg].stream = Closed] /\ faults' = faults + 1
    BY <1>7 DEF Disconnect
  <2>2. page' \in [Pages -> Screen]
    BY <1>3, <2>1, ScreenTyped DEF Screen
  <2>3. {now, faults}' \subseteq Nat
    BY <1>3, <1>7, <2>1 DEF Disconnect
  <2>. QED
    BY <1>7, <2>2, <2>3, Turning DEF Disconnect
<1>. QED
  BY <1>4, <1>5, <1>6, <1>7

LEMMA TickKeeps ==
  ASSUME Inv, Tick
  PROVE  Inv'
<1>1. page' \in [Pages -> Screen] /\ {now, faults}' \subseteq Nat
  BY DEF Tick, Inv, TypeOK
<1>. QED
  BY <1>1, Turning DEF Tick

(* What a stopped process had under way goes with it, its lock stays.       *)
LEMMA CrashKeeps ==
  ASSUME Inv, NEW p \in Processes, Crash(p)
  PROVE  Inv'
<1>1. TypeOK'
  <2>1. \A pg \in Pages : page[pg] \in Screen
    BY DEF Inv, TypeOK
  <2>2. \A pg \in Pages : [page[pg] EXCEPT !.stream = Closed] \in Screen
    BY <2>1, ScreenTyped DEF Screen
  <2>3. page' \in [Pages -> Screen]
    BY <2>1, <2>2 DEF Crash
  <2>. QED
    BY <2>3 DEF Crash, Inv, TypeOK
<1>2. requests' = {r \in requests : r.at # p} /\ accounts' = accounts /\ sessions' \subseteq sessions
  BY DEF Crash
<1>3. ASSUME NEW r \in requests' PROVE InOrder(r)'
  <2>1. r \in requests /\ r.at # p /\ InOrder(r)
    BY <1>2 DEF Inv
  <2>2. HoldsLock(r)'
    BY <2>1 DEF InOrder, HoldsLock, Crash
  <2>. QED
    BY <1>2, <2>1, <2>2 DEF InOrder, TrueLogin, TrueCopy, Configured
<1>4. \A s \in sessions' : TrueSession(s)'
  BY <1>2 DEF Inv, TrueSession
<1>. QED
  BY <1>1, <1>2, <1>3, <1>4 DEF Inv, Alone

(***************************************************************************)
(* Serving a request                                                       *)
(***************************************************************************)
(* A session is opened for what the account still is.                       *)
LEMMA EndLoginKeeps ==
  ASSUME Inv, NEW r \in requests, EndLogin(r)
  PROVE  Inv'
<1>1. TypeOK /\ r \in Asked /\ InOrder(r)
  BY DEF Inv, TypeOK
<1>2. sessions \subseteq Kept
  BY <1>1 DEF TypeOK
<1>3. CASE ~Allowed(r)
  <2>1. Refused(r, sessions, "wrong") /\ UNCHANGED <<public, accounts, lock, now, sent, sessions, tokens>>
    BY <1>3 DEF EndLogin
  <2>2. /\ page' \in [Pages -> Screen] /\ cookie' \in [Browsers -> Nat] /\ faults' \in Nat
        /\ requests' \subseteq requests
    BY <1>1, <1>2, <2>1, RefusedTyped
  <2>3. TypeOK'
    BY <1>1, <2>1, <2>2 DEF TypeOK
  <2>. QED
    BY <2>1, <2>2, <2>3, Calm
<1>4. CASE Allowed(r)
  <2>. DEFINE new == Session(r)
  <2>1. /\ sessions' = Pruned(r.at, r.token) \cup {new} /\ tokens' = tokens + 1
        /\ Ends(r) /\ Welcomed(r, tokens + 1, sessions')
        /\ UNCHANGED <<public, accounts, lock, now, sent>> /\ r.op = "login"
    BY <1>4 DEF EndLogin
  <2>2. Pruned(r.at, r.token) \subseteq sessions
    BY DEF Pruned
  <2>3. r.matches /\ r.id \in Ids /\ accounts[r.id].session = r.session
    BY <1>1, <1>4, <2>1 DEF Allowed, InOrder, TrueLogin
  <2>4. accounts[r.id] \in Employee
    BY <1>1, <2>3 DEF TypeOK
  <2>5. r.change.password = accounts[r.id].password
    BY <1>1, <2>1, <2>3 DEF InOrder, TrueLogin
  <2>6. new \in Kept
    <3>1. tokens + 1 \in Nat /\ now + Lifetime \in Nat
      <4>1. tokens \in Nat /\ now \in Nat
        BY <1>1 DEF TypeOK
      <4>2. Lifetime \in Nat
        BY LocalAuthAssumption
      <4>. QED
        BY <4>1, <4>2
    <3>2. /\ r.at \in Processes /\ r.change.password \in Passwords \cup {""}
          /\ accounts[r.id].session \in Nat /\ accounts[r.id].role \in Roles \cup {"super"}
      BY <1>1, <2>4 DEF Asked, Change, Employee
    <3>. QED
      BY <2>3, <3>1, <3>2 DEF Session, Kept
  <2>7. /\ new.who = r.id /\ new.version = accounts[r.id].session
        /\ new.password = r.change.password /\ new.role = accounts[r.id].role
    BY DEF Session
  <2>8. TrueSession(new)
    <3>1. accounts[r.id].session \in Nat
      BY <2>4 DEF Employee
    <3>. QED
      BY <2>5, <2>7, <3>1 DEF TrueSession
  <2>. HIDE DEF new
  <2>9. sessions' \subseteq Kept
    BY <1>2, <2>1, <2>2, <2>6
  <2>10. tokens' \in Nat
    BY <1>1, <2>1 DEF TypeOK
  <2>11. page' \in [Pages -> Screen] /\ cookie' \in [Browsers -> Nat] /\ faults' \in Nat
    BY <1>1, <2>1, <2>9, <2>10, WelcomedTyped
  <2>12. requests' \subseteq requests
    BY <2>1 DEF Ends
  <2>13. TypeOK'
    BY <1>1, <2>1, <2>9, <2>10, <2>11, <2>12 DEF TypeOK
  <2>14. \A s \in sessions' : TrueSession(s)'
    BY <2>1, <2>2, <2>8 DEF Inv, TrueSession
  <2>15. \A q \in requests' : InOrder(q)'
    BY <2>1, <2>12 DEF Inv, InOrder, TrueLogin, TrueCopy, HoldsLock, Configured
  <2>16. Alone'
    BY <2>12 DEF Inv, Alone
  <2>. QED
    BY <2>1, <2>13, <2>14, <2>15, <2>16 DEF Inv
<1>. QED
  BY <1>3, <1>4

LEMMA RefuseChangeKeeps ==
  ASSUME Inv, NEW r \in requests, RefuseChange(r)
  PROVE  Inv'
<1>1. TypeOK /\ r \in Asked /\ sessions \subseteq Kept
  BY DEF Inv, TypeOK
<1>2. \E kept, why : sessions' = kept /\ kept \subseteq sessions /\ Refused(r, kept, why)
  <2>1. CASE LockTaken
    BY <2>1 DEF RefuseChange
  <2>2. CASE ~LockTaken
    <3>1. sessions' = Swept(r.at, r.token) /\ \E why : Refused(r, sessions', why)
      BY <2>2 DEF RefuseChange
    <3>. QED
      BY <3>1 DEF Swept
  <2>. QED
    BY <2>1, <2>2
<1>3. PICK kept, why : sessions' = kept /\ kept \subseteq sessions /\ Refused(r, kept, why)
  BY <1>2
<1>4. /\ page' \in [Pages -> Screen] /\ cookie' \in [Browsers -> Nat] /\ faults' \in Nat
      /\ requests' \subseteq requests
  BY <1>1, <1>3, RefusedTyped
<1>5. UNCHANGED <<public, accounts, lock, now, tokens, sent>>
  BY DEF RefuseChange
<1>6. TypeOK'
  BY <1>1, <1>3, <1>4, <1>5 DEF TypeOK
<1>. QED
  BY <1>3, <1>4, <1>5, <1>6, Calm

(* Nobody else is under the lock, and what is put together there is one     *)
(* change of the accounts as they are.                                      *)
LEMMA LockAndReadKeeps ==
  ASSUME Inv, NEW r \in requests, LockAndRead(r)
  PROVE  Inv'
<1>1. TypeOK /\ r \in Asked /\ InOrder(r)
  BY DEF Inv, TypeOK
<1>2. /\ r.op \in Changes /\ r.step = "hash" /\ lock = "free" /\ lock' = r.at
      /\ UNCHANGED <<public, accounts, sessions, cookie, page, now, tokens, sent, faults>>
  BY DEF LockAndRead, LockTaken
<1>3. \A x \in requests : x.step \notin Between
  BY <1>1, <1>2, LocalAuthAssumption DEF Inv, InOrder, HoldsLock, Asked, TypeOK
<1>4. \E copy \in [Ids -> Employee] :
        /\ Proceeds(r, [r EXCEPT !.step = "write", !.copy = copy])
        /\ Configured /\ GoodFile(copy) /\ OneChange(accounts, copy)
  <2>1. CASE r.op = "create" /\ Entitled(r) # {} /\
               \E id \in Ids : MayCreate(r, id) /\ Proceeds(r, [r EXCEPT !.step = "write", !.copy = Create(r, id)])
    <3>1. Configured
      BY <2>1, EntitledAreHere
    <3>2. PICK id \in Ids : MayCreate(r, id) /\ Proceeds(r, [r EXCEPT !.step = "write", !.copy = Create(r, id)])
      BY <2>1
    <3>3. r.change.role \in Roles
      BY <1>1, <2>1 DEF InOrder
    <3>. QED
      BY <1>1, <3>1, <3>2, <3>3, CreateInOrder
  <2>2. CASE r.op = "update" /\ (\E actor \in Entitled(r) : MayUpdate(r, actor)) /\
               Proceeds(r, [r EXCEPT !.step = "write", !.copy = Update(r)])
    <3>1. PICK actor \in Entitled(r) : MayUpdate(r, actor)
      BY <2>2
    <3>2. Configured
      BY <3>1, EntitledAreHere
    <3>3. r.id \in Ids
      BY <1>1, <2>2 DEF InOrder
    <3>. QED
      BY <1>1, <2>2, <3>1, <3>2, <3>3, UpdateInOrder
  <2>3. CASE r.op = "nickname" /\
               \E id \in Entitled(r) : Proceeds(r, [r EXCEPT !.step = "write", !.copy = SetNickname(id)])
    <3>1. PICK id \in Entitled(r) : Proceeds(r, [r EXCEPT !.step = "write", !.copy = SetNickname(id)])
      BY <2>3
    <3>2. id \in Ids /\ accounts[id].here /\ Configured
      BY <3>1, EntitledAreHere
    <3>. QED
      BY <3>1, <3>2, SetNicknameInOrder
  <2>. QED
    BY <2>1, <2>2, <2>3 DEF LockAndRead
<1>5. PICK copy \in [Ids -> Employee] :
        /\ Proceeds(r, [r EXCEPT !.step = "write", !.copy = copy])
        /\ Configured /\ GoodFile(copy) /\ OneChange(accounts, copy)
  BY <1>4
<1>. DEFINE q == [r EXCEPT !.step = "write", !.copy = copy]
<1>6. requests' = (requests \ {r}) \cup {q}
  BY <1>5 DEF Proceeds
<1>7. q \in Asked
  BY <1>1, <1>5 DEF Asked, Between
<1>8. /\ q.op = r.op /\ q.at = r.at /\ q.id = r.id /\ q.change = r.change
      /\ q.step = "write" /\ q.copy = copy
  BY <1>1 DEF Asked
<1>. HIDE DEF q
<1>9. InOrder(q)'
  <2>1. q.op # "login"
    BY <1>2, <1>8 DEF Changes
  <2>2. TrueLogin(q)'
    BY <2>1 DEF TrueLogin
  <2>3. TrueCopy(q)'
    BY <1>2, <1>5, <1>8 DEF TrueCopy, Configured
  <2>4. HoldsLock(q)'
    BY <1>2, <1>8 DEF HoldsLock
  <2>. QED
    BY <1>1, <1>8, <2>2, <2>3, <2>4 DEF InOrder
<1>10. ASSUME NEW x \in requests PROVE InOrder(x)'
  <2>1. InOrder(x) /\ x.step \notin Between
    BY <1>3 DEF Inv
  <2>. QED
    BY <1>2, <2>1 DEF InOrder, TrueLogin, TrueCopy, HoldsLock, Between
<1>11. TypeOK'
  BY <1>1, <1>2, <1>6, <1>7 DEF TypeOK, Asked
<1>12. Alone'
  BY <1>3, <1>6 DEF Alone
<1>13. \A s \in sessions' : TrueSession(s)'
  BY <1>2 DEF Inv, TrueSession
<1>. QED
  BY <1>2, <1>6, <1>9, <1>10, <1>11, <1>12, <1>13 DEF Inv

(* What was put together takes the place of the accounts.                   *)
LEMMA WriteKeeps ==
  ASSUME Inv, NEW r \in requests, Write(r)
  PROVE  Inv' /\ OneChange(accounts, accounts')
<1>1. TypeOK /\ r \in Asked /\ InOrder(r)
  BY DEF Inv, TypeOK
<1>2. /\ r.step = "write" /\ accounts' = r.copy
      /\ UNCHANGED <<public, lock, sessions, cookie, page, now, tokens, sent, faults>>
  BY DEF Write
<1>3. GoodFile(r.copy) /\ OneChange(accounts, r.copy) /\ r.op \in Changes /\ lock = r.at
  BY <1>1, <1>2 DEF InOrder, TrueCopy, HoldsLock, Between
<1>. DEFINE q == [r EXCEPT !.step = "unlock"]
<1>4. requests' = (requests \ {r}) \cup {q}
  BY DEF Write, Proceeds
<1>5. q \in Asked
  BY <1>1 DEF Asked, Between
<1>6. /\ q.op = r.op /\ q.at = r.at /\ q.id = r.id /\ q.change = r.change /\ q.step = "unlock"
  BY <1>1 DEF Asked
<1>. HIDE DEF q
<1>7. \A x \in requests \ {r} : x.step \notin Between
  BY <1>2 DEF Inv, Alone, Between
<1>8. TypeOK'
  <2>1. accounts' \in [Ids -> Employee]
    BY <1>1, <1>2 DEF Asked
  <2>. QED
    BY <1>1, <1>2, <1>4, <1>5, <2>1 DEF TypeOK
<1>9. OneChange(accounts, accounts')
  BY <1>2, <1>3
<1>10. /\ \A s \in Kept : TrueSession(s) => TrueSession(s)'
       /\ \A x \in Asked : TrueLogin(x) => TrueLogin(x)'
  BY <1>8, <1>9, TrustOutlives
<1>11. \A s \in sessions' : TrueSession(s)'
  BY <1>1, <1>2, <1>10 DEF Inv, TypeOK
<1>12. ASSUME NEW x \in requests \ {r} PROVE InOrder(x)'
  <2>1. InOrder(x) /\ x \in Asked /\ x.step \notin Between
    BY <1>7 DEF Inv, TypeOK
  <2>2. TrueLogin(x)'
    BY <1>10, <2>1 DEF InOrder
  <2>. QED
    BY <2>1, <2>2 DEF InOrder, TrueCopy, HoldsLock, Between
<1>13. InOrder(q)'
  <2>1. TrueLogin(q)'
    BY <1>3, <1>6 DEF TrueLogin, Changes
  <2>. QED
    BY <1>1, <1>2, <1>3, <1>6, <2>1 DEF InOrder, TrueCopy, HoldsLock
<1>14. Alone'
  BY <1>4, <1>7 DEF Alone
<1>15. GoodFile(accounts)'
  BY <1>2, <1>3 DEF GoodFile, Readable
<1>. QED
  BY <1>4, <1>8, <1>9, <1>11, <1>12, <1>13, <1>14, <1>15 DEF Inv

LEMMA UnlockKeeps ==
  ASSUME Inv, NEW r \in requests, Unlock(r)
  PROVE  Inv'
<1>1. TypeOK /\ r \in Asked /\ sessions \subseteq Kept
  BY DEF Inv, TypeOK
<1>2. /\ r.step = "unlock" /\ lock' = "free" /\ requests' = requests \ {r}
      /\ UNCHANGED <<public, accounts, sessions, now, tokens, sent>>
  BY DEF Unlock, Ends
<1>3. page' \in [Pages -> Screen] /\ cookie' = cookie /\ faults' \in Nat
  <2>. DEFINE shown == Shown(r.at, cookie[BrowserOf[r.page]], sessions)
  <2>1. shown \in Screen
    BY <1>1, ShownTyped
  <2>2. [page EXCEPT ![r.page] = shown] \in [Pages -> Screen]
    BY <1>1, <2>1 DEF TypeOK
  <2>. HIDE DEF shown
  <2>3. \/ page' \in {page, [page EXCEPT ![r.page] = shown]} /\ UNCHANGED <<cookie, faults>>
        \/ faults' = faults + 1 /\ UNCHANGED <<cookie, page>>
    BY DEF Unlock, Lost, shown
  <2>. QED
    BY <1>1, <2>2, <2>3 DEF TypeOK
<1>4. TypeOK'
  BY <1>1, <1>2, <1>3 DEF TypeOK
<1>5. \A x \in requests \ {r} : x.step \notin Between
  BY <1>2 DEF Inv, Alone, Between
<1>6. ASSUME NEW x \in requests \ {r} PROVE InOrder(x)'
  <2>1. InOrder(x) /\ x.step \notin Between
    BY <1>5 DEF Inv
  <2>. QED
    BY <1>2, <2>1 DEF InOrder, TrueLogin, TrueCopy, HoldsLock, Between
<1>7. \A s \in sessions' : TrueSession(s)'
  BY <1>2 DEF Inv, TrueSession
<1>8. Alone'
  BY <1>2 DEF Inv, Alone
<1>. QED
  BY <1>2, <1>4, <1>6, <1>7, <1>8 DEF Inv

(* The first account is one change of a file with nobody in it.             *)
LEMMA EndSetupKeeps ==
  ASSUME Inv, NEW r \in requests, EndSetup(r)
  PROVE  Inv' /\ (accounts' # accounts => OneChange(accounts, accounts'))
<1>1. TypeOK /\ r \in Asked
  BY DEF Inv, TypeOK
<1>2. requests' \subseteq requests /\ UNCHANGED <<public, lock, sessions, cookie, page, now, tokens, sent, faults>>
  BY DEF EndSetup, Ends
<1>3. CASE Configured
  <2>1. accounts' = accounts
    BY <1>3 DEF EndSetup
  <2>2. TypeOK'
    BY <1>1, <1>2, <2>1 DEF TypeOK
  <2>. QED
    BY <1>2, <2>1, <2>2, Calm
<1>4. CASE ~Configured
  <2>. DEFINE e == EmailOf[Super]
              w == r.change.password
              row == Hired(e, "super", w)
  <2>1. accounts' = [accounts EXCEPT ![Super] = row]
    BY <1>4 DEF EndSetup
  <2>2. e \in Emails \cup {""} /\ w \in Passwords \cup {""}
    <3>1. e \in Emails
      BY LocalAuthAssumption
    <3>2. w \in Passwords \cup {""}
      BY <1>1 DEF Asked, Change
    <3>. QED
      BY <3>1, <3>2
  <2>3. row.here /\ row.role = "super" /\ row.active
    BY DEF Hired
  <2>4. row = Hired(e, "super", w)
    OBVIOUS
  <2>. HIDE DEF e, w, row
  <2>5. row \in Employee
    BY <2>2, <2>4, HiredTyped
  <2>6. NextVersion(Absent, row)
    BY <2>2, <2>4, HiredRow
  <2>7. \A x \in Ids : ~accounts[x].here
    BY <1>4 DEF Inv, GoodFile, Readable, Configured
  <2>8. Super \in Ids /\ accounts[Super] = Absent
    BY <2>7, LocalAuthAssumption DEF Inv, GoodFile
  <2>9. accounts \in [Ids -> Employee] /\ GoodFile(accounts)
    BY DEF Inv, TypeOK
  <2>10. NextVersion(accounts[Super], row)
    BY <2>6, <2>8
  <2>11. \A x \in Ids \ {Super} : accounts[x].here => accounts[x].email # row.email
    BY <2>7
  <2>12. LET file == [accounts EXCEPT ![Super] = row] IN
           file \in [Ids -> Employee] /\ GoodFile(file) /\ OneChange(accounts, file)
    BY <2>3, <2>5, <2>8, <2>9, <2>10, <2>11, RowReplaced, Zenon
  <2>13. accounts' \in [Ids -> Employee] /\ GoodFile(accounts') /\ OneChange(accounts, accounts')
    BY <2>1, <2>12
  <2>14. TypeOK'
    BY <1>1, <1>2, <2>13 DEF TypeOK
  <2>15. /\ \A s \in Kept : TrueSession(s) => TrueSession(s)'
         /\ \A x \in Asked : TrueLogin(x) => TrueLogin(x)'
    BY <2>13, <2>14, TrustOutlives
  <2>16. \A s \in sessions' : TrueSession(s)'
    BY <1>1, <1>2, <2>15 DEF Inv, TypeOK
  <2>17. ASSUME NEW x \in requests PROVE InOrder(x)'
    <3>1. InOrder(x) /\ x \in Asked
      BY DEF Inv, TypeOK
    <3>2. TrueLogin(x)'
      BY <2>15, <3>1 DEF InOrder
    <3>3. x.step # "write"
      BY <1>4, <3>1 DEF InOrder, TrueCopy
    <3>. QED
      BY <1>2, <3>1, <3>2, <3>3 DEF InOrder, TrueCopy, HoldsLock
  <2>18. Alone' /\ GoodFile(accounts)'
    BY <1>2, <2>13 DEF Inv, Alone, GoodFile, Readable
  <2>. QED
    BY <1>2, <2>13, <2>14, <2>16, <2>17, <2>18 DEF Inv
<1>. QED
  BY <1>3, <1>4

(***************************************************************************)
(* The theorems                                                            *)
(***************************************************************************)
LEMMA StepKeeps ==
  ASSUME Inv, [Next]_vars
  PROVE  Inv' /\ (accounts' # accounts => OneChange(accounts, accounts'))
<1>1. ASSUME NEW pg \in Pages, NEW r \in Requests(pg), Arrive(r)
      PROVE  Inv' /\ accounts' = accounts
  <2>1. accounts' = accounts
    BY <1>1 DEF Arrive, LimitLogin, BeginLogin, Logout, BeginChange, BeginSetup
  <2>. QED
    BY <1>1, <2>1, Arrival
<1>2. ASSUME NEW pg \in Pages, Load(pg) \/ Connect(pg) \/ Beat(pg) \/ Disconnect(pg)
      PROVE  Inv' /\ accounts' = accounts
  <2>1. accounts' = accounts
    BY <1>2 DEF Load, Connect, Beat, Disconnect
  <2>. QED
    BY <1>2, <2>1, PagesTurn
<1>3. ASSUME NEW r \in requests, Serve(r)
      PROVE  Inv' /\ (accounts' # accounts => OneChange(accounts, accounts'))
  <2>1. CASE EndLogin(r)
    BY <2>1, EndLoginKeeps DEF EndLogin
  <2>2. CASE LockAndRead(r)
    BY <2>2, LockAndReadKeeps DEF LockAndRead
  <2>3. CASE RefuseChange(r)
    BY <2>3, RefuseChangeKeeps DEF RefuseChange
  <2>4. CASE Write(r)
    BY <2>4, WriteKeeps
  <2>5. CASE Unlock(r)
    BY <2>5, UnlockKeeps DEF Unlock
  <2>6. CASE EndSetup(r)
    BY <2>6, EndSetupKeeps
  <2>. QED
    BY <1>3, <2>1, <2>2, <2>3, <2>4, <2>5, <2>6 DEF Serve
<1>4. CASE Tick
  BY <1>4, TickKeeps DEF Tick
<1>5. ASSUME NEW p \in Processes, Crash(p)
      PROVE  Inv' /\ accounts' = accounts
  BY <1>5, CrashKeeps DEF Crash
<1>6. CASE UNCHANGED vars
  <2>1. UNCHANGED <<public, accounts, lock, sessions, cookie, requests, page, now, tokens, sent, faults>>
    BY <1>6 DEF vars
  <2>2. page' \in [Pages -> Screen] /\ {now, faults}' \subseteq Nat
    BY <2>1 DEF Inv, TypeOK
  <2>. QED
    BY <2>1, <2>2, Turning
<1>. QED
  BY <1>1, <1>2, <1>3, <1>4, <1>5, <1>6 DEF Next

LEMMA InitInv == Init => Inv
<1>. SUFFICES ASSUME Init PROVE Inv
  OBVIOUS
<1>. DEFINE First(id) == Hired(EmailOf[id], IF id = Super THEN "super" ELSE "employee", FirstPassword)
<1>1. PICK hired \in SUBSET Ids :
        /\ Super \in hired \/ hired = {}
        /\ accounts = [id \in Ids |-> IF id \notin hired THEN Absent ELSE First(id)]
        /\ \E who \in LoggedIn \cap [Browsers -> hired \cup {Nobody}] :
             LET signed == {b \in Browsers : who[b] # Nobody} IN
               /\ sessions = {FirstSession(b, who[b]) : b \in signed}
               /\ cookie = [b \in Browsers |-> IF b \in signed THEN TokenOf[b] ELSE 0]
               /\ page = [pg \in Pages |->
                            LET b == BrowserOf[pg] IN
                              IF b \notin signed THEN SignedOut
                              ELSE [SignedOut EXCEPT !.who = who[b], !.role = accounts[who[b]].role]]
  BY DEF Init
<1>2. PICK who \in LoggedIn \cap [Browsers -> hired \cup {Nobody}] :
             LET signed == {b \in Browsers : who[b] # Nobody} IN
               /\ sessions = {FirstSession(b, who[b]) : b \in signed}
               /\ cookie = [b \in Browsers |-> IF b \in signed THEN TokenOf[b] ELSE 0]
               /\ page = [pg \in Pages |->
                            LET b == BrowserOf[pg] IN
                              IF b \notin signed THEN SignedOut
                              ELSE [SignedOut EXCEPT !.who = who[b], !.role = accounts[who[b]].role]]
  BY <1>1
<1>. DEFINE signed == {b \in Browsers : who[b] # Nobody}
<1>3. \A id \in Ids :
        LET f == First(id) IN
          /\ f \in Employee /\ f.here /\ f.active /\ f.email = EmailOf[id] /\ f.session = 1
          /\ f.password = FirstPassword
          /\ (id = Super => f.role = "super") /\ (id # Super => f.role # "super")
  <2>. TAKE id \in Ids
  <2>. DEFINE f == First(id)
              e == EmailOf[id]
              role == IF id = Super THEN "super" ELSE "employee"
  <2>1. e \in Emails \cup {""} /\ FirstPassword \in Passwords \cup {""}
    BY LocalAuthAssumption
  <2>2. role \in Roles \cup {"super"}
    BY DEF Roles
  <2>3. f = Hired(e, role, FirstPassword)
    OBVIOUS
  <2>4. (id = Super => role = "super") /\ (id # Super => role # "super")
    OBVIOUS
  <2>. HIDE DEF e, role, f
  <2>5. f \in Employee
    BY <2>1, <2>2, <2>3, HiredTyped
  <2>6. f.here /\ f.active /\ f.email = e /\ f.session = 1 /\ f.password = FirstPassword /\ f.role = role
    BY <2>3 DEF Hired
  <2>. QED
    BY <2>4, <2>5, <2>6 DEF e, f
<1>4. /\ \A id \in hired : id \in Ids /\ accounts[id] = First(id)
      /\ \A id \in Ids \ hired : accounts[id] = Absent
  BY <1>1
<1>. HIDE DEF First
<1>5. accounts \in [Ids -> Employee]
  BY <1>1, <1>3, AbsentTyped
<1>6. ~Absent.here /\ Absent.role # "super"
  BY DEF Absent
<1>7. \A id \in Ids : accounts[id].here => id \in hired
  BY <1>4, <1>6
<1>8. GoodFile(accounts)
  <2>1. \A id \in Ids : accounts[id].here => accounts[Super].here
    <3>1. \A id \in Ids : accounts[id].here => Super \in hired
      BY <1>1, <1>7
    <3>. QED
      BY <1>3, <1>4, <3>1
  <2>2. accounts[Super].here => accounts[Super].role = "super" /\ accounts[Super].active
    <3>1. Super \in Ids
      BY LocalAuthAssumption
    <3>. QED
      BY <1>3, <1>4, <1>7, <3>1
  <2>3. \A id \in Ids \ {Super} : accounts[id].role # "super"
    BY <1>3, <1>4, <1>6
  <2>4. ASSUME NEW i \in Ids, NEW j \in Ids, accounts[i].here, accounts[j].here, accounts[i].email = accounts[j].email
        PROVE  i = j
    <3>1. accounts[i].email = EmailOf[i] /\ accounts[j].email = EmailOf[j]
      BY <1>3, <1>4, <1>7, <2>4
    <3>. QED
      BY <2>4, <3>1, LocalAuthAssumption
  <2>5. \A id \in Ids : ~accounts[id].here => accounts[id] = Absent
    BY <1>3, <1>4
  <2>. QED
    BY <2>1, <2>2, <2>3, <2>4, <2>5 DEF GoodFile, Readable
<1>9. \A b \in signed : who[b] \in hired /\ who[b] \in Ids
  BY <1>2
<1>10. \A b \in Browsers : TokenOf[b] \in Nat
  <2>1. Cardinality(Browsers) \in Nat
    BY LocalAuthAssumption, FS_CardinalityType
  <2>2. \A b \in Browsers : TokenOf[b] \in 1..Cardinality(Browsers)
    BY LocalAuthAssumption
  <2>. QED
    BY <2>1, <2>2
<1>11. ASSUME NEW s \in sessions PROVE s \in Kept /\ TrueSession(s)
  <2>1. PICK b \in signed : s = FirstSession(b, who[b])
    BY <1>2
  <2>. DEFINE id == who[b]
              pg == CHOOSE pg \in Pages : BrowserOf[pg] = b
  <2>2. pg \in Pages
    BY LocalAuthAssumption
  <2>3. HomeOf[pg] \in Processes /\ Lifetime \in Nat /\ TokenOf[b] \in Nat /\ FirstPassword \in Passwords
    BY <1>10, <2>2, LocalAuthAssumption
  <2>. HIDE DEF pg
  <2>4. id \in Ids /\ accounts[id] = First(id)
    BY <1>4, <1>9
  <2>5. /\ s.token = TokenOf[b] /\ s.who = id /\ s.version = 1 /\ s.until = Lifetime
        /\ s.at = HomeOf[pg] /\ s.password = FirstPassword /\ s.role = accounts[id].role
    BY <2>1 DEF FirstSession, pg
  <2>6. s = [token |-> TokenOf[b], who |-> id, version |-> 1, until |-> Lifetime,
             at |-> HomeOf[pg], password |-> FirstPassword, role |-> accounts[id].role]
    BY <2>1 DEF FirstSession, pg
  <2>7. accounts[id] \in Employee /\ accounts[id].session = 1 /\ accounts[id].password = FirstPassword
    BY <1>3, <2>4
  <2>8. accounts[id].role \in Roles \cup {"super"}
    BY <2>7 DEF Employee
  <2>. HIDE DEF id
  <2>9. s \in Kept
    BY <2>3, <2>4, <2>6, <2>8 DEF Kept
  <2>10. TrueSession(s)
    BY <2>5, <2>7 DEF TrueSession
  <2>. QED
    BY <2>9, <2>10
<1>12. cookie \in [Browsers -> Nat]
  BY <1>2, <1>10
<1>13. page \in [Pages -> Screen]
  <2>1. \A pg \in Pages : BrowserOf[pg] \in Browsers
    BY LocalAuthAssumption
  <2>2. ASSUME NEW pg \in Pages PROVE page[pg] \in Screen
    <3>. DEFINE b == BrowserOf[pg]
    <3>1. CASE b \notin signed
      BY <1>2, <3>1, ScreenTyped
    <3>2. CASE b \in signed
      <4>. DEFINE id == who[b]
                  role == accounts[id].role
      <4>1. id \in Ids
        BY <1>9, <3>2
      <4>2. role \in Roles \cup {"super", "none"}
        BY <1>5, <4>1 DEF Employee
      <4>3. page[pg] = [SignedOut EXCEPT !.who = id, !.role = role]
        BY <1>2, <3>2
      <4>. HIDE DEF id, role
      <4>. QED
        BY <4>1, <4>2, <4>3, ScreenTyped DEF Screen
    <3>. QED
      BY <3>1, <3>2
  <2>3. page = [pg \in Pages |-> page[pg]]
    BY <1>2
  <2>. QED
    BY <2>2, <2>3
<1>14. lock = "free" /\ requests = {} /\ public \in BOOLEAN /\ {now, sent, faults} \subseteq Nat
  <2>1. now = 0 /\ sent = 0 /\ faults = 0
    BY DEF Init
  <2>2. lock = "free" /\ requests = {} /\ public \in BOOLEAN
    BY Zenon DEF Init
  <2>. QED
    BY <2>1, <2>2
<1>15. tokens \in Nat
  BY LocalAuthAssumption, FS_CardinalityType DEF Init
<1>16. TypeOK
  BY <1>5, <1>11, <1>12, <1>13, <1>14, <1>15 DEF TypeOK
<1>. QED
  BY <1>8, <1>11, <1>14, <1>16 DEF Inv, Alone

(* TypeOK: variables stay within their types.                               *)
THEOREM Typed == Spec => []TypeOK
<1>1. Inv => TypeOK
  BY DEF Inv
<1>. QED
  BY <1>1, InitInv, StepKeeps, PTL DEF Spec

(* SessionsAreCurrent: a session that counts was opened with the password   *)
(* and under the role its employee has (local-auth.mjs, login and           *)
(* actorRecord against updateEmployee).                                     *)
THEOREM NoSessionOutlivesItsRights == Spec => []SessionsAreCurrent
<1>1. Inv => SessionsAreCurrent
  BY DEF Inv, SessionsAreCurrent, TrueSession, Live
<1>. QED
  BY <1>1, InitInv, StepKeeps, PTL DEF Spec

(* FileIsValid: the account file always passes readAccounts.                *)
THEOREM TheFileIsReadable == Spec => []FileIsValid
<1>1. Inv => FileIsValid
  BY DEF Inv, FileIsValid, GoodFile
<1>. QED
  BY <1>1, InitInv, StepKeeps, PTL DEF Spec

(* EveryChangeIsCounted: accounts change one at a time, on what they are,   *)
(* under the lock of mutate or by the link of the first administrator.      *)
THEOREM NoChangeIsLost == Spec => EveryChangeIsCounted
<1>1. Inv /\ [Next]_vars => [accounts' # accounts => OneChange(accounts, accounts')]_vars
  BY StepKeeps
<1>. QED
  BY <1>1, InitInv, StepKeeps, PTL DEF Spec, EveryChangeIsCounted
=============================================================================
