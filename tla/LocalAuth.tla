------------------------------ MODULE LocalAuth ------------------------------
(***************************************************************************)
(* Who works here: the file of employee accounts, which several server     *)
(* processes may share, the sessions of those logged in, and the pages     *)
(* that show one employee's work.                                          *)
(*                                                                         *)
(* A request is served in steps where the code awaits (a password is       *)
(* hashed) or where another process can come between (the account file is  *)
(* read, written to the side and renamed under a lock file).               *)
(***************************************************************************)
EXTENDS Integers, FiniteSets

CONSTANTS
  Ids,          \* identities of employees
  Super,        \* the one who administers the others
  Emails,
  EmailOf,      \* the address each is hired with at first
  Passwords,
  FirstPassword,
  Processes,    \* server processes on one data directory
  Pages,        \* open pages, each of a browser
  Browsers,
  BrowserOf,    \* the browser a page is open in: pages of one share a cookie
  HomeOf,       \* the process a page was loaded from
  LoggedIn,     \* who may be logged in, per browser, when the model begins
  TokenOf,      \* the token each browser then holds
  Lifetime,     \* how long a session lasts
  MaxSessions,  \* how many sessions are kept
  MaxTime,      \* bound on the clock
  MaxRequests,  \* bound on requests
  MaxFaults     \* bound on crashes, lost answers and lost streams

VARIABLES
  public,    \* sessions are files of all processes; else each process has its own
  accounts,  \* the account file
  lock,      \* who made the lock file
  sessions,  \* the sessions kept
  cookie,    \* per browser, the token it holds
  requests,  \* requests being served
  page,      \* per page, whom it shows and its change stream
  now,
  tokens,    \* how many tokens were issued
  sent,      \* how many requests were made
  faults

vars == <<public, accounts, lock, sessions, cookie, requests, page, now, tokens, sent, faults>>

Roles == {"admin", "employee"}

Nobody == "nobody"

ASSUME LocalAuthAssumption ==
  /\ Super \in Ids /\ Nobody \notin Ids /\ "" \notin Emails \cup Passwords
  /\ EmailOf \in [Ids -> Emails] /\ (\A i, j \in Ids : EmailOf[i] = EmailOf[j] => i = j)
  /\ FirstPassword \in Passwords
  /\ {"free", "left"} \cap Processes = {}
  /\ BrowserOf \in [Pages -> Browsers] /\ HomeOf \in [Pages -> Processes]
  /\ \A b \in Browsers : \E pg \in Pages : BrowserOf[pg] = b
  /\ LoggedIn \subseteq [Browsers -> Ids \cup {Nobody}]
  /\ IsFiniteSet(Browsers) /\ TokenOf \in [Browsers -> 1..Cardinality(Browsers)]
  /\ \A a, b \in Browsers : TokenOf[a] = TokenOf[b] => a = b
  /\ Lifetime \in Nat /\ MaxSessions \in Nat \ {0}
  /\ {MaxTime, MaxRequests, MaxFaults} \subseteq Nat

Absent ==
  [here |-> FALSE, email |-> "", role |-> "employee", active |-> FALSE, password |-> "",
   version |-> 0, session |-> 0, nickname |-> FALSE]

Hired(email, role, password) ==
  [here |-> TRUE, email |-> email, role |-> role, active |-> TRUE, password |-> password,
   version |-> 1, session |-> 1, nickname |-> FALSE]

Empty == [id \in Ids |-> Absent]

Configured == accounts[Super].here

Closed == [token |-> 0, who |-> Nobody, at |-> "free"]

SignedOut == [who |-> Nobody, role |-> "none", stream |-> Closed]

-----------------------------------------------------------------------------
(* Sessions.                                                                *)

(* A session tells which version of the employee it was opened for.         *)
Live(s) ==
  LET employee == accounts[s.who] IN
    s.until > now /\ employee.here /\ employee.active /\ employee.session = s.version

KnownTo(p, s) == public \/ s.at = p

Opened(p, token) == {s \in sessions : s.token = token /\ KnownTo(p, s)}

Actors(p, token) == {s.who : s \in {s \in Opened(p, token) : Live(s)}}

(* Looking a session up removes it if it is over.                           *)
Swept(p, token) == sessions \ {s \in Opened(p, token) : ~Live(s)}

Supers(p, token) == {id \in Actors(p, token) : accounts[id].role = "super"}

(* Those that end last are kept, one fewer than the store may hold.         *)
Pruned(p, old) ==
  LET kept == {s \in sessions : KnownTo(p, s) /\ s.until > now /\ s.token # old}
  IN  {s \in sessions : ~KnownTo(p, s)}
        \cup {s \in kept : Cardinality({x \in kept : x.token > s.token}) < MaxSessions - 1}

-----------------------------------------------------------------------------
(* Requests.                                                                *)

NoChange == [email |-> "", role |-> "same", active |-> "same", password |-> "", rename |-> FALSE]

(* What is asked, and of whom.                                              *)
Request(pg, p, op, id, c) ==
  [page |-> pg, at |-> p, op |-> op, step |-> "hash", token |-> cookie[BrowserOf[pg]], id |-> id,
   seen |-> IF id \in Ids THEN accounts[id].version ELSE 0, change |-> c,
   session |-> 0, matches |-> FALSE, copy |-> Empty]

(* One service of several processes answers for all of them; on one computer *)
(* each process has its own address.                                        *)
Reached(pg) == IF public THEN Processes ELSE {HomeOf[pg]}

Waits(pg) == \E r \in requests : r.page = pg

(* Between the lock and its removal a process does nothing else.            *)
Between == {"write", "unlock"}

Busy(p) == \E r \in requests : r.at = p /\ r.step \in Between

Credentials ==
  [email : Emails, role : {"same"}, active : {"same"}, password : Passwords, rename : {FALSE}]

Newcomers ==
  [email : Emails, role : Roles, active : {"same"}, password : {FirstPassword}, rename : {FALSE}]

(* One employee of the list is edited: what differs.                        *)
Edits(id) ==
  {[NoChange EXCEPT !.password = w] : w \in Passwords \ {accounts[id].password}}
    \cup {[NoChange EXCEPT !.rename = TRUE]}
    \cup (IF accounts[id].role = "super" THEN {}
          ELSE {[NoChange EXCEPT !.role = role] : role \in Roles \ {accounts[id].role}}
                 \cup {[NoChange EXCEPT !.active = IF accounts[id].active THEN "off" ELSE "on"]})

Setups(pg) ==
  IF ~public /\ page[pg].who = Nobody /\ ~Configured
  THEN {Request(pg, p, "setup", Nobody, c) : p \in Reached(pg), c \in {c \in Credentials : c.email = EmailOf[Super]}}
  ELSE {}

Logins(pg) ==
  IF page[pg].who = Nobody /\ Configured
  THEN {Request(pg, p, "login", Nobody, c) : p \in Reached(pg), c \in Credentials} ELSE {}

(* One's nickname is set once.                                              *)
Own(pg) ==
  {r \in {Request(pg, p, op, Nobody, NoChange) : p \in Reached(pg), op \in {"logout", "nickname"}} :
     page[pg].who # Nobody /\ (r.op = "nickname" => ~accounts[page[pg].who].nickname)}

Manages(pg) ==
  IF page[pg].role # "super" THEN {}
  ELSE {Request(pg, p, "create", Nobody, c) : p \in Reached(pg), c \in Newcomers}
         \cup UNION {{Request(pg, p, "update", id, c) : p \in Reached(pg), c \in Edits(id)} :
                      id \in {id \in Ids : accounts[id].here}}

Requests(pg) == Setups(pg) \cup Logins(pg) \cup Own(pg) \cup Manages(pg)

-----------------------------------------------------------------------------
(* Answers.  The page hears them, and the browser takes the cookie with     *)
(* them, or the answer is lost.                                             *)

(* The page is loaded again and shows whoever the cookie belongs to.        *)
Shown(p, token, kept) ==
  LET who == {s.who : s \in {s \in kept : s.token = token /\ KnownTo(p, s) /\ Live(s)}}
  IN  IF who = {} THEN SignedOut
      ELSE LET id == CHOOSE id \in who : TRUE IN [SignedOut EXCEPT !.who = id, !.role = accounts[id].role]

Ends(r) == requests' = requests \ {r}

Lost == faults < MaxFaults /\ faults' = faults + 1 /\ UNCHANGED <<cookie, page>>

(* Nothing came of it; one who is not logged in is shown the login page.    *)
Refused(r, kept, why) ==
  /\ Ends(r)
  /\ \/ /\ page' = IF why = "unknown" /\ page[r.page].who # Nobody
                   THEN [page EXCEPT ![r.page] = Shown(r.at, cookie[BrowserOf[r.page]], kept)]
                   ELSE page
        /\ UNCHANGED <<cookie, faults>>
     \/ Lost

(* What a change of one's own account, or a login, brings up.               *)
Welcomed(r, token, kept) ==
  \/ /\ cookie' = [cookie EXCEPT ![BrowserOf[r.page]] = token]
     /\ page' = [page EXCEPT ![r.page] = Shown(r.at, token, kept)]
     /\ UNCHANGED faults
  \/ Lost

-----------------------------------------------------------------------------
(* Serving requests.                                                        *)

Changes == {"create", "update", "nickname"}

Proceeds(r, s) == requests' = (requests \ {r}) \cup {s}

Stays(r) == requests' = requests \cup {r}

(* Too many attempts of late, or two passwords being compared already.      *)
LimitLogin(r) ==
  /\ r.op = "login"
  /\ Refused(r, sessions, "busy")
  /\ UNCHANGED <<accounts, sessions, tokens>>

BeginLogin(r) ==
  /\ r.op = "login"
  /\ Cardinality({x \in requests : x.at = r.at /\ x.op = "login"}) < 2
  /\ LET found == {id \in Ids : accounts[id].here /\ accounts[id].email = r.change.email} IN
       \/ found = {} /\ Stays(r)
       \/ \E id \in found :
            Stays([r EXCEPT !.id = id, !.session = accounts[id].session,
                            !.matches = accounts[id].password = r.change.password])
  /\ UNCHANGED <<accounts, sessions, cookie, page, tokens, faults>>

StaleAllowed(r) == r.matches /\ accounts[r.id].here /\ accounts[r.id].active   \* mutant

(* The account is read again after the comparison.                          *)
Allowed(r) ==
  r.matches /\ accounts[r.id].here /\ accounts[r.id].active /\ accounts[r.id].session = r.session

Session(r) ==
  [token |-> tokens + 1, who |-> r.id, version |-> accounts[r.id].session, until |-> now + Lifetime,
   at |-> r.at, password |-> r.change.password, role |-> accounts[r.id].role]

EndLogin(r) ==
  /\ r.op = "login" /\ ~Busy(r.at)
  /\ IF Allowed(r)
     THEN /\ sessions' = Pruned(r.at, r.token) \cup {Session(r)}
          /\ tokens' = tokens + 1
          /\ Ends(r) /\ Welcomed(r, tokens + 1, sessions')
     ELSE Refused(r, sessions, "wrong") /\ UNCHANGED <<sessions, tokens>>
  /\ UNCHANGED <<public, accounts, lock, now, sent>>

Logout(r) ==
  /\ r.op = "logout"
  /\ sessions' = sessions \ Opened(r.at, r.token)
  /\ Ends(r) /\ Welcomed(r, 0, sessions')
  /\ UNCHANGED <<accounts, tokens>>

(* Who may: the administrator, or for a nickname anybody.                   *)
Entitled(r) == IF r.op = "nickname" THEN Actors(r.at, r.token) ELSE Supers(r.at, r.token)

BeginChange(r) ==
  /\ r.op \in Changes
  /\ sessions' = Swept(r.at, r.token)
  /\ IF Entitled(r) # {}
     THEN Stays(r) /\ UNCHANGED <<cookie, page, faults>>
     ELSE Refused(r, sessions', IF Actors(r.at, r.token) = {} THEN "unknown" ELSE "forbidden")
  /\ UNCHANGED <<accounts, tokens>>

Create(r, id) == [accounts EXCEPT ![id] = Hired(r.change.email, r.change.role, r.change.password)]

MayCreateTwice(r, id) == ~accounts[id].here   \* mutant

MayCreate(r, id) ==
  ~accounts[id].here /\ \A x \in Ids : accounts[x].here => accounts[x].email # r.change.email

NewRole(r) == IF r.change.role = "same" THEN accounts[r.id].role ELSE r.change.role

NewActive(r) == IF r.change.active = "same" THEN accounts[r.id].active ELSE r.change.active = "on"

(* The administrator's own role and account are protected.                  *)
MayUpdate(r, actor) ==
  LET row == accounts[r.id] IN
    /\ row.here /\ row.version = r.seen
    /\ row.role = "super" => actor = r.id /\ NewRole(r) = "super" /\ NewActive(r)
    /\ NewRole(r) = "super" => row.role = "super"

Revokes(r) ==
  NewRole(r) # accounts[r.id].role \/ NewActive(r) # accounts[r.id].active \/ r.change.password # ""

Update(r) ==
  [accounts EXCEPT ![r.id] =
     [accounts[r.id] EXCEPT !.role = NewRole(r), !.active = NewActive(r), !.version = @ + 1,
                            !.session = IF Revokes(r) THEN @ + 1 ELSE @,
                            !.password = IF r.change.password = "" THEN @ ELSE r.change.password,
                            !.nickname = @ \/ r.change.rename]]

SetNickname(id) ==
  [accounts EXCEPT ![id] = [accounts[id] EXCEPT !.nickname = TRUE, !.version = @ + 1]]

LockIgnored == FALSE   \* mutant

LockTaken == lock # "free"

(* Under the lock the account file is read, the right to change it looked   *)
(* up again, and the changed accounts put together.                         *)
LockAndRead(r) ==
  /\ r.op \in Changes /\ r.step = "hash" /\ ~Busy(r.at)
  /\ ~LockTaken
  /\ lock' = r.at
  /\ LET Goes(copy) == Proceeds(r, [r EXCEPT !.step = "write", !.copy = copy])
     IN  \/ r.op = "create" /\ Entitled(r) # {} /\ \E id \in Ids : MayCreate(r, id) /\ Goes(Create(r, id))
         \/ r.op = "update" /\ (\E actor \in Entitled(r) : MayUpdate(r, actor)) /\ Goes(Update(r))
         \/ r.op = "nickname" /\ \E id \in Entitled(r) : ~accounts[id].nickname /\ Goes(SetNickname(id))
  /\ UNCHANGED <<public, accounts, sessions, cookie, page, now, tokens, sent, faults>>

(* Nothing to do under the lock, or the lock file is there.                 *)
RefuseChange(r) ==
  /\ r.op \in Changes /\ r.step = "hash" /\ ~Busy(r.at)
  /\ IF LockTaken THEN UNCHANGED sessions /\ Refused(r, sessions, "locked")
     ELSE /\ sessions' = Swept(r.at, r.token)
          /\ CASE Entitled(r) = {} -> Refused(r, sessions', IF Actors(r.at, r.token) = {} THEN "unknown" ELSE "forbidden")
               [] OTHER -> /\ CASE r.op = "create" -> \A id \in Ids : ~MayCreate(r, id)
                                [] r.op = "update" -> \A actor \in Entitled(r) : ~MayUpdate(r, actor)
                                [] OTHER -> \A id \in Entitled(r) : accounts[id].nickname
                           /\ Refused(r, sessions', "outdated")
  /\ UNCHANGED <<public, accounts, lock, now, tokens, sent>>

(* The file written to the side takes the place of the account file.        *)
Write(r) ==
  /\ r.step = "write"
  /\ accounts' = r.copy
  /\ Proceeds(r, [r EXCEPT !.step = "unlock"])
  /\ UNCHANGED <<public, lock, sessions, cookie, page, now, tokens, sent, faults>>

Unlock(r) ==
  /\ r.step = "unlock"
  /\ lock' = "free"
  /\ Ends(r)
  /\ \/ /\ page' = IF r.op = "update" /\ page[r.page].who = r.id
                   THEN [page EXCEPT ![r.page] = Shown(r.at, cookie[BrowserOf[r.page]], sessions)] ELSE page
        /\ UNCHANGED <<cookie, faults>>
     \/ Lost
  /\ UNCHANGED <<public, accounts, sessions, now, tokens, sent>>

(* The first administrator: one process sets up at a time, and of several   *)
(* the first to link the account file.                                      *)
BeginSetup(r) ==
  /\ r.op = "setup"
  /\ IF Configured \/ \E x \in requests : x.at = r.at /\ x.op = "setup"
     THEN Refused(r, sessions, "configured")
     ELSE Stays(r) /\ UNCHANGED <<cookie, page, faults>>
  /\ UNCHANGED <<accounts, sessions, tokens>>

EndSetup(r) ==
  /\ r.op = "setup" /\ ~Busy(r.at)
  /\ accounts' = IF Configured THEN accounts
                 ELSE [accounts EXCEPT ![Super] = Hired(EmailOf[Super], "super", r.change.password)]
  /\ Ends(r)
  /\ UNCHANGED <<public, lock, sessions, cookie, page, now, tokens, sent, faults>>

(* A request arrives: what is done before anything is awaited.              *)
Arrive(r) ==
  /\ ~Waits(r.page) /\ ~Busy(r.at) /\ sent < MaxRequests
  /\ sent' = sent + 1
  /\ LimitLogin(r) \/ BeginLogin(r) \/ Logout(r) \/ BeginChange(r) \/ BeginSetup(r)
  /\ UNCHANGED <<public, lock, now>>

-----------------------------------------------------------------------------
(* Pages.                                                                   *)

Signed(pg) == page[pg].who # Nobody

(* A page is loaded, by its user or because it is told to.                  *)
Load(pg) ==
  /\ ~Waits(pg)
  /\ \E p \in Reached(pg) :
       /\ ~Busy(p)
       /\ page[pg].who \notin Actors(p, cookie[BrowserOf[pg]])
       /\ sessions' = Swept(p, cookie[BrowserOf[pg]])
       /\ page' = [page EXCEPT ![pg] = Shown(p, cookie[BrowserOf[pg]], sessions')]
  /\ UNCHANGED <<public, accounts, lock, cookie, requests, now, tokens, sent, faults>>

ConnectUntold(pg) ==   \* mutant
  /\ Signed(pg) /\ page[pg].stream = Closed
  /\ \E p \in Reached(pg), id \in Ids :
       /\ ~Busy(p) /\ id \in Actors(p, cookie[BrowserOf[pg]])
       /\ page' = [page EXCEPT ![pg].stream = [token |-> cookie[BrowserOf[pg]], who |-> id, at |-> p]]
  /\ UNCHANGED <<public, accounts, lock, sessions, cookie, requests, now, tokens, sent, faults>>

(* The change stream is opened with the cookie of the moment; who is not    *)
(* logged in then is shown the login page.                                  *)
Connect(pg) ==
  /\ Signed(pg) /\ page[pg].stream = Closed
  /\ \E p \in Reached(pg) :
       LET token == cookie[BrowserOf[pg]] IN
         /\ ~Busy(p)
         /\ sessions' = Swept(p, token)
         /\ \/ \E id \in Actors(p, token) :
                 page' = [page EXCEPT ![pg].stream = [token |-> token, who |-> id, at |-> p]]
            \/ Actors(p, token) = {} /\ page' = [page EXCEPT ![pg] = SignedOut]
  /\ UNCHANGED <<public, accounts, lock, cookie, requests, now, tokens, sent, faults>>

(* News or a heartbeat: the stream ends with its session.                   *)
Beat(pg) ==
  LET stream == page[pg].stream IN
    /\ stream # Closed /\ ~Busy(stream.at)
    /\ stream.who \notin Actors(stream.at, stream.token)
    /\ sessions' = Swept(stream.at, stream.token)
    /\ page' = [page EXCEPT ![pg] = Shown(stream.at, cookie[BrowserOf[pg]], sessions')]
    /\ UNCHANGED <<public, accounts, lock, cookie, requests, now, tokens, sent, faults>>

Disconnect(pg) ==
  /\ page[pg].stream # Closed /\ faults < MaxFaults
  /\ page' = [page EXCEPT ![pg].stream = Closed]
  /\ faults' = faults + 1
  /\ UNCHANGED <<public, accounts, lock, sessions, cookie, requests, now, tokens, sent>>

-----------------------------------------------------------------------------
Tick ==
  /\ now < MaxTime
  /\ now' = now + 1
  /\ UNCHANGED <<public, accounts, lock, sessions, cookie, requests, page, tokens, sent, faults>>

(* A process stops and is started again: its lock file, if any, stays.      *)
Crash(p) ==
  /\ faults < MaxFaults
  /\ faults' = faults + 1
  /\ requests' = {r \in requests : r.at # p}
  /\ lock' = IF lock = p THEN "left" ELSE lock
  /\ sessions' = IF public THEN sessions ELSE {s \in sessions : s.at # p}
  /\ page' = [pg \in Pages |-> IF page[pg].stream.at = p THEN [page[pg] EXCEPT !.stream = Closed] ELSE page[pg]]
  /\ UNCHANGED <<public, accounts, cookie, now, tokens, sent>>

(* Some are hired and log in before we look.                                *)
FirstSession(b, id) ==
  [token |-> TokenOf[b], who |-> id, version |-> 1, until |-> Lifetime,
   at |-> HomeOf[CHOOSE pg \in Pages : BrowserOf[pg] = b], password |-> FirstPassword, role |-> accounts[id].role]

Init ==
  /\ public \in BOOLEAN
  /\ \E hired \in SUBSET Ids :
       /\ Super \in hired \/ (hired = {} /\ ~public)
       /\ accounts = [id \in Ids |-> IF id \notin hired THEN Absent
                                    ELSE Hired(EmailOf[id], IF id = Super THEN "super" ELSE "employee", FirstPassword)]
       /\ \E who \in LoggedIn \cap [Browsers -> hired \cup {Nobody}] :
            LET signed == {b \in Browsers : who[b] # Nobody} IN
              /\ sessions = {FirstSession(b, who[b]) : b \in signed}
              /\ cookie = [b \in Browsers |-> IF b \in signed THEN TokenOf[b] ELSE 0]
              /\ page = [pg \in Pages |->
                           LET b == BrowserOf[pg] IN
                             IF b \notin signed THEN SignedOut
                             ELSE [SignedOut EXCEPT !.who = who[b], !.role = accounts[who[b]].role]]
  /\ lock = "free" /\ requests = {}
  /\ now = 0 /\ tokens = Cardinality(Browsers) /\ sent = 0 /\ faults = 0

Serve(r) ==
  EndLogin(r) \/ LockAndRead(r) \/ RefuseChange(r) \/ Write(r) \/ Unlock(r) \/ EndSetup(r)

Next ==
  \/ \E pg \in Pages : (\E r \in Requests(pg) : Arrive(r))
                       \/ Load(pg) \/ Connect(pg) \/ Beat(pg) \/ Disconnect(pg)
  \/ \E r \in requests : Serve(r)
  \/ Tick
  \/ \E p \in Processes : Crash(p)

Spec == Init /\ [][Next]_vars

(* The stream is opened again until it is, a heartbeat comes now and then,  *)
(* and what is done under the lock is done in one go.                       *)
FairSpec ==
  /\ Spec
  /\ \A pg \in Pages : WF_vars(Connect(pg)) /\ WF_vars(Beat(pg))
  /\ WF_vars(\E r \in requests : Write(r) \/ Unlock(r))

-----------------------------------------------------------------------------
Employee ==
  [here : BOOLEAN, email : Emails \cup {""}, role : Roles \cup {"super"}, active : BOOLEAN,
   password : Passwords \cup {""}, version : Nat, session : Nat, nickname : BOOLEAN]

Kept ==
  [token : Nat, who : Ids, version : Nat, until : Nat, at : Processes,
   password : Passwords \cup {""}, role : Roles \cup {"super"}]

Change ==
  [email : Emails \cup {""}, role : Roles \cup {"same"}, active : {"same", "on", "off"},
   password : Passwords \cup {""}, rename : BOOLEAN]

Asked ==
  [page : Pages, at : Processes, op : {"setup", "login", "logout", "nickname", "create", "update"},
   step : {"hash"} \cup Between, token : Nat, id : Ids \cup {Nobody}, seen : Nat, change : Change,
   session : Nat, matches : BOOLEAN, copy : [Ids -> Employee]]

Stream == [token : Nat, who : Ids \cup {Nobody}, at : Processes \cup {"free"}]

Screen == [who : Ids \cup {Nobody}, role : Roles \cup {"super", "none"}, stream : Stream]

TypeOK ==
  /\ public \in BOOLEAN
  /\ accounts \in [Ids -> Employee]
  /\ lock \in Processes \cup {"free", "left"}
  /\ sessions \subseteq Kept
  /\ cookie \in [Browsers -> Nat]
  /\ requests \subseteq Asked
  /\ page \in [Pages -> Screen]
  /\ {now, tokens, sent, faults} \subseteq Nat

(* A session that still counts was opened with the password and under the   *)
(* role its employee has: whatever a log-in compared before an account was  *)
(* changed, and wherever its session is kept, the change ends it.           *)
SessionsAreCurrent ==
  \A s \in sessions :
    Live(s) => s.password = accounts[s.who].password /\ s.role = accounts[s.who].role

(* The account file is always one the next start reads: one administrator   *)
(* who is active, and no address twice.                                     *)
Readable(file) ==
  /\ \A id \in Ids : file[id].here => file[Super].here
  /\ file[Super].here => file[Super].role = "super" /\ file[Super].active
  /\ \A id \in Ids \ {Super} : file[id].role # "super"
  /\ \A i, j \in Ids : file[i].here /\ file[j].here /\ file[i].email = file[j].email => i = j

FileIsValid == Readable(accounts)

(* One employee's next version, with a session version of its own if log-ins *)
(* of before may not go on.                                                 *)
NextVersion(old, new) ==
  /\ new.here /\ new.version = old.version + 1
  /\ \/ new.session = old.session + 1
     \/ new.session = old.session
        /\ old.here /\ new.role = old.role /\ new.active = old.active /\ new.password = old.password

OneChange(old, new) ==
  \E id \in Ids : NextVersion(old[id], new[id]) /\ \A x \in Ids \ {id} : old[x] = new[x]

(* No change of an account undoes another made meanwhile, in this process   *)
(* or another, and none goes uncounted: who edits a list loaded before will *)
(* be told.                                                                 *)
EveryChangeIsCounted == [][accounts' # accounts => OneChange(accounts, accounts')]_vars

(* A page that shows somebody whose log-in has ended shows them no longer   *)
(* soon after, without being touched: its stream tells it, or the next one  *)
(* it opens (change-sync.js connect).  This is of pages that are visible,   *)
(* for a hidden one opens no stream until it is looked at, and of pages in  *)
(* browsers of their own: with another employee's cookie in the browser a   *)
(* page's next stream is that employee's, and nothing tells the page.       *)
Current(pg) == \E p \in Reached(pg) : page[pg].who \in Actors(p, cookie[BrowserOf[pg]])

RevokedPagesLeave == \A pg \in Pages : Signed(pg) /\ ~Current(pg) ~> ~Signed(pg) \/ Current(pg)
=============================================================================
