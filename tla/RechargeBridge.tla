--------------------------- MODULE RechargeBridge ---------------------------
(***************************************************************************)
(* The recharge task service: modules/recharge/vendure/loopback-bridge.mjs *)
(* over isolated-task-store.mjs, started by server/vendure-task-service.   *)
(*                                                                         *)
(* The shop submits redemption codes, one worker program claims tasks and  *)
(* reports on them.  The service keeps its tasks and the nonces of handled *)
(* worker requests in one row of a SQLite file that is replaced under a    *)
(* compare-and-swap on its revision, and works from a copy in memory; the  *)
(* customer's authorization ("session") is in memory only.                 *)
(*                                                                         *)
(* A request is handled in one synchronous piece after its body was read,  *)
(* so one action is one request: first expire(at), then the handler, each  *)
(* with a commit that may succeed, throw, be durable although it threw, or *)
(* be the last thing the process does.  Several Instances stand for the    *)
(* processes an operator may start on the same file; the lock directory    *)
(* keeps them apart unless somebody removes it.                            *)
(***************************************************************************)
EXTENDS Naturals, Sequences

CONSTANTS
  Instances,         \* service processes that may be started on the file
  Codes,             \* redemption codes
  Registries,        \* sets of codes a started process may accept and execute
  SessionLifetimes,  \* how long a submitted authorization remains valid
  Jobs, NoJob,       \* upstream job identifiers
  Evidence, NoEvidence,
  Results,           \* bodies of the result requests a worker may send
  SignatureWindow, QueuedLifetime, LeaseLifetime,
  LastCall,          \* bound: clients send nothing after this time
  MaxTime,           \* bound on the clock
  MaxRequests        \* bound on the worker's signed requests

VARIABLES
  now,            \* the clock
  lock,           \* the lock directory exists
  store,          \* the durable row
  phase,          \* of each process: down, serving or closing
  needsRecovery,  \* the process answers 503 until it is restarted
  copy,           \* revision, tasks and nonces in the process's memory
  serves,         \* the usable codes of the process's configuration
  sessions,       \* authorizations in the process's memory
  signed,         \* the worker's requests so far; a request's place is its nonce
  granted,        \* history: claim replies that left the service
  accepted        \* history: nonces that ever reached the store

service == <<lock, store, phase, needsRecovery, copy, serves, sessions>>
vars == <<now, lock, store, phase, needsRecovery, copy, serves, sessions,
          signed, granted, accepted>>

Confirmed == {"succeeded", "failed"}
Final == Confirmed \cup {"awaiting_review"}
Status == {"queued", "running"} \cup Final

ASSUME BridgeAssumption ==
  /\ Registries \subseteq SUBSET Codes
  /\ SessionLifetimes \subseteq Nat
  /\ NoJob \notin Jobs /\ NoEvidence \notin Evidence
  /\ Results \subseteq [status : Final, evidence : Evidence \cup {NoEvidence},
                        job : Jobs \cup {NoJob}]
  /\ SignatureWindow \in Nat \ {0}
  /\ QueuedLifetime \in Nat \ {0}
  /\ LeaseLifetime \in Nat \ {0}
  /\ LastCall \in Nat /\ MaxTime \in Nat /\ MaxRequests \in Nat

(***************************************************************************)
(* Records                                                                 *)
(***************************************************************************)
(* A task; lease 0 is "no lease yet", outcome "none" is "no result yet".   *)
(* The task's place in the sequence is its identifier: the map of tasks    *)
(* keeps insertion order, also through the JSON row, and never drops one.  *)
Task == [code : Codes, status : Status, updatedAt : Nat, queuedUntil : Nat,
         lease : Nat, leaseUntil : Nat, job : Jobs \cup {NoJob},
         outcome : Final \cup {"none"}, evidence : Evidence \cup {NoEvidence},
         outcomeJob : Jobs \cup {NoJob}]
Nonce == [nonce : Nat, until : Nat]
Row == [revision : Nat, tasks : Seq(Task), nonces : SUBSET Nonce]
Session == [task : Nat, expires : Nat]
NoBody == [status |-> "none", evidence |-> NoEvidence, job |-> NoJob]
Request ==
  {r \in [time : Nat, kind : {"claim", "progress", "result"},
          task : Nat, lease : Nat, status : Final \cup {"none"},
          evidence : Evidence \cup {NoEvidence}, job : Jobs \cup {NoJob}] :
     r.kind = "result" => r.status \in Final}
Grant == [task : Nat, lease : Nat \ {0}, code : Codes]

Blank == [revision |-> 0, tasks |-> << >>, nonces |-> {}]

NewTask(c, at) ==
  [code |-> c, status |-> "queued", updatedAt |-> at,
   queuedUntil |-> at + QueuedLifetime, lease |-> 0, leaseUntil |-> 0,
   job |-> NoJob, outcome |-> "none", evidence |-> NoEvidence,
   outcomeJob |-> NoJob]

(* Mutated: a change within one tick keeps the time of the last one.        *)
TransitionKeepsTime(t, status, at) ==
  [t EXCEPT !.status = status, !.updatedAt = at]

(* The shop drops a snapshot that is not newer than the last one it kept.  *)
Transition(t, status, at) ==
  [t EXCEPT !.status = status, !.updatedAt = IF at > @ THEN at ELSE @ + 1]

Revise(row, tasks, nonces) ==
  [revision |-> row.revision + 1, tasks |-> tasks, nonces |-> nonces]

NoncesOf(row) == {n.nonce : n \in row.nonces}

(***************************************************************************)
(* expire(at, afterRestart): what is overdue goes to manual review, never  *)
(* back to the queue, and worn-out nonces are dropped.                     *)
(***************************************************************************)
(* Mutated: any task that was queued too long ago is due.                   *)
DueWhateverStatus(t, at, afterRestart) ==
  \/ t.queuedUntil <= at
  \/ t.status = "running" /\ (afterRestart \/ t.leaseUntil <= at)

(* Mutated: leases are not looked at while the process runs.                *)
DueOnlyQueued(t, at, afterRestart) ==
  \/ t.status = "queued" /\ (afterRestart \/ t.queuedUntil <= at)
  \/ t.status = "running" /\ afterRestart

Due(t, at, afterRestart) ==
  \/ t.status = "queued" /\ (afterRestart \/ t.queuedUntil <= at)
  \/ t.status = "running" /\ (afterRestart \/ t.leaseUntil <= at)

Overdue(row, at, afterRestart) ==
  {k \in DOMAIN row.tasks : Due(row.tasks[k], at, afterRestart)}

(* Mutated: a nonce is dropped one tick before its signature wears out.     *)
LiveNoncesTooShort(row, at) == {n \in row.nonces : n.until > at + 1}

LiveNonces(row, at) == {n \in row.nonces : n.until > at}

MustExpire(row, at, afterRestart) ==
  Overdue(row, at, afterRestart) # {} \/ LiveNonces(row, at) # row.nonces

ExpiredTasks(row, at, afterRestart) ==
  [k \in DOMAIN row.tasks |->
     IF Due(row.tasks[k], at, afterRestart)
     THEN Transition(row.tasks[k], "awaiting_review", at)
     ELSE row.tasks[k]]

Expired(row, at, afterRestart) ==
  IF MustExpire(row, at, afterRestart)
  THEN Revise(row, ExpiredTasks(row, at, afterRestart), LiveNonces(row, at))
  ELSE row

(* Memory, store and authorizations of process i once the expire(at) that  *)
(* opens every request went through.                                       *)
Fresh(i) == Expired(copy[i], now, FALSE)
FreshStore(i) == IF MustExpire(copy[i], now, FALSE) THEN Fresh(i) ELSE store
FreshSessions(i) == {s \in sessions[i] : s.task \notin Overdue(copy[i], now, FALSE)}
CanExpire(i) ==
  MustExpire(copy[i], now, FALSE) => copy[i].revision = store.revision

(***************************************************************************)
(* commit(): the compare-and-swap and its failures                         *)
(***************************************************************************)
Accept(row) == accepted' = accepted \cup NoncesOf(row)

(* Mutated: the write does not compare the revision.                        *)
CommitsAnyway(i, row, mem, next) ==
  /\ store' = next
  /\ copy' = [copy EXCEPT ![i] = next]
  /\ Accept(next)

(* The row is written and the process goes on with it.                     *)
Commits(i, row, mem, next) ==
  /\ mem.revision = row.revision
  /\ store' = next
  /\ copy' = [copy EXCEPT ![i] = next]
  /\ Accept(next)

(* Mutated: memory is replaced before the write is tried.                   *)
CommitThrowsAhead(i, row, mem, next, held) ==
  /\ store' = row
  /\ copy' = [copy EXCEPT ![i] = next]
  /\ UNCHANGED <<needsRecovery, sessions, accepted, lock, phase, serves, granted>>

(* The write throws: the revision had moved on, the statement failed, or it *)
(* was durable although it failed.  The process reads the row again and     *)
(* stops answering if the revision is not its own or cannot be read.        *)
CommitThrows(i, row, mem, next, held) ==
  /\ \/ store' = row
     \/ mem.revision = row.revision /\ store' = next
  /\ copy' = [copy EXCEPT ![i] = mem]
  /\ \E stop \in BOOLEAN :
       /\ store'.revision # mem.revision => stop
       /\ needsRecovery' = [needsRecovery EXCEPT ![i] = stop]
       /\ sessions' = [sessions EXCEPT ![i] = IF stop THEN {} ELSE held]
  /\ Accept(store')
  /\ UNCHANGED <<lock, phase, serves, granted>>

(* The process disappears with everything it held in memory.               *)
Down(i) ==
  /\ phase' = [phase EXCEPT ![i] = "down"]
  /\ needsRecovery' = [needsRecovery EXCEPT ![i] = FALSE]
  /\ copy' = [copy EXCEPT ![i] = Blank]
  /\ serves' = [serves EXCEPT ![i] = {}]
  /\ sessions' = [sessions EXCEPT ![i] = {}]

CommitThenCrash(i, row, mem, next) ==
  /\ mem.revision = row.revision
  /\ store' = next
  /\ Accept(next)
  /\ Down(i)
  /\ UNCHANGED <<lock, granted>>

CommitFails(i, row, mem, next, held) ==
  CommitThrows(i, row, mem, next, held) \/ CommitThenCrash(i, row, mem, next)

(* The commit a handler makes after its expire(at): tasks and nonces are the *)
(* new contents, held the authorizations left when the commit is tried, left *)
(* those left when it succeeded, grants what the reply then gives away.      *)
HandlerCommits(i, tasks, nonces, held, left, grants) ==
  LET next == Revise(Fresh(i), tasks, nonces) IN
  \/ /\ Commits(i, FreshStore(i), Fresh(i), next)
     /\ sessions' = [sessions EXCEPT ![i] = left]
     /\ granted' = granted \cup grants
     /\ UNCHANGED <<lock, phase, needsRecovery, serves>>
  \/ CommitFails(i, FreshStore(i), Fresh(i), next, held)

(***************************************************************************)
(* The process                                                             *)
(***************************************************************************)
Serving(i) == phase[i] = "serving" /\ ~needsRecovery[i]

Init ==
  /\ now = 0
  /\ lock = FALSE
  /\ store = Blank
  /\ phase = [i \in Instances |-> "down"]
  /\ needsRecovery = [i \in Instances |-> FALSE]
  /\ copy = [i \in Instances |-> Blank]
  /\ serves = [i \in Instances |-> {}]
  /\ sessions = [i \in Instances |-> {}]
  /\ signed = << >>
  /\ granted = {}
  /\ accepted = {}

(* mkdir of the lock, load, and expire(now, true): what was queued lost its *)
(* authorization with the old process and what ran is not known to have     *)
(* stopped, so neither is offered again.                                    *)
Starts(i, registry) ==
  /\ lock' = TRUE
  /\ store' = Expired(store, now, TRUE)
  /\ phase' = [phase EXCEPT ![i] = "serving"]
  /\ copy' = [copy EXCEPT ![i] = Expired(store, now, TRUE)]
  /\ serves' = [serves EXCEPT ![i] = registry]
  /\ Accept(store')
  /\ UNCHANGED <<now, needsRecovery, sessions, signed, granted>>

(* That first commit threw (the lock is released again) or was the last     *)
(* thing the process did (it stays).                                        *)
StartFails(i) ==
  /\ MustExpire(store, now, TRUE)
  /\ store' \in {store, Expired(store, now, TRUE)}
  /\ lock' \in BOOLEAN
  /\ Accept(store')
  /\ UNCHANGED <<now, phase, needsRecovery, copy, serves, sessions, signed, granted>>

Start(i) ==
  /\ phase[i] = "down"
  /\ ~lock
  /\ StartFails(i) \/ \E registry \in Registries : Starts(i, registry)

(* close(): memory is cleared at once, the lock goes when the listeners are *)
(* closed; rmdir removes the directory whoever made it.                     *)
Close(i) ==
  /\ phase[i] = "serving"
  /\ phase' = [phase EXCEPT ![i] = "closing"]
  /\ needsRecovery' = [needsRecovery EXCEPT ![i] = FALSE]
  /\ copy' = [copy EXCEPT ![i] = Blank]
  /\ serves' = [serves EXCEPT ![i] = {}]
  /\ sessions' = [sessions EXCEPT ![i] = {}]
  /\ UNCHANGED <<now, lock, store, signed, granted, accepted>>

Release(i) ==
  /\ phase[i] = "closing"
  /\ phase' = [phase EXCEPT ![i] = "down"]
  /\ lock' = FALSE
  /\ UNCHANGED <<now, store, needsRecovery, copy, serves, sessions, signed,
                 granted, accepted>>

Crash(i) ==
  /\ phase[i] # "down"
  /\ Down(i)
  /\ UNCHANGED <<now, lock, store, signed, granted, accepted>>

(* Somebody removes the lock directory, after a crash or by mistake.        *)
ClearLock ==
  /\ lock
  /\ lock' = FALSE
  /\ UNCHANGED <<now, store, phase, needsRecovery, copy, serves, sessions,
                 signed, granted, accepted>>

(* The 30 s timer, and every request that changes nothing beyond the        *)
(* expire(at) it starts with: reads, refused or repeated submissions,       *)
(* repeated nonces, and requests that answer 503 because expire(at) threw.  *)
Sweep(i) ==
  /\ Serving(i)
  /\ MustExpire(copy[i], now, FALSE)
  /\ Commits(i, store, copy[i], Fresh(i))
  /\ sessions' = [sessions EXCEPT ![i] = FreshSessions(i)]
  /\ UNCHANGED <<now, lock, phase, needsRecovery, serves, signed, granted>>

SweepFails(i) ==
  /\ Serving(i)
  /\ MustExpire(copy[i], now, FALSE)
  /\ CommitFails(i, store, copy[i], Fresh(i), FreshSessions(i))
  /\ UNCHANGED <<now, signed>>

(* Mutated: a code whose task has ended may be submitted again.             *)
UnassignedOrEnded(i, c) ==
  \A k \in DOMAIN Fresh(i).tasks :
    Fresh(i).tasks[k].code # c \/ Fresh(i).tasks[k].status \in Final

(* submit answers with the code's task if there is one.                     *)
Unassigned(i, c) == \A k \in DOMAIN Fresh(i).tasks : Fresh(i).tasks[k].code # c

(* The shop submits a code that has no task yet with an authorization that  *)
(* is still valid; the task is durable before the authorization is kept.    *)
Submit(i, c) ==
  LET tasks == Fresh(i).tasks IN
  /\ Serving(i) /\ CanExpire(i)
  /\ now <= LastCall
  /\ Unassigned(i, c)
  /\ c \in serves[i]
  /\ \E life \in SessionLifetimes \ {0} :
       HandlerCommits(i, Append(tasks, NewTask(c, now)), Fresh(i).nonces,
         FreshSessions(i),
         FreshSessions(i) \cup {[task |-> Len(tasks) + 1, expires |-> now + life]},
         {})
  /\ UNCHANGED <<now, signed>>

(***************************************************************************)
(* Worker requests.  A request is admitted while its signature is recent   *)
(* and its nonce unknown; the commit that carries its effect also carries  *)
(* its nonce.  The network may lose, delay, repeat and reorder requests:   *)
(* any request signed so far may arrive.                                   *)
(***************************************************************************)
Admits(i, n, kind) ==
  /\ Serving(i) /\ CanExpire(i)
  /\ signed[n].kind = kind
  /\ now < signed[n].time + SignatureWindow
  /\ n \notin NoncesOf(Fresh(i))

NoncesWith(i, n) ==
  Fresh(i).nonces \cup {[nonce |-> n, until |-> signed[n].time + SignatureWindow]}

(* finish(): commit the tasks with the nonce, then answer.                  *)
Finish(i, n, tasks) ==
  /\ HandlerCommits(i, tasks, NoncesWith(i, n), FreshSessions(i), FreshSessions(i), {})
  /\ UNCHANGED <<now, signed>>

Queued(i) == {k \in DOMAIN Fresh(i).tasks : Fresh(i).tasks[k].status = "queued"}

(* A queued task the process may hand out: its code is configured and its   *)
(* authorization is still in memory and valid.                              *)
Claimable(i) ==
  {k \in Queued(i) :
     /\ Fresh(i).tasks[k].code \in serves[i]
     /\ \E s \in FreshSessions(i) : s.task = k /\ s.expires > now}

(* The tasks a claim sets aside: those before the one it takes, or all.     *)
SetAside(i) ==
  {k \in Queued(i) : \A j \in Claimable(i) : k < j}

(* Mutated: the claimed task keeps the lease it had, none.                  *)
ClaimedWithoutLease(i, k) ==
  [Transition(Fresh(i).tasks[k], "running", now) EXCEPT !.leaseUntil = now + LeaseLifetime]

Claimed(i, k) ==
  [Transition(Fresh(i).tasks[k], "running", now)
     EXCEPT !.lease = Fresh(i).revision + 1, !.leaseUntil = now + LeaseLifetime]

ClaimTasks(i, taken) ==
  [k \in DOMAIN Fresh(i).tasks |->
     IF k \in taken THEN Claimed(i, k)
     ELSE IF k \in SetAside(i)
          THEN Transition(Fresh(i).tasks[k], "awaiting_review", now)
          ELSE Fresh(i).tasks[k]]

(* Mutated: the authorization stays in memory.                              *)
SessionsKept(i, ks) == FreshSessions(i)

SessionsBeside(i, ks) == {s \in FreshSessions(i) : s.task \notin ks}

(* The claim takes the oldest claimable task; its authorization leaves      *)
(* memory with the reply, after the lease is durable.                       *)
Claim(i, n) ==
  /\ Admits(i, n, "claim")
  /\ \E k \in Claimable(i) :
       /\ \A j \in Claimable(i) : k <= j
       /\ HandlerCommits(i, ClaimTasks(i, {k}), NoncesWith(i, n),
            SessionsBeside(i, SetAside(i)),
            SessionsBeside(i, SetAside(i) \cup {k}),
            {[task |-> k, lease |-> Fresh(i).revision + 1,
              code |-> Fresh(i).tasks[k].code]})
  /\ UNCHANGED <<now, signed>>

ClaimNothing(i, n) ==
  /\ Admits(i, n, "claim")
  /\ Claimable(i) = {}
  /\ HandlerCommits(i, ClaimTasks(i, {}), NoncesWith(i, n),
       SessionsBeside(i, SetAside(i)), SessionsBeside(i, SetAside(i)), {})
  /\ UNCHANGED <<now, signed>>

(* The lease token is the worker's proof; it outlives the lease.            *)
HoldsLease(tasks, r) ==
  /\ r.task \in DOMAIN tasks
  /\ tasks[r.task].lease # 0
  /\ tasks[r.task].lease = r.lease

ProgressAccepted(tasks, r) ==
  /\ HoldsLease(tasks, r)
  /\ tasks[r.task].status = "running"
  /\ r.job # NoJob
  /\ tasks[r.task].job \in {NoJob, r.job}

Progress(i, n) ==
  LET tasks == Fresh(i).tasks
      r == signed[n] IN
  /\ Admits(i, n, "progress")
  /\ ProgressAccepted(tasks, r)
  /\ Finish(i, n, [tasks EXCEPT ![r.task] =
       [Transition(@, "running", now)
          EXCEPT !.job = r.job, !.leaseUntil = now + LeaseLifetime]])

(* A confirmed outcome carries evidence, an unknown one none, and a known   *)
(* upstream job must be named again.                                        *)
WellFormed(task, r) ==
  /\ (r.status \in Confirmed) <=> (r.evidence # NoEvidence)
  /\ task.job \in {NoJob, r.job}

ResultAccepted(tasks, r) ==
  /\ HoldsLease(tasks, r)
  /\ WellFormed(tasks[r.task], r)
  /\ tasks[r.task].status = "running"
  /\ r.status \in Confirmed =>
       \A k \in DOMAIN tasks : tasks[k].evidence # r.evidence

Result(i, n) ==
  LET tasks == Fresh(i).tasks
      r == signed[n] IN
  /\ Admits(i, n, "result")
  /\ ResultAccepted(tasks, r)
  /\ Finish(i, n, [tasks EXCEPT ![r.task] =
       [Transition(@, r.status, now)
          EXCEPT !.outcome = r.status, !.evidence = r.evidence,
                 !.outcomeJob = r.job]])

(* 404, 400 and 409, and the 200 that repeats a recorded result: the nonce  *)
(* is committed, no task changes.                                           *)
Refuse(i, n) ==
  LET tasks == Fresh(i).tasks IN
  /\ \/ Admits(i, n, "progress") /\ ~ProgressAccepted(tasks, signed[n])
     \/ Admits(i, n, "result") /\ ~ResultAccepted(tasks, signed[n])
  /\ Finish(i, n, tasks)

(***************************************************************************)
(* The worker's side: every request is signed with a nonce of its own.     *)
(* A lease other than 0 is known only from a claim reply.                  *)
(***************************************************************************)
Sign(kind, task, lease, body) ==
  /\ now <= LastCall
  /\ Len(signed) < MaxRequests
  /\ signed' = Append(signed,
       [time |-> now, kind |-> kind, task |-> task, lease |-> lease,
        status |-> body.status, evidence |-> body.evidence, job |-> body.job])
  /\ UNCHANGED <<now, service, granted, accepted>>

SignClaim == Sign("claim", 0, 0, NoBody)

SignProgress(g) ==
  \E j \in Jobs : Sign("progress", g.task, g.lease, [NoBody EXCEPT !.job = j])

SignResult(g) ==
  \E b \in Results, held \in BOOLEAN :
    Sign("result", g.task, IF held THEN g.lease ELSE 0, b)

Tick ==
  /\ now < MaxTime
  /\ now' = now + 1
  /\ UNCHANGED <<service, signed, granted, accepted>>

Operator == ClearLock \/ \E i \in Instances : Start(i) \/ Close(i) \/ Release(i) \/ Crash(i)

Handle(i) ==
  \/ Sweep(i)
  \/ SweepFails(i)
  \/ \E c \in Codes : Submit(i, c)
  \/ \E n \in DOMAIN signed : \/ Claim(i, n) \/ ClaimNothing(i, n)
                              \/ Progress(i, n) \/ Result(i, n) \/ Refuse(i, n)

Worker ==
  \/ SignClaim
  \/ \E g \in granted : SignProgress(g) \/ SignResult(g)

Next == Tick \/ Operator \/ Worker \/ \E i \in Instances : Handle(i)

Spec == Init /\ [][Next]_vars

(***************************************************************************)
(* Properties                                                              *)
(***************************************************************************)
(* Every variable has its type, and the row in memory or in the file is a   *)
(* well-formed row.                                                         *)
TypeOK ==
  /\ now \in Nat /\ lock \in BOOLEAN
  /\ store \in Row
  /\ phase \in [Instances -> {"down", "serving", "closing"}]
  /\ needsRecovery \in [Instances -> BOOLEAN]
  /\ copy \in [Instances -> Row]
  /\ serves \in [Instances -> SUBSET Codes]
  /\ sessions \in [Instances -> SUBSET Session]
  /\ signed \in Seq(Request)
  /\ granted \in SUBSET Grant
  /\ accepted \in SUBSET Nat

(* A code is bound to one task for ever, whichever process accepted it and  *)
(* however often the shop submits it: submit answers with the prior task.   *)
OneTaskPerCode ==
  \A j, k \in DOMAIN store.tasks :
    store.tasks[j].code = store.tasks[k].code => j = k

(* An execution code leaves the service once: no restart, lost reply,       *)
(* repeated claim or second process on the file hands it out again.         *)
HandedOutOnce == \A g, h \in granted : g.code = h.code => g = h

(* What was handed out is on record: the file holds the lease that the      *)
(* reply named, on a task that has left the queue.                          *)
Recorded(g, tasks) ==
  /\ g.task \in DOMAIN tasks
  /\ tasks[g.task].code = g.code
  /\ tasks[g.task].lease = g.lease
  /\ tasks[g.task].status # "queued"

HandedOutOnRecord == \A g \in granted : Recorded(g, store.tasks)

(* A process that answers never shows a task the file does not have, nor a  *)
(* newer or different one under the same updatedAt.                         *)
ReadsNeverAhead ==
  \A i \in Instances : Serving(i) =>
    \A k \in DOMAIN copy[i].tasks :
      /\ k \in DOMAIN store.tasks
      /\ store.tasks[k].code = copy[i].tasks[k].code
      /\ \/ copy[i].tasks[k].updatedAt < store.tasks[k].updatedAt
         \/ copy[i].tasks[k] = store.tasks[k]

(* The customer's authorization is kept only while its task is still queued *)
(* in the memory of the process that accepted it, and never beside a reply  *)
(* that gave it to a worker or in a process that stopped answering.         *)
SessionsOnlyForQueued ==
  \A i \in Instances : \A s \in sessions[i] :
    /\ Serving(i)
    /\ s.task \in DOMAIN copy[i].tasks
    /\ copy[i].tasks[s.task].status = "queued"
    /\ \A g \in granted : g.task # s.task

(* One piece of evidence settles one task.                                  *)
EvidenceSettlesOne ==
  \A j, k \in DOMAIN store.tasks :
    /\ store.tasks[j].status \in Confirmed
    /\ store.tasks[k].status \in Confirmed
    /\ store.tasks[j].evidence = store.tasks[k].evidence
    => j = k

(* A confirmed outcome names the upstream job that progress reports tied to *)
(* the task, and carries evidence; a task without a lease has no outcome.   *)
OutcomeFitsTask ==
  \A k \in DOMAIN store.tasks :
    LET t == store.tasks[k] IN
    /\ t.status \in Confirmed => /\ t.outcome = t.status
                                 /\ t.evidence # NoEvidence
                                 /\ t.job \in {NoJob, t.outcomeJob}
    /\ t.outcome # "none" => t.lease # 0 /\ t.status = t.outcome

(* A task that was settled or needs review is never touched again, and no   *)
(* task is dropped from the file or changes its code or its upstream job.   *)
SettledForGood ==
  [][\A k \in DOMAIN store.tasks :
       /\ k \in DOMAIN store'.tasks
       /\ store'.tasks[k].code = store.tasks[k].code
       /\ store.tasks[k].job \in {NoJob, store'.tasks[k].job}
       /\ store.tasks[k].status \in Final => store'.tasks[k] = store.tasks[k]]_vars

(* Each change of a recorded task raises its updatedAt, also when the clock *)
(* has not moved: the shop ignores a snapshot that is not newer.            *)
SnapshotsAdvance ==
  [][\A k \in DOMAIN store.tasks :
       store'.tasks[k] # store.tasks[k]
         => store'.tasks[k].updatedAt > store.tasks[k].updatedAt]_vars

(* A signed request takes effect once: its nonce enters the file in at most *)
(* one commit, across restarts and after it was dropped from the file.      *)
RequestsTakeEffectOnce ==
  [][\A n \in NoncesOf(store') \ NoncesOf(store) : n \notin accepted]_vars

(***************************************************************************)
(* The service implements its promise                                      *)
(***************************************************************************)
ledgerBar ==
  [c \in Codes |->
     IF \E k \in DOMAIN store.tasks : store.tasks[k].code = c
     THEN store.tasks[CHOOSE k \in DOMAIN store.tasks : store.tasks[k].code = c].status
     ELSE "none"]

handedBar == {g.code : g \in granted}

Promise == INSTANCE RechargePromise WITH ledger <- ledgerBar, handed <- handedBar

(* Every change of the file is a step the promise allows.                   *)
KeepsPromise == Promise!PromiseSpec

(***************************************************************************)
(* The inductive invariant behind the safety properties, in named parts    *)
(***************************************************************************)
(* What holds of every task and of every row of tasks.                     *)
TaskOK(t) ==
  /\ t.status = "queued" => t.lease = 0
  /\ t.status = "running" => t.lease # 0
  /\ t.outcome # "none" => t.lease # 0 /\ t.status = t.outcome
  /\ t.evidence # NoEvidence => t.outcome # "none"
  /\ t.status \in Confirmed => /\ t.outcome = t.status
                               /\ t.evidence # NoEvidence
                               /\ t.job \in {NoJob, t.outcomeJob}

CodesOnce(ts) == \A j, k \in DOMAIN ts : ts[j].code = ts[k].code => j = k

EvidenceOnce(ts) ==
  \A j, k \in DOMAIN ts :
    ts[j].evidence = ts[k].evidence /\ ts[j].evidence # NoEvidence => j = k

TasksOK(ts) ==
  /\ \A k \in DOMAIN ts : TaskOK(ts[k])
  /\ CodesOnce(ts)
  /\ EvidenceOnce(ts)

(* How a task, and a row's tasks, may change.                              *)
TaskGrows(t, u) ==
  /\ u.code = t.code
  /\ u.updatedAt > t.updatedAt
  /\ t.status \notin Final
  /\ u.status # "queued"
  /\ t.job \in {NoJob, u.job}
  /\ t.lease # 0 => u.lease = t.lease

TasksGrow(ts, us) ==
  /\ DOMAIN ts \subseteq DOMAIN us
  /\ \A k \in DOMAIN ts : us[k] = ts[k] \/ TaskGrows(ts[k], us[k])

(* A process that has the file's revision has the file's row, and the file  *)
(* has grown out of what any process still remembers.                       *)
Sync ==
  \A i \in Instances : phase[i] = "serving" =>
    /\ copy[i].revision <= store.revision
    /\ copy[i].revision = store.revision => copy[i] = store
    /\ TasksGrow(copy[i].tasks, store.tasks)

CopiesOK == \A i \in Instances : TasksOK(copy[i].tasks)

(* All of it together: every step preserves it.                             *)
IInv ==
  /\ TypeOK
  /\ TasksOK(store.tasks)
  /\ CopiesOK
  /\ Sync
  /\ HandedOutOnRecord

(* No two processes hold an authorization for the same task: a task is made *)
(* by one commit, and a process that lost the file commits no more.         *)
SessionsApart ==
  \A i, j \in Instances : \A s \in sessions[i], r \in sessions[j] :
    s.task = r.task => i = j

SessionsOK == SessionsOnlyForQueued /\ SessionsApart

(* A nonce in the file is that of a signed request and stays until the      *)
(* signature wears out; an accepted one is in the file or has worn out.     *)
WearsOut(n) == signed[n].time + SignatureWindow

NoncesOK ==
  /\ \A m \in store.nonces : m.nonce \in DOMAIN signed /\ m.until = WearsOut(m.nonce)
  /\ \A n \in accepted : /\ n \in DOMAIN signed
                         /\ n \in NoncesOf(store) \/ WearsOut(n) <= now

(***************************************************************************)
(* Liveness.  Timers fire, the clock runs, a write that is tried again and *)
(* again succeeds at last, and a process that is closing comes to an end.  *)
(* Nothing makes a process that needs recovery go away (it answers 503),   *)
(* nor makes one start: that is the operators' part.                       *)
(***************************************************************************)
Fairness ==
  /\ WF_vars(Tick)
  /\ \A i \in Instances : SF_vars(Sweep(i)) /\ WF_vars(Release(i))

FairSpec == Spec /\ Fairness

(* The operators keep bringing the service back, however often its process *)
(* dies, is closed or ends up unable to write.                             *)
ServiceComesBack == []<>(\E i \in Instances : Serving(i))

(* A task does not stay queued or running while the operators bring the    *)
(* service back whenever it went away or needs recovery: it gets an outcome *)
(* or a human is asked to review it (expire at every start, and the timer). *)
EveryTaskSettles ==
  ServiceComesBack =>
    \A k \in 1..MaxRequests :
      (k \in DOMAIN store.tasks /\ store.tasks[k].status \notin Final)
        ~> (k \in DOMAIN store.tasks /\ store.tasks[k].status \in Final)
=============================================================================
