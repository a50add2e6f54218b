--------------------------- MODULE RechargeWorker ---------------------------
(***************************************************************************)
(* The worker modules/recharge/vendure/codexdaichong-worker.mjs between    *)
(* its two servers: the task service, of which RechargeBridge is the full  *)
(* model and of which this module keeps what a worker can see, and the     *)
(* recharge engine that performs the activation and is not in the          *)
(* repository.                                                             *)
(*                                                                         *)
(* The worker does one thing at a time: it waits for the answer to a       *)
(* request, for at most Timeout, or sleeps.  Whatever it does between two  *)
(* awaits is one action.  A request whose answer never came may have been  *)
(* handled, may still be handled later, or never.                          *)
(***************************************************************************)
EXTENDS Naturals, Sequences, FiniteSets

CONSTANTS
  Codes,      \* execution codes, one per task
  Stages,     \* what the engine's messages say of a running job
  Timeout,    \* timeoutMs: how long a request may take
  Poll,       \* pollIntervalMs
  Heartbeat,  \* how long a repeated stage is not reported again
  Lease,      \* the service's leaseLifetimeMs
  LastEnd,    \* bound: no job ends after this time
  MaxTime,    \* bound on the clock
  MaxFaults,  \* bound on failed requests, crashes and restarts
  MaxLate     \* bound on unanswered requests still on their way

VARIABLES
  now,
  tasks,     \* the task service's record of each code
  jobs,      \* the engine's jobs, in the order it started them
  worker,    \* what the worker process is doing
  stopping,  \* the worker was told to stop
  late,      \* requests that the worker gave up on and nobody has handled
  faults

vars == <<now, tasks, jobs, worker, stopping, late, faults>>

ASSUME WorkerAssumption ==
  /\ {Timeout, Poll, Heartbeat, Lease} \subseteq Nat \ {0}
  /\ {LastEnd, MaxTime, MaxFaults, MaxLate} \subseteq Nat
  /\ Stages \cap {"none", "started", "running", "succeeded", "failed"} = {}

Job == 1..Len(jobs)
NoJob == 0
Confirmed == {"succeeded", "failed"}
Outcome == Confirmed \cup {"awaiting_review"}

(* A request names what its handler reads; the lease token stands for the   *)
(* code, since a task is leased once.                                       *)
NoMessage == [kind |-> "claim", code |-> "none", job |-> NoJob, outcome |-> "none"]

NoReply == [is |-> "none", code |-> "none", lease |-> 0, job |-> NoJob, state |-> "none"]
Reply(is) == [NoReply EXCEPT !.is = is]

(* The worker: the request it waits for, its answer once there is one, the  *)
(* end of the wait, and the locals of execute.                              *)
IdleWorker == [pc |-> "idle", message |-> NoMessage, served |-> FALSE, reply |-> NoReply, until |-> 0,
               code |-> "none", lease |-> 0, job |-> NoJob, stage |-> "none",
               lastStage |-> "none", heartbeatAt |-> 0, outcome |-> "none", attempt |-> 0]

Fresh == [status |-> "none", leaseUntil |-> 0, job |-> NoJob, outcome |-> "none", outcomeJob |-> NoJob]

Init ==
  /\ now = 0
  /\ tasks = [c \in Codes |-> Fresh]
  /\ jobs = << >>
  /\ worker = IdleWorker
  /\ stopping = FALSE
  /\ late = {}
  /\ faults = 0

(***************************************************************************)
(* The task service                                                        *)
(***************************************************************************)
(* A lease that ran out leaves a task for manual review.                    *)
Overdue(ts) ==
  [c \in Codes |-> IF ts[c].status = "running" /\ ts[c].leaseUntil <= now
                   THEN [ts[c] EXCEPT !.status = "awaiting_review"] ELSE ts[c]]

(* How a server answers: the state it leaves behind and the reply.          *)
ServiceSays(ts, reply) == [tasks |-> ts, jobs |-> jobs, reply |-> reply]

Leased(t) == [t EXCEPT !.status = "running", !.leaseUntil = now + Lease]

ClaimAnswers(ts) ==
  LET queued == {c \in Codes : ts[c].status = "queued"} IN
  IF queued = {} THEN {ServiceSays(ts, Reply("idle"))}
  ELSE {ServiceSays([ts EXCEPT ![c] = Leased(ts[c])],
                    [Reply("task") EXCEPT !.code = c, !.lease = now + Lease]) : c \in queued}

Running(t, m) == [t EXCEPT !.job = m.job, !.leaseUntil = now + Lease]

ProgressAnswer(ts, m) ==
  IF ts[m.code].status = "running" /\ ts[m.code].job \in {NoJob, m.job}
  THEN ServiceSays([ts EXCEPT ![m.code] = Running(ts[m.code], m)],
                   [Reply("ok") EXCEPT !.lease = now + Lease])
  ELSE ServiceSays(ts, Reply("refused"))

(* The evidence of a confirmed outcome names the engine's job.  A result    *)
(* that is on record already is confirmed again.                            *)
EvidenceUsed(ts, m) ==
  m.outcome \in Confirmed /\
    \E c \in Codes : ts[c].status \in Confirmed /\ ts[c].outcomeJob = m.job
Recorded(t, m) == t.outcome = m.outcome /\ t.outcomeJob = m.job
Accepts(ts, m) ==
  /\ ts[m.code].status = "running"
  /\ ts[m.code].job \in {NoJob, m.job}
  /\ ~EvidenceUsed(ts, m)
Settled(t, m) == [t EXCEPT !.status = m.outcome, !.outcome = m.outcome, !.outcomeJob = m.job]

ResultAnswer(ts, m) ==
  IF Accepts(ts, m)
  THEN ServiceSays([ts EXCEPT ![m.code] = Settled(ts[m.code], m)], Reply("ok"))
  ELSE ServiceSays(ts, IF Recorded(ts[m.code], m) THEN Reply("ok") ELSE Reply("refused"))

(***************************************************************************)
(* The recharge engine                                                     *)
(***************************************************************************)
EngineSays(js, reply) == [tasks |-> tasks, jobs |-> js, reply |-> reply]

RunAnswers(m) ==
  {EngineSays(Append(jobs, [code |-> m.code, state |-> "running"]),
              [Reply("ok") EXCEPT !.job = Len(jobs) + 1]),
   EngineSays(jobs, Reply("refused"))}

(* What the engine says of a job: its end, or a message of its progress.    *)
PollAnswers(m) ==
  LET state == jobs[m.job].state IN
  {EngineSays(jobs, [Reply("ok") EXCEPT !.state = said]) :
     said \in IF state = "running" THEN Stages ELSE {state}}

Answers(m) ==
  LET ts == Overdue(tasks) IN
  CASE m.kind = "claim" -> ClaimAnswers(ts)
    [] m.kind = "progress" -> {ProgressAnswer(ts, m)}
    [] m.kind = "result" -> {ResultAnswer(ts, m)}
    [] m.kind = "run" -> RunAnswers(m)
    [] OTHER -> PollAnswers(m)

(***************************************************************************)
(* The worker: what it does next                                           *)
(***************************************************************************)
Waits(w, m) == [w EXCEPT !.pc = "waits", !.message = m, !.served = FALSE, !.reply = NoReply,
                         !.until = now + Timeout]
MessageOf(w, kind) == [kind |-> kind, code |-> w.code, job |-> w.job, outcome |-> w.outcome]
Asks(w, kind) == Waits(w, MessageOf(w, kind))

(* Mutant: room for one more request is enough.                             *)
CanContinueShort(w) == now + Timeout < w.lease

(* There must be room for two more requests within the lease.               *)
CanContinue(w) == now + Timeout * 2 < w.lease

Reports(w, outcome) ==
  LET told == [w EXCEPT !.outcome = outcome, !.attempt = 0, !.stage = "none"] IN
  Asks(told, "result")

Watches(w) == IF CanContinue(w) THEN Asks(w, "poll") ELSE Reports(w, "awaiting_review")

Sleeps(w) == [w EXCEPT !.pc = "sleeps", !.message = NoMessage, !.served = FALSE,
                       !.reply = NoReply, !.until = now + Poll]

(* collectProgress in the loop: a stage is reported when it changes, and    *)
(* again as a sign of life after a while.                                   *)
Collects(w, stage) ==
  IF w.lastStage = stage /\ now < w.heartbeatAt THEN Sleeps(w)
  ELSE Asks([w EXCEPT !.stage = stage], "progress")

AfterProgress(w) == IF w.stage = "started" THEN Watches(w) ELSE Sleeps(w)

(* runOnce and execute: what follows on an answer.                          *)
Claimed(w) ==
  IF w.reply.is # "task" THEN IdleWorker
  ELSE LET leased == [w EXCEPT !.code = w.reply.code, !.lease = w.reply.lease] IN
       IF CanContinue(leased) THEN Asks(leased, "run") ELSE Reports(leased, "awaiting_review")

Ran(w) ==
  IF w.reply.is # "ok" THEN Reports(w, "awaiting_review")
  ELSE Asks([w EXCEPT !.job = w.reply.job, !.stage = "started"], "progress")

Progressed(w) ==
  AfterProgress(IF w.reply.is # "ok" THEN w
                ELSE [w EXCEPT !.lease = w.reply.lease, !.lastStage = w.stage,
                               !.heartbeatAt = now + Heartbeat])

Polled(w) ==
  IF w.reply.state \in Confirmed THEN Reports(w, w.reply.state) ELSE Collects(w, w.reply.state)

Reported(w) == IdleWorker

(* ... and on a request that failed or took too long.                       *)
(* Mutant: an activation that was not answered is tried again.              *)
RunFailedRetries(w) ==
  IF w.attempt = 0 THEN Asks([w EXCEPT !.attempt = 1], "run") ELSE Reports(w, "awaiting_review")

RunFailed(w) == Reports(w, "awaiting_review")

(* Mutant: a job that cannot be read counts as failed.                      *)
PollFailedCounts(w) == Reports(w, "failed")

PollFailed(w) == Reports(w, "awaiting_review")

(* A report is tried twice.                                                 *)
ResultFailed(w) == IF w.attempt = 0 THEN Asks([w EXCEPT !.attempt = 1], "result") ELSE IdleWorker

Goes(next) == worker' = next

(* The next round, unless the worker was told to stop; the look at the      *)
(* engine's health that precedes it decides only whether there is one.      *)
ClaimNext ==
  /\ worker.pc = "idle" /\ ~stopping
  /\ Goes(Asks(IdleWorker, "claim"))
  /\ UNCHANGED <<now, tasks, jobs, stopping, late, faults>>

Receive ==
  LET w == worker IN
  /\ w.pc = "waits" /\ w.served
  /\ Goes(CASE w.message.kind = "claim" -> Claimed(w)
            [] w.message.kind = "run" -> Ran(w)
            [] w.message.kind = "progress" -> Progressed(w)
            [] w.message.kind = "poll" -> Polled(w)
            [] OTHER -> Reported(w))
  /\ UNCHANGED <<now, tasks, jobs, stopping, late, faults>>

(* Mutant: a worker that was told to stop leaves its job alone.             *)
WakeUnlessStopped ==
  /\ worker.pc = "sleeps" /\ now = worker.until
  /\ Goes(IF stopping THEN IdleWorker ELSE Watches(worker))
  /\ UNCHANGED <<now, tasks, jobs, stopping, late, faults>>

Wake ==
  /\ worker.pc = "sleeps" /\ now = worker.until
  /\ Goes(Watches(worker))
  /\ UNCHANGED <<now, tasks, jobs, stopping, late, faults>>

Faulty == faults < MaxFaults /\ faults' = faults + 1

(* A request that nobody answered may still be on its way.                  *)
Forgets(w) ==
  \/ UNCHANGED late
  \/ /\ w.pc = "waits" /\ ~w.served /\ w.message.kind # "poll"
     /\ Cardinality(late) < MaxLate
     /\ late' = late \cup {w.message}

(* The answer is lost, unreadable, a server error, or too late.             *)
Fail ==
  LET w == worker IN
  /\ w.pc = "waits"
  /\ Faulty
  /\ Forgets(w)
  /\ Goes(CASE w.message.kind = "claim" -> IdleWorker
            [] w.message.kind = "run" -> RunFailed(w)
            [] w.message.kind = "progress" -> AfterProgress(w)
            [] w.message.kind = "poll" -> PollFailed(w)
            [] OTHER -> ResultFailed(w))
  /\ UNCHANGED <<now, tasks, jobs, stopping>>

(***************************************************************************)
(* The servers                                                             *)
(***************************************************************************)
Serve ==
  /\ worker.pc = "waits" /\ ~worker.served
  /\ \E a \in Answers(worker.message) :
       /\ tasks' = a.tasks /\ jobs' = a.jobs
       /\ Goes([worker EXCEPT !.served = TRUE, !.reply = a.reply])
  /\ UNCHANGED <<now, stopping, late, faults>>

ServeLate(m) ==
  /\ m \in late
  /\ late' = late \ {m}
  /\ \E a \in Answers(m) : tasks' = a.tasks /\ jobs' = a.jobs
  /\ UNCHANGED <<now, worker, stopping, faults>>

(* Mutant: a code whose task went to review may be submitted again.         *)
SubmitAgain(c) ==
  /\ tasks[c].status \in {"none", "awaiting_review"}
  /\ tasks' = [Overdue(tasks) EXCEPT ![c].status = "queued"]
  /\ UNCHANGED <<now, jobs, worker, stopping, late, faults>>

(* The shop submits a code.                                                 *)
Submit(c) ==
  /\ tasks[c].status = "none"
  /\ tasks' = [Overdue(tasks) EXCEPT ![c].status = "queued"]
  /\ UNCHANGED <<now, jobs, worker, stopping, late, faults>>

(* The service's sweep, which also gives up what waited too long.           *)
Sweep ==
  /\ \E S \in SUBSET {c \in Codes : tasks[c].status = "queued"} :
       tasks' = [c \in Codes |-> IF c \in S THEN [tasks[c] EXCEPT !.status = "awaiting_review"]
                                 ELSE Overdue(tasks)[c]]
  /\ UNCHANGED <<now, jobs, worker, stopping, late, faults>>

(* A restart of the service leaves every open task for review.              *)
ServiceRestarts ==
  /\ Faulty
  /\ tasks' = [c \in Codes |-> IF tasks[c].status \in {"queued", "running"}
                               THEN [tasks[c] EXCEPT !.status = "awaiting_review"] ELSE tasks[c]]
  /\ UNCHANGED <<now, jobs, worker, stopping, late>>

JobEnds(j) ==
  /\ now <= LastEnd
  /\ jobs[j].state = "running"
  /\ \E state \in Confirmed : jobs' = [jobs EXCEPT ![j].state = state]
  /\ UNCHANGED <<now, tasks, worker, stopping, late, faults>>

(* The worker process is told to stop, or dies and is started again.        *)
Stop ==
  /\ ~stopping
  /\ stopping' = TRUE
  /\ UNCHANGED <<now, tasks, jobs, worker, late, faults>>

WorkerRestarts ==
  /\ Faulty
  /\ Forgets(worker)
  /\ Goes(IdleWorker)
  /\ stopping' = FALSE
  /\ UNCHANGED <<now, tasks, jobs>>

(* Time passes while the worker waits or sleeps, and as long as nobody      *)
(* needs it the worker may be idle.                                         *)
Tick ==
  /\ now < MaxTime
  /\ worker.pc # "idle" => now < worker.until
  /\ now' = now + 1
  /\ UNCHANGED <<tasks, jobs, worker, stopping, late, faults>>

Next ==
  \/ ClaimNext \/ Receive \/ Wake \/ Fail \/ Serve
  \/ \E m \in late : ServeLate(m)
  \/ \E c \in Codes : Submit(c)
  \/ Sweep \/ ServiceRestarts
  \/ \E j \in Job : JobEnds(j)
  \/ Stop \/ WorkerRestarts \/ Tick

Spec == Init /\ [][Next]_vars

(* Both servers answer, the worker goes on and time passes.                 *)
FairSpec == Spec /\ WF_vars(Serve) /\ WF_vars(Receive) /\ WF_vars(Wake) /\ WF_vars(Tick)

(***************************************************************************)
(* Properties                                                              *)
(***************************************************************************)
Attempts == 0..1
Progress == Stages \cup {"none", "started"}
Message == [kind : {"claim", "run", "progress", "poll", "result"}, code : Codes \cup {"none"},
            job : Nat, outcome : Outcome \cup {"none"}]
Answer == [is : {"none", "idle", "task", "ok", "refused"}, code : Codes \cup {"none"},
           lease : Nat, job : Nat, state : Stages \cup Confirmed \cup {"none"}]
Worker == [pc : {"idle", "waits", "sleeps"}, message : Message, served : BOOLEAN, reply : Answer,
           until : Nat, code : Codes \cup {"none"}, lease : Nat, job : Nat,
           stage : Progress, lastStage : Progress, heartbeatAt : Nat,
           outcome : Outcome \cup {"none"}, attempt : Attempts]
Task == [status : {"none", "queued", "running"} \cup Outcome, leaseUntil : Nat, job : Nat,
         outcome : Outcome \cup {"none"}, outcomeJob : Nat]
JobRecord == [code : Codes, state : Confirmed \cup {"running"}]

(* Every variable has its type.                                             *)
TypeOK ==
  /\ now \in 0..MaxTime
  /\ tasks \in [Codes -> Task]
  /\ jobs \in Seq(JobRecord)
  /\ worker \in Worker
  /\ stopping \in BOOLEAN
  /\ late \subseteq Message /\ IsFiniteSet(late) /\ Cardinality(late) <= MaxLate
  /\ faults \in 0..MaxFaults

(* The engine never starts a second run of a code, whatever was lost, timed *)
(* out, crashed or arrived late: a customer is not charged twice.           *)
OneRunPerCode == \A j, k \in Job : jobs[j].code = jobs[k].code => j = k

(* What the shop is told of an activation is what the engine said of the    *)
(* job that ran for this very code.                                         *)
OutcomeIsTheEngines ==
  \A c \in Codes :
    tasks[c].status \in Confirmed =>
      LET j == tasks[c].outcomeJob IN
      j \in Job /\ jobs[j].code = c /\ jobs[j].state = tasks[c].status

(* An outcome that the worker learned is first reported while its lease     *)
(* lasts: the room for two requests is enough for the question and the      *)
(* report.                                                                  *)
ReportsInTime ==
  worker.pc = "waits" /\ worker.message.kind = "result" /\ worker.attempt = 0
    /\ worker.outcome \in Confirmed /\ ~worker.served
      => now < tasks[worker.code].leaseUntil

(* As long as every request is answered in time the end of a job, however   *)
(* long it runs, is recorded, also when the worker was told to stop.        *)
EndedJobsAreRecorded ==
  \A c \in Codes, j \in 1..Cardinality(Codes), state \in Confirmed :
    (faults = 0 /\ j \in Job /\ jobs[j] = [code |-> c, state |-> state])
      ~> (tasks[c].status = state \/ faults # 0)

(* Seen from both sides of the service the abstract ledger is the same one  *)
(* that RechargeBridge implements.                                          *)
Promise == INSTANCE RechargePromise WITH
  ledger <- [c \in Codes |-> tasks[c].status],
  handed <- {c \in Codes : tasks[c].leaseUntil # 0}
KeepsPromise == Promise!PromiseSpec

(***************************************************************************)
(* The inductive invariant                                                 *)
(***************************************************************************)
(* A job of the engine that runs this code.                                 *)
Runs(js, c, j) == j \in 1..Len(js) /\ js[j].code = c

(* A task is leased once it left the queue, for no longer than from now;    *)
(* its outcome is that of its job.                                          *)
TaskFits(t, c, js) ==
  /\ t.leaseUntil <= now + Lease
  /\ t.leaseUntil # 0 => t.status \notin {"none", "queued"}
  /\ t.status = "running" => t.leaseUntil # 0
  /\ t.status \in Confirmed => Runs(js, c, t.outcomeJob) /\ js[t.outcomeJob].state = t.status

(* A request about a job names the job of its code, and a confirmed outcome *)
(* is what the engine said of that job.                                     *)
MessageFits(m, js) ==
  m.kind # "claim" =>
    /\ m.code \in Codes
    /\ m.job # NoJob => Runs(js, m.code, m.job)
    /\ m.kind = "poll" => m.job # NoJob
    /\ m.kind = "result" => m.outcome \in Outcome
    /\ m.kind = "result" /\ m.outcome \in Confirmed =>
         m.job # NoJob /\ js[m.job].state = m.outcome

(* What an answer says is still so when the worker reads it.                *)
ReplyFits(m, r, ts, js) ==
  /\ m.kind = "claim" /\ r.is = "task" =>
       r.code \in Codes /\ r.lease <= ts[r.code].leaseUntil
  /\ m.kind = "run" /\ r.is = "ok" => r.job # NoJob /\ Runs(js, m.code, r.job)
  /\ m.kind = "progress" /\ r.is = "ok" => r.lease <= ts[m.code].leaseUntil
  /\ m.kind = "poll" /\ r.state \in Confirmed => js[m.job].state = r.state

(* The worker and its task: it never believes in a longer lease than the    *)
(* service does, asks about a job only with time for another request, and   *)
(* first reports what it learned within the lease.                          *)
Executes(w) == w.pc = "sleeps" \/ (w.pc = "waits" /\ w.message.kind # "claim")

WorkerFits(w, ts, js) ==
  /\ Executes(w) => /\ w.code \in Codes /\ w.lease <= ts[w.code].leaseUntil
                    /\ w.job # NoJob => Runs(js, w.code, w.job)
  /\ w.pc = "sleeps" => w.job # NoJob
  /\ w.pc = "waits" /\ w.message.kind = "claim" => w.job = NoJob
  /\ w.pc = "waits" =>
       /\ MessageFits(w.message, js)
       /\ w.message.kind # "claim" => w.message = MessageOf(w, w.message.kind)
       /\ w.message.kind = "progress" => w.job # NoJob
       /\ w.served => ReplyFits(w.message, w.reply, ts, js)
       /\ w.message.kind = "poll" => w.until + Timeout < w.lease
       /\ w.message.kind = "result" /\ w.attempt = 0 /\ w.outcome \in Confirmed => w.until < w.lease

(* The right to start a code's run is a single one: it is with the worker,  *)
(* between the claim's answer and the engine's, or on its way to the engine *)
(* after the worker gave up, or used.  A code it was given for cannot be    *)
(* claimed again.                                                           *)
MayRun(w, c) ==
  /\ w.pc = "waits"
  /\ \/ w.message.kind = "claim" /\ w.served /\ w.reply.is = "task" /\ w.reply.code = c
     \/ w.message.kind = "run" /\ ~w.served /\ w.code = c
MayRunLate(ls, c) == \E m \in ls : m.kind = "run" /\ m.code = c
HasRun(js, c) == \E j \in 1..Len(js) : js[j].code = c

OneRight(w, ls, ts, js) ==
  /\ \A j, k \in 1..Len(js) : js[j].code = js[k].code => j = k
  /\ \A m, n \in ls : m.kind = "run" /\ n.kind = "run" /\ m.code = n.code => m = n
  /\ \A c \in Codes :
       /\ MayRun(w, c) \/ MayRunLate(ls, c) \/ HasRun(js, c) => ts[c].status \notin {"none", "queued"}
       /\ ~(MayRun(w, c) /\ MayRunLate(ls, c))
       /\ ~(MayRun(w, c) /\ HasRun(js, c))
       /\ ~(MayRunLate(ls, c) /\ HasRun(js, c))

IInv ==
  /\ TypeOK
  /\ \A c \in Codes : TaskFits(tasks[c], c, jobs)
  /\ \A m \in late : MessageFits(m, jobs)
  /\ WorkerFits(worker, tasks, jobs)
  /\ worker.pc # "idle" => now <= worker.until
  /\ OneRight(worker, late, tasks, jobs)
=============================================================================
