------------------------ MODULE RechargeWorker_proofs ------------------------
(***************************************************************************)
(* Proofs about RechargeWorker for any codes, stages, time limits and      *)
(* bounds.                                                                 *)
(*                                                                         *)
(* What changes at the two servers is stated once (WorldMoves): no job     *)
(* disappears or changes its code, no end of a job changes, leases only    *)
(* grow and a task moves as the promise says.  All that a worker or a      *)
(* request on its way relies on survives such a change.                    *)
(***************************************************************************)
EXTENDS RechargeWorker, SequenceTheorems, FiniteSetTheorems, TLAPS

(***************************************************************************)
(* Changes at the servers                                                  *)
(***************************************************************************)
Starts(t, new) == t.status = "queued" /\ new.status = "running"

LegalMove(old, new) ==
  \/ old = "none" /\ new = "queued"
  \/ old = "queued" /\ new \in {"running", "awaiting_review"}
  \/ old = "running" /\ new \in Outcome

TaskMoves(t, new) ==
  /\ new.status # t.status => LegalMove(t.status, new.status)
  /\ t.leaseUntil <= new.leaseUntil
  /\ t.leaseUntil = 0 /\ new.leaseUntil # 0 => Starts(t, new)

TasksMove(ts, new) ==
  /\ \A c \in Codes : TaskMoves(ts[c], new[c])
  /\ \A c, d \in Codes : Starts(ts[c], new[c]) /\ Starts(ts[d], new[d]) => c = d

JobsMove(js, new) ==
  /\ Len(js) <= Len(new)
  /\ \A j \in 1..Len(js) : /\ new[j].code = js[j].code
                           /\ js[j].state \in Confirmed => new[j].state = js[j].state

Typed(ts, js) == ts \in [Codes -> Task] /\ js \in Seq(JobRecord)

AllFit(ts, js) == \A c \in Codes : TaskFits(ts[c], c, js)

WorldMoves(ts, js, new, jn) ==
  Typed(new, jn) /\ AllFit(new, jn) /\ TasksMove(ts, new) /\ JobsMove(js, jn)

LEMMA JobTypes ==
  ASSUME NEW js \in Seq(JobRecord)
  PROVE  Len(js) \in Nat /\ \A j \in 1..Len(js) : js[j] \in JobRecord
  BY ElementOfSeq, LenProperties

LEMMA RunsMoved ==
  ASSUME NEW js \in Seq(JobRecord), NEW jn \in Seq(JobRecord), JobsMove(js, jn),
         NEW c, NEW j, Runs(js, c, j)
  PROVE  Runs(jn, c, j) /\ (js[j].state \in Confirmed => jn[j].state = js[j].state)
  BY JobTypes DEF JobsMove, Runs

LEMMA MessageMoved ==
  ASSUME NEW js \in Seq(JobRecord), NEW jn \in Seq(JobRecord), JobsMove(js, jn),
         NEW m, MessageFits(m, js)
  PROVE  MessageFits(m, jn)
<1>1. m.kind # "claim" /\ m.job # NoJob =>
        Runs(jn, m.code, m.job) /\ (js[m.job].state \in Confirmed => jn[m.job].state = js[m.job].state)
  BY RunsMoved DEF MessageFits
<1>. QED
  BY <1>1 DEF MessageFits

LEMMA ReplyMoved ==
  ASSUME NEW ts, NEW js, NEW new, NEW jn, Typed(ts, js), WorldMoves(ts, js, new, jn),
         NEW m \in Message, MessageFits(m, js), NEW r \in Answer, ReplyFits(m, r, ts, js)
  PROVE  ReplyFits(m, r, new, jn)
<1>1. \A c \in Codes : ts[c].leaseUntil <= new[c].leaseUntil
                       /\ ts[c].leaseUntil \in Nat /\ new[c].leaseUntil \in Nat
  BY DEF WorldMoves, TasksMove, TaskMoves, Typed, Task
<1>2. r.lease \in Nat
  BY DEF Answer
<1>3. m.kind = "claim" /\ r.is = "task" => r.code \in Codes /\ r.lease <= new[r.code].leaseUntil
  BY <1>1, <1>2 DEF ReplyFits
<1>4. m.kind = "run" /\ r.is = "ok" => r.job # NoJob /\ Runs(jn, m.code, r.job)
  BY RunsMoved DEF ReplyFits, WorldMoves, Typed
<1>5. m.kind = "progress" /\ r.is = "ok" => r.lease <= new[m.code].leaseUntil
  BY <1>1, <1>2 DEF ReplyFits, MessageFits
<1>6. m.kind = "poll" /\ r.state \in Confirmed => jn[m.job].state = r.state
  <2>. SUFFICES ASSUME m.kind = "poll", r.state \in Confirmed PROVE jn[m.job].state = r.state
    OBVIOUS
  <2>1. Runs(js, m.code, m.job) /\ js[m.job].state = r.state
    BY DEF MessageFits, ReplyFits
  <2>. QED
    BY <2>1, RunsMoved DEF WorldMoves, Typed
<1>. QED
  BY <1>3, <1>4, <1>5, <1>6 DEF ReplyFits

LEMMA WorkerMoved ==
  ASSUME NEW ts, NEW js, NEW new, NEW jn, Typed(ts, js), WorldMoves(ts, js, new, jn),
         NEW w \in Worker, WorkerFits(w, ts, js)
  PROVE  WorkerFits(w, new, jn)
<1>1. \A c \in Codes : ts[c].leaseUntil <= new[c].leaseUntil
                       /\ ts[c].leaseUntil \in Nat /\ new[c].leaseUntil \in Nat
  BY DEF WorldMoves, TasksMove, TaskMoves, Typed, Task
<1>2. w.lease \in Nat /\ w.message \in Message /\ w.reply \in Answer
  BY DEF Worker
<1>3. Executes(w) => /\ w.code \in Codes /\ w.lease <= new[w.code].leaseUntil
                     /\ w.job # NoJob => Runs(jn, w.code, w.job)
  BY <1>1, <1>2, RunsMoved DEF WorkerFits, WorldMoves, Typed
<1>4. w.pc = "waits" => MessageFits(w.message, jn)
  BY MessageMoved DEF WorkerFits, WorldMoves, Typed
<1>5. w.pc = "waits" /\ w.served => ReplyFits(w.message, w.reply, new, jn)
  BY <1>2, ReplyMoved DEF WorkerFits
<1>. QED
  BY <1>3, <1>4, <1>5 DEF WorkerFits

LEMMA TaskStays ==
  ASSUME NEW ts, NEW js, NEW jn, Typed(ts, js), AllFit(ts, js), jn \in Seq(JobRecord), JobsMove(js, jn)
  PROVE  WorldMoves(ts, js, ts, jn)
<1>1. TasksMove(ts, ts)
  BY DEF TasksMove, TaskMoves, Starts, Typed, Task
<1>2. AllFit(ts, jn)
  <2>. SUFFICES ASSUME NEW c \in Codes PROVE TaskFits(ts[c], c, jn)
    BY DEF AllFit
  <2>1. TaskFits(ts[c], c, js)
    BY DEF AllFit
  <2>2. ts[c].status \in Confirmed =>
          Runs(jn, c, ts[c].outcomeJob) /\ jn[ts[c].outcomeJob].state = ts[c].status
    BY <2>1, RunsMoved DEF TaskFits, Typed
  <2>. QED
    BY <2>1, <2>2 DEF TaskFits
<1>. QED
  BY <1>1, <1>2 DEF WorldMoves, Typed

LEMMA JobsStay == ASSUME NEW js \in Seq(JobRecord) PROVE JobsMove(js, js)
  BY JobTypes DEF JobsMove

LEMMA Expiry ==
  ASSUME Typed(tasks, jobs), NEW c \in Codes
  PROVE  /\ Overdue(tasks)[c] \in Task
         /\ Overdue(tasks)[c].leaseUntil = tasks[c].leaseUntil
         /\ Overdue(tasks)[c].job = tasks[c].job
         /\ Overdue(tasks)[c].outcome = tasks[c].outcome
         /\ Overdue(tasks)[c].outcomeJob = tasks[c].outcomeJob
         /\ \/ Overdue(tasks)[c].status = tasks[c].status
            \/ tasks[c].status = "running" /\ Overdue(tasks)[c].status = "awaiting_review"
<1>1. tasks[c] \in Task
  BY DEF Typed
<1>2. Overdue(tasks)[c] = IF tasks[c].status = "running" /\ tasks[c].leaseUntil <= now
                          THEN [tasks[c] EXCEPT !.status = "awaiting_review"] ELSE tasks[c]
  BY DEF Overdue
<1>. QED
  BY <1>1, <1>2 DEF Task, Outcome, Confirmed

LEMMA ExpiredFits ==
  ASSUME Typed(tasks, jobs), NEW c \in Codes, TaskFits(tasks[c], c, jobs)
  PROVE  /\ TaskFits(Overdue(tasks)[c], c, jobs)
         /\ TaskMoves(tasks[c], Overdue(tasks)[c])
         /\ ~Starts(tasks[c], Overdue(tasks)[c])
<1>1. tasks[c] \in Task
  BY DEF Typed
<1>. QED
  BY <1>1, Expiry DEF TaskFits, TaskMoves, Starts, LegalMove, Outcome, Confirmed, Task

(* At most one task changes besides the expired ones.                       *)
LEMMA OneTask ==
  ASSUME Typed(tasks, jobs), AllFit(tasks, jobs), NEW c \in Codes, NEW row \in Task,
         TaskFits(row, c, jobs), TaskMoves(tasks[c], row), NEW ts, ts = Overdue(tasks)
  PROVE  WorldMoves(tasks, jobs, [ts EXCEPT ![c] = row], jobs)
<1>. DEFINE new == [ts EXCEPT ![c] = row]
<1>1. ts \in [Codes -> Task]
  BY Expiry DEF Overdue
<1>2. new \in [Codes -> Task] /\ new[c] = row /\ \A d \in Codes \ {c} : new[d] = ts[d]
  BY <1>1
<1>. HIDE DEF new
<1>3. \A d \in Codes : TaskFits(new[d], d, jobs) /\ TaskMoves(tasks[d], new[d])
  <2>. SUFFICES ASSUME NEW d \in Codes
                PROVE  TaskFits(new[d], d, jobs) /\ TaskMoves(tasks[d], new[d])
    OBVIOUS
  <2>1. CASE d = c
    BY <1>2, <2>1
  <2>2. CASE d # c
    BY <1>2, <2>2, ExpiredFits DEF AllFit
  <2>. QED
    BY <2>1, <2>2
<1>4. \A d \in Codes \ {c} : ~Starts(tasks[d], new[d])
  BY <1>2, ExpiredFits DEF AllFit
<1>5. TasksMove(tasks, new)
  BY <1>3, <1>4 DEF TasksMove
<1>. QED
  BY <1>2, <1>3, <1>5, JobsStay DEF WorldMoves, Typed, AllFit, new

LEMMA OnlyExpiry ==
  ASSUME Typed(tasks, jobs), AllFit(tasks, jobs)
  PROVE  WorldMoves(tasks, jobs, Overdue(tasks), jobs)
<1>1. Overdue(tasks) \in [Codes -> Task]
  BY Expiry DEF Overdue
<1>. QED
  BY <1>1, ExpiredFits, JobsStay DEF WorldMoves, Typed, AllFit, TasksMove

(***************************************************************************)
(* The servers' answers                                                    *)
(***************************************************************************)
(* What an answer to a message leaves behind and says.                      *)
Sound(m, a) ==
  /\ WorldMoves(tasks, jobs, a.tasks, a.jobs)
  /\ a.reply \in Answer
  /\ ReplyFits(m, a.reply, a.tasks, a.jobs)
  /\ m.kind = "run" => a.tasks = tasks
  /\ m.kind = "run" /\ a.jobs # jobs => a.jobs = Append(jobs, [code |-> m.code, state |-> "running"])
  /\ m.kind # "run" => a.jobs = jobs
  /\ m.kind = "claim" /\ a.reply.is = "task" => Starts(tasks[a.reply.code], a.tasks[a.reply.code])

LEMMA Replies ==
  /\ NoReply \in Answer
  /\ \A is \in {"none", "idle", "task", "ok", "refused"} :
       /\ Reply(is) \in Answer /\ Reply(is).is = is /\ Reply(is).state = "none"
       /\ \A n \in Nat : /\ [Reply(is) EXCEPT !.lease = n] \in Answer
                          /\ [Reply(is) EXCEPT !.lease = n].lease = n
                          /\ [Reply(is) EXCEPT !.lease = n].is = is
                          /\ [Reply(is) EXCEPT !.job = n] \in Answer
                          /\ [Reply(is) EXCEPT !.job = n].job = n
                          /\ [Reply(is) EXCEPT !.job = n].is = is
<1>1. NoReply \in Answer /\ NoReply.state = "none"
  BY DEF NoReply, Answer, NoJob
<1>2. ASSUME NEW is \in {"none", "idle", "task", "ok", "refused"}
      PROVE  Reply(is) \in Answer /\ Reply(is).is = is /\ Reply(is).state = "none"
  BY <1>1 DEF Reply, Answer
<1>3. ASSUME NEW r \in Answer, NEW n \in Nat
      PROVE  /\ [r EXCEPT !.lease = n] \in Answer /\ [r EXCEPT !.lease = n].lease = n
             /\ [r EXCEPT !.lease = n].is = r.is
             /\ [r EXCEPT !.job = n] \in Answer /\ [r EXCEPT !.job = n].job = n
             /\ [r EXCEPT !.job = n].is = r.is
  BY DEF Answer
<1>. QED
  BY <1>1, <1>2, <1>3

LEMMA ClaimSound ==
  ASSUME Typed(tasks, jobs), AllFit(tasks, jobs), now \in Nat, NEW m, m.kind = "claim",
         NEW a \in ClaimAnswers(Overdue(tasks))
  PROVE  Sound(m, a)
<1>. DEFINE ts == Overdue(tasks)
            end == now + Lease
            queued == {c \in Codes : ts[c].status = "queued"}
<1>1. end \in Nat \ {0} /\ end <= now + Lease
  BY WorkerAssumption
<1>2. CASE a = ServiceSays(ts, Reply("idle"))
  BY <1>2, Replies, OnlyExpiry DEF Sound, ServiceSays, ReplyFits
<1>3. ASSUME NEW c \in queued,
             a = ServiceSays([ts EXCEPT ![c] = Leased(ts[c])],
                             [Reply("task") EXCEPT !.code = c, !.lease = end])
      PROVE  Sound(m, a)
  <2>. DEFINE row == Leased(ts[c])
              reply == [Reply("task") EXCEPT !.code = c, !.lease = end]
              new == [ts EXCEPT ![c] = row]
  <2>1. ts[c] \in Task /\ ts[c].status = "queued" /\ tasks[c].status = "queued"
    BY Expiry
  <2>. HIDE DEF end
  <2>2. row \in Task /\ row.status = "running" /\ row.leaseUntil = end
    BY <1>1, <2>1 DEF Leased, Task, end
  <2>3. reply \in Answer /\ reply.code = c /\ reply.lease = end
    BY <1>1 DEF Reply, NoReply, Answer, NoJob
  <2>. HIDE DEF reply, row
  <2>4. TaskFits(row, c, jobs)
    BY <1>1, <2>2 DEF TaskFits, Confirmed
  <2>5. tasks[c].leaseUntil = 0
    BY <2>1 DEF AllFit, TaskFits
  <2>6. TaskMoves(tasks[c], row) /\ Starts(tasks[c], row)
    BY <1>1, <2>1, <2>2, <2>5 DEF TaskMoves, Starts, LegalMove
  <2>7. WorldMoves(tasks, jobs, new, jobs)
    BY <2>2, <2>4, <2>6, OneTask
  <2>8. new[c] = row
    BY DEF Overdue
  <2>9. a.tasks = new /\ a.jobs = jobs /\ a.reply = reply
    BY <1>3 DEF ServiceSays, row, reply
  <2>. HIDE DEF new
  <2>. QED
    BY <2>2, <2>3, <2>6, <2>7, <2>8, <2>9, <1>1 DEF Sound, ReplyFits
<1>. QED
  BY <1>2, <1>3 DEF ClaimAnswers

LEMMA ProgressSound ==
  ASSUME Typed(tasks, jobs), AllFit(tasks, jobs), now \in Nat, NEW m \in Message,
         m.kind = "progress", MessageFits(m, jobs)
  PROVE  Sound(m, ProgressAnswer(Overdue(tasks), m))
<1>. DEFINE ts == Overdue(tasks)
            c == m.code
            end == now + Lease
            row == Running(ts[c], m)
            new == [ts EXCEPT ![c] = row]
            a == ProgressAnswer(ts, m)
<1>1. end \in Nat \ {0} /\ end <= now + Lease
  BY WorkerAssumption
<1>2. c \in Codes /\ m.job \in Nat
  BY DEF MessageFits, Message
<1>3. CASE a = ServiceSays(ts, Reply("refused"))
  BY <1>3, Replies, OnlyExpiry DEF Sound, ServiceSays, ReplyFits
<1>4. CASE ts[c].status = "running" /\ a = ServiceSays(new, [Reply("ok") EXCEPT !.lease = end])
  <2>1. ts[c] \in Task /\ tasks[c] \in Task /\ tasks[c].status = "running"
        /\ tasks[c].leaseUntil # 0 /\ tasks[c].leaseUntil <= end
    BY <1>2, <1>4, Expiry DEF AllFit, TaskFits, Typed
  <2>. HIDE DEF end
  <2>2. row \in Task /\ row.status = "running" /\ row.leaseUntil = end
    BY <1>1, <1>2, <1>4, <2>1 DEF Running, Task, end
  <2>. HIDE DEF row
  <2>3. TaskFits(row, c, jobs) /\ TaskMoves(tasks[c], row)
    BY <1>1, <2>1, <2>2 DEF TaskFits, TaskMoves, Confirmed
  <2>4. WorldMoves(tasks, jobs, new, jobs)
    BY <1>2, <2>2, <2>3, OneTask
  <2>5. new[c] = row
    BY <1>2 DEF Overdue
  <2>6. a.tasks = new /\ a.jobs = jobs /\ a.reply = [Reply("ok") EXCEPT !.lease = end]
    BY <1>4 DEF ServiceSays
  <2>. HIDE DEF new, a
  <2>7. a.reply \in Answer /\ a.reply.lease = end
    <3>1. Reply("ok") \in Answer
      BY Replies
    <3>. QED
      BY <1>1, <2>6, <3>1 DEF Answer
  <2>8. Sound(m, a)
    BY <1>1, <2>2, <2>4, <2>5, <2>6, <2>7 DEF Sound, ReplyFits
  <2>. QED
    BY <2>8 DEF a
<1>. QED
  BY <1>3, <1>4 DEF ProgressAnswer

LEMMA ResultSound ==
  ASSUME Typed(tasks, jobs), AllFit(tasks, jobs), now \in Nat, NEW m \in Message,
         m.kind = "result", MessageFits(m, jobs)
  PROVE  Sound(m, ResultAnswer(Overdue(tasks), m))
<1>. DEFINE ts == Overdue(tasks)
            c == m.code
            row == Settled(ts[c], m)
            new == [ts EXCEPT ![c] = row]
            a == ResultAnswer(ts, m)
<1>1. c \in Codes /\ m.job \in Nat /\ m.outcome \in Outcome
  BY DEF MessageFits, Message
<1>2. CASE a \in {ServiceSays(ts, Reply("refused")), ServiceSays(ts, Reply("ok"))}
  BY <1>2, Replies, OnlyExpiry DEF Sound, ServiceSays, ReplyFits
<1>3. CASE Accepts(ts, m) /\ a = ServiceSays(new, Reply("ok"))
  <2>1. ts[c] \in Task /\ tasks[c] \in Task /\ tasks[c].status = "running"
        /\ tasks[c].leaseUntil # 0 /\ tasks[c].leaseUntil <= now + Lease
        /\ ts[c].leaseUntil = tasks[c].leaseUntil
    BY <1>1, <1>3, Expiry DEF AllFit, TaskFits, Typed, Accepts
  <2>2. row \in Task /\ row.status = m.outcome /\ row.leaseUntil = tasks[c].leaseUntil
        /\ row.outcomeJob = m.job
    BY <1>1, <2>1 DEF Settled, Task, Outcome, Confirmed
  <2>. HIDE DEF row
  <2>3. m.outcome \in Confirmed => Runs(jobs, c, m.job) /\ jobs[m.job].state = m.outcome
    BY DEF MessageFits
  <2>4. TaskFits(row, c, jobs) /\ TaskMoves(tasks[c], row)
    BY <1>1, <2>1, <2>2, <2>3 DEF TaskFits, TaskMoves, LegalMove, Outcome, Confirmed, Task
  <2>5. WorldMoves(tasks, jobs, new, jobs)
    BY <1>1, <2>2, <2>4, OneTask
  <2>6. a.tasks = new /\ a.jobs = jobs /\ a.reply = Reply("ok")
    BY <1>3 DEF ServiceSays
  <2>. HIDE DEF new, a
  <2>7. Sound(m, a)
    BY <2>5, <2>6, Replies DEF Sound, ReplyFits
  <2>. QED
    BY <2>7 DEF a
<1>. QED
  BY <1>2, <1>3 DEF ResultAnswer

LEMMA RunSound ==
  ASSUME Typed(tasks, jobs), AllFit(tasks, jobs), NEW m \in Message, m.kind = "run",
         MessageFits(m, jobs), NEW a \in RunAnswers(m)
  PROVE  Sound(m, a)
<1>. DEFINE js == Append(jobs, [code |-> m.code, state |-> "running"])
            n == Len(jobs) + 1
<1>1. m.code \in Codes /\ jobs \in Seq(JobRecord)
  BY DEF MessageFits, Typed
<1>2. js \in Seq(JobRecord) /\ Len(js) = n /\ js[n].code = m.code
      /\ n \in 1..Len(js) /\ \A j \in 1..Len(jobs) : js[j] = jobs[j]
  BY <1>1, AppendProperties DEF JobRecord
<1>3. JobsMove(jobs, js)
  BY <1>1, <1>2, JobTypes DEF JobsMove
<1>4. CASE a = EngineSays(js, [Reply("ok") EXCEPT !.job = n])
  <2>1. WorldMoves(tasks, jobs, tasks, js)
    BY <1>2, <1>3, TaskStays
  <2>2. n \in Nat /\ n # NoJob
    BY <1>1, JobTypes DEF NoJob
  <2>. HIDE DEF n
  <2>3. a.tasks = tasks /\ a.jobs = js /\ a.reply \in Answer /\ a.reply.job = n /\ a.reply.is = "ok"
    BY <1>4, <2>2, Replies DEF EngineSays
  <2>4. Runs(js, m.code, n)
    BY <1>2 DEF Runs
  <2>. QED
    BY <2>1, <2>2, <2>3, <2>4 DEF Sound, ReplyFits
<1>5. CASE a = EngineSays(jobs, Reply("refused"))
  BY <1>1, <1>5, Replies, TaskStays, JobsStay DEF EngineSays, Sound, ReplyFits
<1>. QED
  BY <1>4, <1>5 DEF RunAnswers

LEMMA PollSound ==
  ASSUME Typed(tasks, jobs), AllFit(tasks, jobs), NEW m \in Message, m.kind = "poll",
         MessageFits(m, jobs), NEW a \in PollAnswers(m)
  PROVE  Sound(m, a)
<1>1. m.job \in 1..Len(jobs) /\ jobs \in Seq(JobRecord)
  BY DEF MessageFits, Runs, Typed
<1>2. jobs[m.job].state \in Confirmed \cup {"running"}
  BY <1>1, JobTypes DEF JobRecord
<1>3. PICK said : /\ said \in IF jobs[m.job].state = "running" THEN Stages ELSE {jobs[m.job].state}
                  /\ a = EngineSays(jobs, [Reply("ok") EXCEPT !.state = said])
  BY DEF PollAnswers
<1>4. said \in Stages \cup Confirmed /\ (said \in Confirmed => jobs[m.job].state = said)
  BY <1>2, <1>3, WorkerAssumption DEF Confirmed
<1>5. a.reply \in Answer /\ a.reply.state = said /\ a.tasks = tasks /\ a.jobs = jobs
  BY <1>3, <1>4 DEF EngineSays, Reply, NoReply, Answer, NoJob
<1>. QED
  BY <1>1, <1>4, <1>5, TaskStays, JobsStay DEF Sound, ReplyFits

LEMMA AnswersSound ==
  ASSUME Typed(tasks, jobs), AllFit(tasks, jobs), now \in Nat, NEW m \in Message,
         MessageFits(m, jobs), NEW a \in Answers(m)
  PROVE  Sound(m, a)
<1>1. m.kind \in {"claim", "run", "progress", "poll", "result"}
  BY DEF Message
<1>. QED
  BY <1>1, ClaimSound, ProgressSound, ResultSound, RunSound, PollSound DEF Answers

(***************************************************************************)
(* What the worker does next                                               *)
(***************************************************************************)
(* A worker that works on a task, and what it may become: it knows what is  *)
(* so, is in time, and may start no run.                                    *)
OnTask(w) ==
  /\ w \in Worker /\ w.code \in Codes /\ w.lease <= tasks[w.code].leaseUntil
  /\ w.job # NoJob => Runs(jobs, w.code, w.job)

Fit(x) == x \in Worker /\ WorkerFits(x, tasks, jobs) /\ (x.pc # "idle" => now <= x.until)

Quiet(x) == Fit(x) /\ \A c \in Codes : ~MayRun(x, c)

LEMMA IdleFits == Quiet(IdleWorker)
<1>1. NoMessage \in Message /\ NoReply \in Answer
  BY Replies DEF NoMessage, Message, NoJob
<1>2. IdleWorker \in Worker /\ IdleWorker.pc = "idle"
  BY <1>1 DEF IdleWorker, Worker, Progress, NoJob, Attempts
<1>. QED
  BY <1>2 DEF Quiet, Fit, WorkerFits, Executes, MayRun

AskedBy(x, w, kind) ==
  /\ x \in Worker /\ x.pc = "waits" /\ x.served = FALSE /\ x.until = now + Timeout
  /\ x.message = MessageOf(w, kind) /\ x.message = MessageOf(x, kind)
  /\ x.message.kind = kind /\ x.message.code = w.code /\ x.message.job = w.job
  /\ x.message.outcome = w.outcome /\ x.message \in Message
  /\ x.code = w.code /\ x.lease = w.lease /\ x.job = w.job /\ x.outcome = w.outcome
  /\ x.attempt = w.attempt

LEMMA Asking ==
  ASSUME now \in Nat, NEW w \in Worker, NEW kind \in {"claim", "run", "progress", "poll", "result"}
  PROVE  AskedBy(Asks(w, kind), w, kind)
<1>. DEFINE x == Asks(w, kind)
<1>. DEFINE end == now + Timeout
<1>1. end \in Nat
  BY WorkerAssumption
<1>. HIDE DEF end
<1>2. MessageOf(w, kind) \in Message
  BY DEF MessageOf, Message, Worker
<1>3. x = [w EXCEPT !.pc = "waits", !.message = MessageOf(w, kind), !.served = FALSE,
                    !.reply = NoReply, !.until = end]
  BY DEF Asks, Waits, end
<1>0. NoReply \in Answer
  BY Replies
<1>. HIDE DEF x
<1>4. x \in Worker /\ x.pc = "waits" /\ x.served = FALSE /\ x.until = end
      /\ x.message = MessageOf(w, kind)
      /\ x.code = w.code /\ x.lease = w.lease /\ x.job = w.job /\ x.outcome = w.outcome
      /\ x.attempt = w.attempt
  BY <1>0, <1>1, <1>2, <1>3 DEF Worker
<1>5. AskedBy(x, w, kind)
  BY <1>2, <1>4 DEF MessageOf, AskedBy, end
<1>. QED
  BY <1>5 DEF x

(* A question or report about the task at hand.                             *)
LEMMA AsksFits ==
  ASSUME now \in Nat, NEW w, OnTask(w), NEW kind \in {"run", "progress", "poll", "result"},
         kind \in {"progress", "poll"} => w.job # NoJob,
         kind = "poll" => now + Timeout * 2 < w.lease,
         kind = "result" => w.outcome \in Outcome,
         kind = "result" /\ w.outcome \in Confirmed =>
           /\ w.job # NoJob /\ jobs[w.job].state = w.outcome
           /\ w.attempt = 0 => now + Timeout < w.lease
  PROVE  /\ Fit(Asks(w, kind))
         /\ kind # "run" => Quiet(Asks(w, kind))
         /\ \A c \in Codes : MayRun(Asks(w, kind), c) => c = w.code
<1>. DEFINE x == Asks(w, kind)
<1>1. w \in Worker /\ w.code \in Codes
  BY DEF OnTask
<1>2. AskedBy(x, w, kind)
  BY <1>1, Asking
<1>. HIDE DEF x
<1>3. MessageFits(x.message, jobs)
  BY <1>2 DEF AskedBy, OnTask, MessageFits
<1>4. kind = "poll" => x.until + Timeout < x.lease
  BY <1>2, WorkerAssumption DEF AskedBy, Worker
<1>5. WorkerFits(x, tasks, jobs)
  BY <1>2, <1>3, <1>4 DEF AskedBy, OnTask, WorkerFits, Executes
<1>6. now <= x.until
  BY <1>2, WorkerAssumption DEF AskedBy
<1>7. \A c \in Codes : MayRun(x, c) => c = w.code /\ kind = "run"
  BY <1>2 DEF AskedBy, MayRun
<1>. QED
  BY <1>2, <1>5, <1>6, <1>7 DEF AskedBy, Fit, Quiet, x

LEMMA ReportsFit ==
  ASSUME now \in Nat, NEW w, OnTask(w), NEW outcome \in Outcome,
         outcome \in Confirmed =>
           w.job # NoJob /\ jobs[w.job].state = outcome /\ now + Timeout < w.lease
  PROVE  Quiet(Reports(w, outcome))
<1>. DEFINE told == [w EXCEPT !.outcome = outcome, !.attempt = 0, !.stage = "none"]
<1>1. told \in Worker /\ told.code = w.code /\ told.job = w.job /\ told.lease = w.lease
      /\ told.outcome = outcome /\ told.attempt = 0
  <2>1. 0 \in Attempts /\ "none" \in Progress
    BY DEF Attempts, Progress
  <2>. QED
    BY <2>1 DEF OnTask, Worker
<1>. HIDE DEF told
<1>2. OnTask(told)
  BY <1>1 DEF OnTask
<1>3. Quiet(Asks(told, "result"))
  BY <1>1, <1>2, AsksFits
<1>. QED
  BY <1>3 DEF Reports, told

LEMMA WatchesFits ==
  ASSUME now \in Nat, NEW w, OnTask(w), w.job # NoJob
  PROVE  Quiet(Watches(w))
<1>1. CanContinue(w) => Quiet(Asks(w, "poll"))
  BY AsksFits DEF CanContinue
<1>2. Quiet(Reports(w, "awaiting_review"))
  BY ReportsFit DEF Outcome, Confirmed
<1>. QED
  BY <1>1, <1>2 DEF Watches

LEMMA SleepsFits ==
  ASSUME now \in Nat, NEW w, OnTask(w), w.job # NoJob
  PROVE  Quiet(Sleeps(w))
<1>. DEFINE end == now + Poll
            x == Sleeps(w)
<1>1. end \in Nat /\ now <= end
  BY WorkerAssumption
<1>2. x = [w EXCEPT !.pc = "sleeps", !.message = NoMessage, !.served = FALSE, !.reply = NoReply, !.until = end]
  BY DEF Sleeps
<1>3. NoMessage \in Message /\ NoReply \in Answer
  BY Replies DEF NoMessage, Message, NoJob
<1>. HIDE DEF end, x
<1>4. x \in Worker /\ x.pc = "sleeps" /\ x.until = end /\ x.code = w.code
      /\ x.lease = w.lease /\ x.job = w.job
  BY <1>1, <1>2, <1>3 DEF OnTask, Worker
<1>5. Fit(x)
  BY <1>1, <1>4 DEF OnTask, Fit, WorkerFits
<1>. QED
  BY <1>4, <1>5 DEF Quiet, MayRun, x

LEMMA AfterProgressFits ==
  ASSUME now \in Nat, NEW w, OnTask(w), w.job # NoJob
  PROVE  Quiet(AfterProgress(w))
  BY WatchesFits, SleepsFits DEF AfterProgress

LEMMA CollectsFits ==
  ASSUME now \in Nat, NEW w, OnTask(w), w.job # NoJob, NEW stage \in Progress
  PROVE  Quiet(Collects(w, stage))
<1>. DEFINE told == [w EXCEPT !.stage = stage]
<1>1. told \in Worker /\ told.code = w.code /\ told.job = w.job /\ told.lease = w.lease
  BY DEF OnTask, Worker
<1>. HIDE DEF told
<1>2. OnTask(told)
  BY <1>1 DEF OnTask
<1>3. Quiet(Asks(told, "progress"))
  BY <1>1, <1>2, AsksFits
<1>. QED
  BY <1>3, SleepsFits DEF Collects, told

(***************************************************************************)
(* The worker reads an answer                                              *)
(***************************************************************************)
LEMMA WaitingOnTask ==
  ASSUME NEW w \in Worker, WorkerFits(w, tasks, jobs), w.pc = "waits", w.message.kind # "claim"
  PROVE  /\ OnTask(w)
         /\ w.message.kind \in {"progress", "poll"} => w.job # NoJob
         /\ w.message.kind = "result" => w.outcome \in Outcome
         /\ w.message.kind = "result" /\ w.outcome \in Confirmed =>
              w.job # NoJob /\ jobs[w.job].state = w.outcome
         /\ w.message.code = w.code /\ w.message.job = w.job
  BY DEF WorkerFits, Executes, OnTask, MessageFits, MessageOf

LEMMA ClaimedFits ==
  ASSUME now \in Nat, tasks \in [Codes -> Task], NEW w \in Worker, Fit(w), w.pc = "waits", w.message.kind = "claim", w.served
  PROVE  Fit(Claimed(w)) /\ \A c \in Codes : MayRun(Claimed(w), c) => MayRun(w, c)
<1>1. CASE w.reply.is # "task"
  BY <1>1, IdleFits DEF Claimed, Quiet
<1>2. CASE w.reply.is = "task"
  <2>. DEFINE leased == [w EXCEPT !.code = w.reply.code, !.lease = w.reply.lease]
  <2>1. w.reply.code \in Codes /\ w.reply.lease <= tasks[w.reply.code].leaseUntil /\ w.job = NoJob
    BY <1>2 DEF Fit, WorkerFits, ReplyFits
  <2>2. w.reply.lease \in Nat
    BY DEF Worker, Answer
  <2>3. leased \in Worker /\ leased.code = w.reply.code /\ leased.lease = w.reply.lease /\ leased.job = w.job
    BY <2>1, <2>2 DEF Worker
  <2>. HIDE DEF leased
  <2>4. OnTask(leased)
    BY <2>1, <2>3 DEF OnTask
  <2>5. Fit(Asks(leased, "run")) /\ \A c \in Codes : MayRun(Asks(leased, "run"), c) => MayRun(w, c)
    BY <1>2, <2>3, <2>4, AsksFits DEF MayRun
  <2>6. Quiet(Reports(leased, "awaiting_review"))
    BY <2>4, ReportsFit DEF Outcome, Confirmed
  <2>. QED
    BY <1>2, <2>5, <2>6 DEF Claimed, Quiet, leased
<1>. QED
  BY <1>1, <1>2

LEMMA RanFits ==
  ASSUME now \in Nat, NEW w \in Worker, Fit(w), w.pc = "waits", w.message.kind = "run", w.served
  PROVE  Quiet(Ran(w))
<1>1. OnTask(w) /\ w.message.code = w.code
  BY WaitingOnTask DEF Fit
<1>2. CASE w.reply.is # "ok"
  BY <1>1, <1>2, ReportsFit DEF Ran, Outcome, Confirmed
<1>3. CASE w.reply.is = "ok"
  <2>. DEFINE told == [w EXCEPT !.job = w.reply.job, !.stage = "started"]
  <2>1. w.reply.job # NoJob /\ Runs(jobs, w.code, w.reply.job) /\ w.reply.job \in Nat
    BY <1>1, <1>3 DEF Fit, WorkerFits, ReplyFits, Worker, Answer
  <2>2. told \in Worker /\ told.code = w.code /\ told.lease = w.lease /\ told.job = w.reply.job
    BY <2>1 DEF Worker, Progress
  <2>. HIDE DEF told
  <2>3. OnTask(told)
    BY <1>1, <2>1, <2>2 DEF OnTask
  <2>4. Quiet(Asks(told, "progress"))
    BY <2>1, <2>2, <2>3, AsksFits
  <2>. QED
    BY <1>3, <2>4 DEF Ran, told
<1>. QED
  BY <1>2, <1>3

LEMMA ProgressedFits ==
  ASSUME now \in Nat, NEW w \in Worker, Fit(w), w.pc = "waits", w.message.kind = "progress", w.served
  PROVE  Quiet(Progressed(w))
<1>1. OnTask(w) /\ w.message.code = w.code /\ w.job # NoJob
  BY WaitingOnTask DEF Fit
<1>2. CASE w.reply.is # "ok"
  BY <1>1, <1>2, AfterProgressFits DEF Progressed
<1>3. CASE w.reply.is = "ok"
  <2>. DEFINE next == now + Heartbeat
              told == [w EXCEPT !.lease = w.reply.lease, !.lastStage = w.stage, !.heartbeatAt = next]
  <2>1. w.reply.lease <= tasks[w.code].leaseUntil /\ w.reply.lease \in Nat
    BY <1>1, <1>3 DEF Fit, WorkerFits, ReplyFits, Worker, Answer
  <2>2. next \in Nat
    BY WorkerAssumption
  <2>3. Progressed(w) = AfterProgress(told)
    BY <1>3 DEF Progressed
  <2>. HIDE DEF next
  <2>4. told \in Worker /\ told.code = w.code /\ told.lease = w.reply.lease /\ told.job = w.job
    BY <2>1, <2>2 DEF Worker
  <2>. HIDE DEF told
  <2>5. OnTask(told)
    BY <1>1, <2>1, <2>4 DEF OnTask
  <2>. QED
    BY <1>1, <2>3, <2>4, <2>5, AfterProgressFits
<1>. QED
  BY <1>2, <1>3

LEMMA PolledFits ==
  ASSUME now \in Nat, NEW w \in Worker, Fit(w), w.pc = "waits", w.message.kind = "poll", w.served
  PROVE  Quiet(Polled(w))
<1>1. OnTask(w) /\ w.message.job = w.job /\ w.job # NoJob
  BY WaitingOnTask DEF Fit
<1>2. w.reply.state \in Stages \cup Confirmed \cup {"none"} /\ w.lease \in Nat /\ w.until \in Nat
  BY DEF Worker, Answer
<1>3. CASE w.reply.state \in Confirmed
  <2>1. jobs[w.job].state = w.reply.state
    BY <1>1, <1>3 DEF Fit, WorkerFits, ReplyFits
  <2>2. now <= w.until /\ w.until + Timeout < w.lease
    BY DEF Fit, WorkerFits
  <2>3. now + Timeout < w.lease
    BY <1>2, <2>2, WorkerAssumption
  <2>. QED
    BY <1>1, <1>3, <2>1, <2>3, ReportsFit DEF Polled, Outcome
<1>4. CASE w.reply.state \notin Confirmed
  BY <1>1, <1>2, <1>4, CollectsFits DEF Polled, Progress
<1>. QED
  BY <1>3, <1>4

LEMMA ResultFailedFits ==
  ASSUME now \in Nat, NEW w \in Worker, Fit(w), w.pc = "waits", w.message.kind = "result"
  PROVE  Quiet(ResultFailed(w))
<1>. DEFINE again == [w EXCEPT !.attempt = 1]
<1>1. OnTask(w) /\ w.outcome \in Outcome
      /\ (w.outcome \in Confirmed => w.job # NoJob /\ jobs[w.job].state = w.outcome)
  BY WaitingOnTask DEF Fit
<1>2. again \in Worker /\ again.code = w.code /\ again.lease = w.lease /\ again.job = w.job
      /\ again.outcome = w.outcome /\ again.attempt = 1
  <2>1. 1 \in Attempts
    BY DEF Attempts
  <2>. QED
    BY <2>1 DEF Worker
<1>. HIDE DEF again
<1>3. OnTask(again)
  BY <1>1, <1>2 DEF OnTask
<1>4. Quiet(Asks(again, "result"))
  BY <1>1, <1>2, <1>3, AsksFits
<1>. QED
  BY <1>4, IdleFits DEF ResultFailed, again

(***************************************************************************)
(* The right to start a run                                                *)
(***************************************************************************)
LEMMA LeftTheQueue ==
  ASSUME NEW ts, NEW new, TasksMove(ts, new), NEW c \in Codes, ts[c].status \notin {"none", "queued"}
  PROVE  new[c].status \notin {"none", "queued"}
  BY DEF TasksMove, TaskMoves, LegalMove, Outcome, Confirmed

LEMMA RightsKept ==
  ASSUME NEW w, NEW w2, NEW ls, NEW ls2, NEW ts, NEW new, NEW js \in Seq(JobRecord), NEW jn \in Seq(JobRecord),
         OneRight(w, ls, ts, js), TasksMove(ts, new), JobsMove(js, jn), Len(jn) = Len(js),
         \A c \in Codes : MayRun(w2, c) => MayRun(w, c), ls2 \subseteq ls
  PROVE  OneRight(w2, ls2, new, jn)
<1>1. \A j \in 1..Len(js) : jn[j].code = js[j].code
  BY DEF JobsMove
<1>2. \A c \in Codes : (HasRun(jn, c) => HasRun(js, c)) /\ (MayRunLate(ls2, c) => MayRunLate(ls, c))
  BY <1>1 DEF HasRun, MayRunLate
<1>3. \A c \in Codes :
        MayRun(w2, c) \/ MayRunLate(ls2, c) \/ HasRun(jn, c) => new[c].status \notin {"none", "queued"}
  BY <1>2, LeftTheQueue DEF OneRight
<1>. QED
  BY <1>1, <1>2, <1>3 DEF OneRight

(* The worker gives up on the request it waits for.                         *)
LEMMA RightPassedOn ==
  ASSUME NEW w, NEW w2, NEW ls, NEW ts, NEW js, OneRight(w, ls, ts, js), w.pc = "waits", ~w.served,
         w.message.kind = "run" => w.message.code = w.code /\ w.code \in Codes,
         \A m \in ls : m.kind = "run" => m.code \in Codes,
         \A c \in Codes : ~MayRun(w2, c)
  PROVE  OneRight(w2, ls \cup {w.message}, ts, js)
<1>. DEFINE ls2 == ls \cup {w.message}
<1>1. w.message.kind = "run" => MayRun(w, w.code)
  BY DEF MayRun
<1>2. \A c \in Codes : MayRunLate(ls2, c) => MayRunLate(ls, c) \/ MayRun(w, c)
  BY <1>1 DEF MayRunLate
<1>3. ASSUME NEW m \in ls2, NEW n \in ls2, m.kind = "run", n.kind = "run", m.code = n.code PROVE m = n
  <2>1. m \in ls /\ n = w.message => FALSE
    BY <1>1, <1>3 DEF OneRight, MayRunLate
  <2>2. n \in ls /\ m = w.message => FALSE
    BY <1>1, <1>3 DEF OneRight, MayRunLate
  <2>. QED
    BY <1>3, <2>1, <2>2 DEF OneRight
<1>. QED
  BY <1>2, <1>3 DEF OneRight

(* The engine starts a run: that right is used.                             *)
LEMMA RightUsed ==
  ASSUME NEW w, NEW w2, NEW ls, NEW ls2, NEW ts, NEW js \in Seq(JobRecord), NEW c \in Codes,
         OneRight(w, ls, ts, js), MayRun(w, c) \/ MayRunLate(ls, c),
         \A d \in Codes : MayRun(w2, d) => MayRun(w, d) /\ d # c,
         ls2 \subseteq ls, ~MayRunLate(ls2, c),
         NEW jn, jn = Append(js, [code |-> c, state |-> "running"])
  PROVE  OneRight(w2, ls2, ts, jn)
<1>1. /\ Len(js) \in Nat /\ Len(jn) = Len(js) + 1 /\ jn[Len(js) + 1].code = c
      /\ \A j \in 1..Len(js) : jn[j] = js[j]
  BY JobTypes, AppendProperties DEF JobRecord
<1>2. ~HasRun(js, c)
  BY DEF OneRight
<1>3. \A d \in Codes : HasRun(jn, d) => HasRun(js, d) \/ d = c
  BY <1>1 DEF HasRun
<1>4. \A d \in Codes : MayRunLate(ls2, d) => MayRunLate(ls, d) /\ d # c
  BY DEF MayRunLate
<1>5. ASSUME NEW j \in 1..Len(jn), NEW k \in 1..Len(jn), jn[j].code = jn[k].code PROVE j = k
  <2>1. CASE j \in 1..Len(js) /\ k \in 1..Len(js)
    BY <1>1, <1>5, <2>1 DEF OneRight
  <2>2. CASE j = Len(js) + 1 \/ k = Len(js) + 1
    BY <1>1, <1>2, <1>5, <2>2 DEF HasRun
  <2>. QED
    BY <1>1, <2>1, <2>2
<1>6. \A m, n \in ls2 : m.kind = "run" /\ n.kind = "run" /\ m.code = n.code => m = n
  BY DEF OneRight
<1>7. ts[c].status \notin {"none", "queued"}
  BY DEF OneRight
<1>. QED
  BY <1>3, <1>4, <1>5, <1>6, <1>7 DEF OneRight

(* A code is claimed: nobody else may run it.                               *)
LEMMA RightGiven ==
  ASSUME NEW w, NEW w2, NEW ls, NEW ts, NEW new, NEW js, NEW c \in Codes, OneRight(w, ls, ts, js),
         TasksMove(ts, new), Starts(ts[c], new[c]), \A d \in Codes : MayRun(w2, d) => d = c
  PROVE  OneRight(w2, ls, new, js)
<1>1. ~MayRunLate(ls, c) /\ ~HasRun(js, c)
  BY DEF OneRight, Starts
<1>2. new[c].status \notin {"none", "queued"}
  BY DEF Starts
<1>. QED
  BY <1>1, <1>2, LeftTheQueue DEF OneRight

(***************************************************************************)
(* The invariant, action by action                                         *)
(***************************************************************************)
LEMMA StepFits ==
  ASSUME IInv, now' = now, stopping' \in BOOLEAN, faults' \in 0..MaxFaults,
         WorldMoves(tasks, jobs, tasks', jobs'),
         worker' \in Worker, WorkerFits(worker', tasks', jobs'),
         worker'.pc # "idle" => now <= worker'.until,
         late' \subseteq Message, IsFiniteSet(late'), Cardinality(late') <= MaxLate,
         \A m \in late' : MessageFits(m, jobs'),
         OneRight(worker', late', tasks', jobs')
  PROVE  IInv' /\ TasksMove(tasks, tasks')
<1>1. (\A c \in Codes : TaskFits(tasks[c], c, jobs))'
  BY DEF WorldMoves, AllFit, TaskFits
<1>2. TypeOK'
  BY DEF IInv, TypeOK, WorldMoves, Typed
<1>3. (worker.pc # "idle" => now <= worker.until)'
  OBVIOUS
<1>. QED
  BY <1>1, <1>2, <1>3 DEF IInv, WorldMoves

LEMMA Facts ==
  ASSUME IInv
  PROVE  /\ now \in Nat /\ Typed(tasks, jobs) /\ AllFit(tasks, jobs) /\ Fit(worker)
         /\ WorldMoves(tasks, jobs, tasks, jobs)
         /\ \A m \in late : MessageFits(m, jobs)
<1>1. now \in Nat
  BY WorkerAssumption DEF IInv, TypeOK
<1>2. Typed(tasks, jobs) /\ AllFit(tasks, jobs)
  BY DEF IInv, TypeOK, Typed, AllFit
<1>. QED
  BY <1>1, <1>2, TaskStays, JobsStay DEF IInv, TypeOK, Fit, Typed

(* Something changed at the servers behind the worker's back.               *)
LEMMA WorldStep ==
  ASSUME IInv, UNCHANGED <<now, worker, stopping, late>>, faults' \in 0..MaxFaults,
         WorldMoves(tasks, jobs, tasks', jobs'), Len(jobs') = Len(jobs)
  PROVE  IInv' /\ TasksMove(tasks, tasks')
<1>1. WorkerFits(worker, tasks', jobs')
  BY Facts, WorkerMoved DEF IInv, TypeOK
<1>2. \A m \in late : MessageFits(m, jobs')
  BY Facts, MessageMoved DEF WorldMoves, Typed
<1>3. OneRight(worker, late, tasks', jobs')
  BY Facts, RightsKept DEF IInv, WorldMoves, Typed
<1>. QED
  BY <1>1, <1>2, <1>3, StepFits DEF IInv, TypeOK

(* The worker moved.                                                        *)
LEMMA WorkerStep ==
  ASSUME IInv, UNCHANGED <<now, tasks, jobs, late>>, stopping' \in BOOLEAN, faults' \in 0..MaxFaults,
         Fit(worker'), \A c \in Codes : MayRun(worker', c) => MayRun(worker, c)
  PROVE  IInv' /\ TasksMove(tasks, tasks')
<1>1. JobsMove(jobs, jobs) /\ TasksMove(tasks, tasks) /\ jobs \in Seq(JobRecord)
  BY Facts, JobsStay DEF WorldMoves, Typed
<1>2. OneRight(worker', late', tasks', jobs')
  BY <1>1, RightsKept DEF IInv
<1>. QED
  BY <1>2, Facts, StepFits DEF IInv, TypeOK, Fit

(* The worker gives up what it waits for or was doing.                      *)
LEMMA GivesUp ==
  ASSUME IInv, UNCHANGED <<now, tasks, jobs>>, stopping' \in BOOLEAN, Faulty, Forgets(worker), Quiet(worker')
  PROVE  IInv' /\ TasksMove(tasks, tasks')
<1>1. faults' \in 0..MaxFaults
  BY WorkerAssumption DEF IInv, TypeOK, Faulty
<1>2. CASE UNCHANGED late
  BY <1>1, <1>2, WorkerStep DEF Quiet
<1>3. CASE /\ worker.pc = "waits" /\ ~worker.served
           /\ Cardinality(late) < MaxLate /\ late' = late \cup {worker.message}
  <2>1. worker.message \in Message /\ late \subseteq Message /\ IsFiniteSet(late)
    BY DEF IInv, TypeOK, Worker
  <2>2. IsFiniteSet(late') /\ Cardinality(late') \in {Cardinality(late), Cardinality(late) + 1}
    BY <1>3, <2>1, FS_AddElement
  <2>7. Cardinality(late') <= MaxLate
    BY <1>3, <2>1, <2>2, FS_CardinalityType, WorkerAssumption
  <2>3. MessageFits(worker.message, jobs)
    BY <1>3 DEF IInv, WorkerFits
  <2>4. worker.message.kind = "run" => worker.message.code = worker.code /\ worker.code \in Codes
    BY <1>3 DEF IInv, WorkerFits, Executes, MessageOf
  <2>5. \A m \in late : m.kind = "run" => m.code \in Codes
    BY DEF IInv, MessageFits
  <2>6. OneRight(worker', late', tasks, jobs)
    BY <1>3, <2>4, <2>5, RightPassedOn DEF IInv, Quiet
  <2>. QED
    BY <1>1, <1>3, <2>1, <2>2, <2>3, <2>6, <2>7, Facts, StepFits DEF Quiet, Fit
<1>. QED
  BY <1>2, <1>3 DEF Forgets

LEMMA ClaimNextStep ==
  ASSUME IInv, ClaimNext
  PROVE  IInv' /\ TasksMove(tasks, tasks')
<1>. DEFINE x == Asks(IdleWorker, "claim")
<1>1. IdleWorker \in Worker /\ IdleWorker.job = NoJob /\ IdleWorker.pc = "idle"
  BY IdleFits DEF Quiet, Fit, IdleWorker
<1>2. AskedBy(x, IdleWorker, "claim")
  BY <1>1, Asking, Facts
<1>3. worker' = x
  BY DEF ClaimNext, Goes
<1>. HIDE DEF x
<1>4. WorkerFits(x, tasks, jobs) /\ \A c \in Codes : ~MayRun(x, c)
  BY <1>1, <1>2 DEF AskedBy, WorkerFits, Executes, MessageFits, MayRun
<1>5. now <= x.until
  BY <1>2, Facts, WorkerAssumption DEF AskedBy
<1>6. Quiet(x)
  BY <1>2, <1>4, <1>5 DEF Quiet, Fit, AskedBy
<1>. QED
  BY <1>3, <1>6, WorkerStep DEF ClaimNext, IInv, TypeOK, Quiet

LEMMA ReceiveStep ==
  ASSUME IInv, Receive
  PROVE  IInv' /\ TasksMove(tasks, tasks')
<1>1. worker.pc = "waits" /\ worker.served /\ worker \in Worker /\ Fit(worker)
  BY Facts DEF Receive, IInv, TypeOK
<1>2. worker.message.kind \in {"claim", "run", "progress", "poll", "result"}
  BY <1>1 DEF Worker, Message
<1>3. tasks \in [Codes -> Task] /\ now \in Nat
  BY Facts DEF Typed
<1>4. CASE worker.message.kind = "claim"
  <2>1. worker' = Claimed(worker)
    BY <1>4 DEF Receive, Goes
  <2>. QED
    BY <1>1, <1>3, <1>4, <2>1, ClaimedFits, WorkerStep DEF Receive, IInv, TypeOK
<1>5. CASE worker.message.kind # "claim"
  <2>1. Quiet(worker')
    BY <1>1, <1>2, <1>3, <1>5, RanFits, ProgressedFits, PolledFits, IdleFits DEF Receive, Goes, Reported
  <2>. QED
    BY <2>1, WorkerStep DEF Receive, IInv, TypeOK, Quiet
<1>. QED
  BY <1>4, <1>5

LEMMA WakeStep ==
  ASSUME IInv, Wake
  PROVE  IInv' /\ TasksMove(tasks, tasks')
<1>1. OnTask(worker) /\ worker.job # NoJob
  BY DEF Wake, IInv, TypeOK, WorkerFits, Executes, OnTask
<1>2. Quiet(worker')
  BY <1>1, WatchesFits, Facts DEF Wake, Goes
<1>. QED
  BY <1>2, WorkerStep DEF Wake, IInv, TypeOK, Quiet

LEMMA FailStep ==
  ASSUME IInv, Fail
  PROVE  IInv' /\ TasksMove(tasks, tasks')
<1>1. worker.pc = "waits" /\ worker \in Worker /\ Fit(worker) /\ now \in Nat
  BY Facts DEF Fail, IInv, TypeOK
<1>2. worker.message.kind \in {"claim", "run", "progress", "poll", "result"}
  BY <1>1 DEF Worker, Message
<1>3. worker.message.kind # "claim" => Quiet(Reports(worker, "awaiting_review"))
  BY <1>1, WaitingOnTask, ReportsFit DEF Fit, Outcome, Confirmed
<1>4. worker.message.kind = "progress" => Quiet(AfterProgress(worker))
  BY <1>1, WaitingOnTask, AfterProgressFits DEF Fit
<1>5. worker.message.kind = "result" => Quiet(ResultFailed(worker))
  BY <1>1, ResultFailedFits
<1>6. Quiet(worker')
  BY <1>2, <1>3, <1>4, <1>5, IdleFits DEF Fail, Goes, RunFailed, PollFailed
<1>. QED
  BY <1>6, GivesUp DEF Fail, IInv, TypeOK

LEMMA ServeStep ==
  ASSUME IInv, Serve
  PROVE  IInv' /\ TasksMove(tasks, tasks')
<1>. DEFINE m == worker.message
<1>1. PICK a \in Answers(m) : /\ tasks' = a.tasks /\ jobs' = a.jobs
                              /\ worker' = [worker EXCEPT !.served = TRUE, !.reply = a.reply]
  BY DEF Serve, Goes
<1>2. worker.pc = "waits" /\ ~worker.served /\ worker \in Worker /\ m \in Message /\ MessageFits(m, jobs)
  BY DEF Serve, IInv, TypeOK, Worker, WorkerFits
<1>3. Sound(m, a)
  BY <1>2, Facts, AnswersSound
<1>4. WorldMoves(tasks, jobs, tasks', jobs') /\ a.reply \in Answer /\ ReplyFits(m, a.reply, tasks', jobs')
  BY <1>1, <1>3 DEF Sound
<1>5. WorkerFits(worker, tasks', jobs')
  BY <1>4, Facts, WorkerMoved DEF IInv, TypeOK
<1>6. /\ worker' \in Worker /\ worker'.pc = "waits" /\ worker'.served = TRUE /\ worker'.reply = a.reply
      /\ worker'.message = m /\ worker'.until = worker.until /\ worker'.code = worker.code
      /\ worker'.lease = worker.lease /\ worker'.job = worker.job /\ worker'.outcome = worker.outcome
      /\ worker'.attempt = worker.attempt
  BY <1>1, <1>2, <1>4 DEF Worker
<1>7. WorkerFits(worker', tasks', jobs') /\ now <= worker'.until
  BY <1>2, <1>4, <1>5, <1>6 DEF WorkerFits, Executes, MessageOf, IInv
<1>8. \A x \in late : MessageFits(x, jobs')
  BY <1>4, Facts, MessageMoved DEF WorldMoves, Typed
<1>9. OneRight(worker', late, tasks', jobs')
  <2>0. jobs \in Seq(JobRecord) /\ jobs' \in Seq(JobRecord) /\ JobsMove(jobs, jobs') /\ TasksMove(tasks, tasks')
        /\ OneRight(worker, late, tasks, jobs)
    BY <1>4, Facts DEF WorldMoves, Typed, IInv
  <2>1. CASE m.kind = "claim" /\ a.reply.is = "task"
    <3>1. jobs' = jobs /\ a.reply.code \in Codes /\ Starts(tasks[a.reply.code], tasks'[a.reply.code])
      BY <1>1, <1>3, <1>4, <2>1 DEF Sound, ReplyFits
    <3>2. \A d \in Codes : MayRun(worker', d) => d = a.reply.code
      BY <1>6, <2>1 DEF MayRun
    <3>. QED
      BY <2>0, <3>1, <3>2, RightGiven
  <2>2. CASE ~(m.kind = "claim" /\ a.reply.is = "task") /\ jobs' = jobs
    <3>1. \A d \in Codes : ~MayRun(worker', d)
      BY <1>6, <2>2 DEF MayRun
    <3>. QED
      BY <2>0, <2>2, <3>1, RightsKept
  <2>3. CASE jobs' # jobs
    <3>1. m.kind = "run" /\ tasks' = tasks /\ jobs' = Append(jobs, [code |-> m.code, state |-> "running"])
      BY <1>1, <1>3, <2>3 DEF Sound
    <3>2. m.code = worker.code /\ m.code \in Codes
      BY <1>2, <3>1, WaitingOnTask, Facts DEF Fit, OnTask
    <3>3. MayRun(worker, m.code)
      BY <1>2, <3>1, <3>2 DEF MayRun
    <3>4. \A d \in Codes : MayRun(worker', d) => MayRun(worker, d) /\ d # m.code
      BY <1>6, <3>1 DEF MayRun
    <3>5. late \subseteq late /\ ~MayRunLate(late, m.code)
      BY <2>0, <3>2, <3>3 DEF OneRight
    <3>6. OneRight(worker', late, tasks, jobs')
      BY <2>0, <3>1, <3>2, <3>3, <3>4, <3>5, RightUsed
    <3>. QED
      BY <3>1, <3>6
  <2>. QED
    BY <2>1, <2>2, <2>3
<1>. QED
  BY <1>4, <1>6, <1>7, <1>8, <1>9, StepFits DEF Serve, IInv, TypeOK

LEMMA ServeLateStep ==
  ASSUME IInv, NEW m \in late, ServeLate(m)
  PROVE  IInv' /\ TasksMove(tasks, tasks')
<1>1. PICK a \in Answers(m) : tasks' = a.tasks /\ jobs' = a.jobs
  BY DEF ServeLate
<1>2. m \in Message /\ MessageFits(m, jobs) /\ late' = late \ {m} /\ worker' = worker
  BY DEF ServeLate, IInv, TypeOK
<1>3. Sound(m, a)
  BY <1>2, Facts, AnswersSound
<1>4. WorldMoves(tasks, jobs, tasks', jobs')
  BY <1>1, <1>3 DEF Sound
<1>5. WorkerFits(worker, tasks', jobs')
  BY <1>4, Facts, WorkerMoved DEF IInv, TypeOK
<1>6. \A x \in late' : MessageFits(x, jobs')
  BY <1>2, <1>4, Facts, MessageMoved DEF WorldMoves, Typed
<1>7. IsFiniteSet(late') /\ Cardinality(late') <= MaxLate /\ late' \subseteq Message
  <2>1. IsFiniteSet(late) /\ Cardinality(late) <= MaxLate /\ late \subseteq Message
    BY DEF IInv, TypeOK
  <2>2. IsFiniteSet(late') /\ Cardinality(late') = Cardinality(late) - 1
    BY <1>2, <2>1, FS_RemoveElement
  <2>. QED
    BY <1>2, <2>1, <2>2, FS_CardinalityType, WorkerAssumption
<1>8. OneRight(worker', late', tasks', jobs')
  <2>0. jobs \in Seq(JobRecord) /\ jobs' \in Seq(JobRecord) /\ JobsMove(jobs, jobs') /\ TasksMove(tasks, tasks')
        /\ OneRight(worker, late, tasks, jobs) /\ late' \subseteq late
    BY <1>2, <1>4, Facts DEF WorldMoves, Typed, IInv
  <2>1. CASE jobs' = jobs
    BY <1>2, <2>0, <2>1, RightsKept
  <2>2. CASE jobs' # jobs
    <3>1. m.kind = "run" /\ tasks' = tasks /\ jobs' = Append(jobs, [code |-> m.code, state |-> "running"])
      BY <1>1, <1>3, <2>2 DEF Sound
    <3>2. m.code \in Codes /\ MayRunLate(late, m.code)
      BY <1>2, <3>1 DEF MessageFits, MayRunLate
    <3>3. ~MayRunLate(late', m.code)
      BY <1>2, <2>0, <3>1 DEF OneRight, MayRunLate
    <3>4. \A d \in Codes : MayRun(worker', d) => MayRun(worker, d) /\ d # m.code
      BY <1>2, <2>0, <3>2 DEF OneRight
    <3>. QED
      BY <2>0, <3>1, <3>2, <3>3, <3>4, RightUsed
  <2>. QED
    BY <2>1, <2>2
<1>. QED
  BY <1>2, <1>4, <1>5, <1>6, <1>7, <1>8, StepFits DEF ServeLate, IInv, TypeOK

(* Every task changes on its own and none is claimed.                       *)
LEMMA EachTask ==
  ASSUME IInv, NEW new \in [Codes -> Task], \A c \in Codes : /\ TaskFits(new[c], c, jobs)
                                                          /\ TaskMoves(tasks[c], new[c])
                                                          /\ ~Starts(tasks[c], new[c])
  PROVE  WorldMoves(tasks, jobs, new, jobs)
  BY Facts, JobsStay DEF WorldMoves, Typed, AllFit, TasksMove

LEMMA ServiceStep ==
  ASSUME IInv, (\E c \in Codes : Submit(c)) \/ Sweep \/ ServiceRestarts
  PROVE  IInv' /\ TasksMove(tasks, tasks')
<1>0. faults \in 0..MaxFaults /\ Typed(tasks, jobs) /\ AllFit(tasks, jobs)
  BY Facts DEF IInv, TypeOK
<1>1. ASSUME NEW c \in Codes, Submit(c) PROVE IInv' /\ TasksMove(tasks, tasks')
  <2>. DEFINE ts == Overdue(tasks)
              row == [ts[c] EXCEPT !.status = "queued"]
  <2>1. tasks' = [ts EXCEPT ![c] = row]
    BY <1>1 DEF Submit
  <2>2. ts[c] \in Task /\ tasks[c] \in Task /\ tasks[c].status = "none" /\ tasks[c].leaseUntil = 0
        /\ ts[c].leaseUntil = tasks[c].leaseUntil
    BY <1>0, <1>1, Expiry DEF Submit, AllFit, TaskFits, Typed
  <2>3. row \in Task /\ row.status = "queued" /\ row.leaseUntil = 0
    BY <2>2 DEF Task
  <2>. HIDE DEF row
  <2>4. TaskFits(row, c, jobs) /\ TaskMoves(tasks[c], row)
    BY <2>2, <2>3, Facts, WorkerAssumption DEF TaskFits, TaskMoves, LegalMove, Confirmed
  <2>5. WorldMoves(tasks, jobs, tasks', jobs)
    BY <1>0, <2>1, <2>3, <2>4, OneTask
  <2>. QED
    BY <1>0, <1>1, <2>5, WorldStep DEF Submit
<1>2. ASSUME NEW c \in Codes, tasks[c].status \in {"queued", "running"},
             NEW row, row = [tasks[c] EXCEPT !.status = "awaiting_review"]
      PROVE  row \in Task /\ TaskFits(row, c, jobs) /\ TaskMoves(tasks[c], row) /\ ~Starts(tasks[c], row)
  <2>1. tasks[c] \in Task /\ TaskFits(tasks[c], c, jobs)
    BY <1>0 DEF Typed, AllFit
  <2>2. row \in Task /\ row.status = "awaiting_review" /\ row.leaseUntil = tasks[c].leaseUntil
    BY <1>2, <2>1 DEF Task, Outcome
  <2>. QED
    BY <1>2, <2>1, <2>2 DEF TaskFits, TaskMoves, LegalMove, Starts, Outcome, Confirmed, Task
<1>3. \A c \in Codes : tasks[c] \in Task /\ TaskFits(tasks[c], c, jobs)
                       /\ TaskMoves(tasks[c], tasks[c]) /\ ~Starts(tasks[c], tasks[c])
  BY <1>0 DEF Typed, AllFit, TaskMoves, Starts, Task
<1>4. CASE Sweep
  <2>1. PICK S \in SUBSET {c \in Codes : tasks[c].status = "queued"} :
          tasks' = [c \in Codes |-> IF c \in S THEN [tasks[c] EXCEPT !.status = "awaiting_review"]
                                    ELSE Overdue(tasks)[c]]
    BY <1>4 DEF Sweep
  <2>2. ASSUME NEW c \in Codes
        PROVE  /\ tasks'[c] \in Task /\ TaskFits(tasks'[c], c, jobs)
               /\ TaskMoves(tasks[c], tasks'[c]) /\ ~Starts(tasks[c], tasks'[c])
    <3>1. CASE c \in S
      BY <1>2, <2>1, <3>1
    <3>2. CASE c \notin S
      BY <1>0, <1>3, <2>1, <3>2, Expiry, ExpiredFits
    <3>. QED
      BY <3>1, <3>2
  <2>3. tasks' \in [Codes -> Task]
    BY <2>1, <2>2
  <2>4. WorldMoves(tasks, jobs, tasks', jobs)
    BY <2>2, <2>3, EachTask
  <2>. QED
    BY <1>0, <1>4, <2>4, WorldStep DEF Sweep
<1>5. CASE ServiceRestarts
  <2>1. tasks' = [c \in Codes |-> IF tasks[c].status \in {"queued", "running"}
                                  THEN [tasks[c] EXCEPT !.status = "awaiting_review"] ELSE tasks[c]]
    BY <1>5 DEF ServiceRestarts
  <2>2. ASSUME NEW c \in Codes
        PROVE  /\ tasks'[c] \in Task /\ TaskFits(tasks'[c], c, jobs)
               /\ TaskMoves(tasks[c], tasks'[c]) /\ ~Starts(tasks[c], tasks'[c])
    BY <1>2, <1>3, <2>1
  <2>3. tasks' \in [Codes -> Task]
    BY <2>1, <2>2
  <2>4. WorldMoves(tasks, jobs, tasks', jobs)
    BY <2>2, <2>3, EachTask
  <2>5. faults' \in 0..MaxFaults
    BY <1>0, <1>5, WorkerAssumption DEF ServiceRestarts, Faulty
  <2>. QED
    BY <1>5, <2>4, <2>5, WorldStep DEF ServiceRestarts
<1>. QED
  BY <1>1, <1>4, <1>5

LEMMA JobEndsStep ==
  ASSUME IInv, NEW j \in Job, JobEnds(j)
  PROVE  IInv' /\ TasksMove(tasks, tasks')
<1>1. PICK state \in Confirmed : jobs' = [jobs EXCEPT ![j].state = state]
  BY DEF JobEnds
<1>2. jobs \in Seq(JobRecord) /\ j \in 1..Len(jobs) /\ jobs[j] \in JobRecord /\ jobs[j].state = "running"
  BY Facts, JobTypes DEF Typed, Job, JobEnds
<1>3. [jobs[j] EXCEPT !.state = state] \in JobRecord /\ [jobs[j] EXCEPT !.state = state].code = jobs[j].code
  BY <1>1, <1>2 DEF JobRecord
<1>4. jobs' = [jobs EXCEPT ![j] = [jobs[j] EXCEPT !.state = state]]
  BY <1>1
<1>5. jobs' \in Seq(JobRecord) /\ Len(jobs') = Len(jobs)
      /\ jobs'[j] = [jobs[j] EXCEPT !.state = state]
      /\ \A k \in 1..Len(jobs) \ {j} : jobs'[k] = jobs[k]
  BY <1>2, <1>3, <1>4, ExceptSeq
<1>6. JobsMove(jobs, jobs')
  <2>1. Len(jobs) \in Nat /\ jobs[j].state \notin Confirmed
    BY <1>2, JobTypes DEF Confirmed
  <2>2. \A k \in 1..Len(jobs) : /\ jobs'[k].code = jobs[k].code
                                /\ jobs[k].state \in Confirmed => jobs'[k].state = jobs[k].state
    BY <1>3, <1>5, <2>1
  <2>. QED
    BY <1>5, <2>1, <2>2 DEF JobsMove
<1>7. WorldMoves(tasks, jobs, tasks, jobs')
  BY <1>5, <1>6, Facts, TaskStays
<1>. QED
  BY <1>5, <1>7, WorldStep DEF JobEnds, IInv, TypeOK

LEMMA TimeStep ==
  ASSUME IInv, Tick
  PROVE  IInv' /\ TasksMove(tasks, tasks')
<1>1. now \in Nat /\ now' = now + 1 /\ now' \in 0..MaxTime /\ tasks \in [Codes -> Task]
  BY Facts, WorkerAssumption DEF Tick, IInv, TypeOK
<1>2. (\A c \in Codes : TaskFits(tasks[c], c, jobs))'
  <2>. SUFFICES ASSUME NEW c \in Codes PROVE TaskFits(tasks[c], c, jobs)'
    BY DEF Tick
  <2>1. TaskFits(tasks[c], c, jobs) /\ tasks[c].leaseUntil \in Nat
    BY <1>1 DEF IInv, Task
  <2>2. tasks[c].leaseUntil <= now' + Lease
    BY <1>1, <2>1, WorkerAssumption DEF TaskFits
  <2>. QED
    BY <2>1, <2>2 DEF Tick, TaskFits, Runs
<1>3. (worker.pc # "idle" => now <= worker.until)'
  BY <1>1 DEF Tick, IInv, TypeOK, Worker
<1>4. TypeOK'
  BY <1>1 DEF Tick, IInv, TypeOK
<1>. QED
  BY <1>2, <1>3, <1>4, Facts DEF Tick, IInv, WorldMoves

LEMMA InitInvariant == Init => IInv
<1>. SUFFICES ASSUME Init PROVE IInv
  OBVIOUS
<1>1. << >> \in Seq(JobRecord) /\ Len(<< >>) = 0
  BY EmptySeq
<1>2. Fresh \in Task /\ Fresh.status = "none" /\ Fresh.leaseUntil = 0
  BY DEF Fresh, Task, NoJob
<1>3. TypeOK
  <2>1. IsFiniteSet({}) /\ Cardinality({}) = 0
    BY FS_EmptySet
  <2>2. tasks \in [Codes -> Task] /\ worker \in Worker
    BY <1>2, IdleFits DEF Init, Quiet, Fit
  <2>3. 0 \in 0..MaxTime /\ 0 \in 0..MaxFaults /\ 0 <= MaxLate
    BY WorkerAssumption
  <2>. QED
    BY <1>1, <2>1, <2>2, <2>3 DEF Init, TypeOK
<1>4. \A c \in Codes : TaskFits(tasks[c], c, jobs)
  BY <1>2, WorkerAssumption DEF Init, TaskFits, Confirmed
<1>5. OneRight(worker, late, tasks, jobs)
  BY <1>1, IdleFits DEF Init, OneRight, Quiet, MayRunLate, HasRun
<1>6. WorkerFits(worker, tasks, jobs) /\ (worker.pc # "idle" => now <= worker.until)
  BY IdleFits DEF Init, Quiet, Fit
<1>. QED
  BY <1>3, <1>4, <1>5, <1>6 DEF Init, IInv

LEMMA NextInvariant == IInv /\ [Next]_vars => IInv' /\ TasksMove(tasks, tasks')
<1>. SUFFICES ASSUME IInv, [Next]_vars PROVE IInv' /\ TasksMove(tasks, tasks')
  OBVIOUS
<1>1. CASE WorkerRestarts
  BY <1>1, GivesUp, IdleFits DEF WorkerRestarts, Goes
<1>2. CASE Stop \/ UNCHANGED vars
  <2>1. stopping' \in BOOLEAN /\ UNCHANGED <<now, tasks, jobs, worker, late, faults>>
    BY <1>2 DEF Stop, vars, IInv, TypeOK
  <2>. QED
    BY <2>1, Facts, WorkerStep DEF IInv, TypeOK
<1>. QED
  BY <1>1, <1>2, ClaimNextStep, ReceiveStep, WakeStep, FailStep, ServeStep, ServeLateStep,
     ServiceStep, JobEndsStep, TimeStep DEF Next

(* Every reachable state satisfies the inductive invariant.                 *)
THEOREM Invariance == Spec => []IInv
  BY InitInvariant, NextInvariant, PTL DEF Spec

(* A customer is never charged twice: whatever was lost, timed out, crashed *)
(* or arrived late, the engine starts one run of a code.                    *)
THEOREM NeverRunTwice == Spec => []OneRunPerCode
<1>1. IInv => OneRunPerCode
  BY DEF IInv, OneRight, OneRunPerCode, Job
<1>. QED
  BY <1>1, Invariance, PTL

(* What the shop is told of an activation is what the engine said of the    *)
(* job that ran for this code; an unknown outcome never passes for one.     *)
THEOREM OutcomesAreTrue == Spec => []OutcomeIsTheEngines
<1>1. IInv => OutcomeIsTheEngines
  BY DEF IInv, TaskFits, Runs, OutcomeIsTheEngines, Job
<1>. QED
  BY <1>1, Invariance, PTL

(* With two time limits of room a worker that learned an outcome reports it *)
(* while its lease lasts, for any time limits and lease.                    *)
THEOREM OutcomesComeInTime == Spec => []ReportsInTime
<1>1. IInv => ReportsInTime
  <2>. SUFFICES ASSUME IInv, worker.pc = "waits", worker.message.kind = "result", worker.attempt = 0,
                       worker.outcome \in Confirmed
                PROVE  now < tasks[worker.code].leaseUntil
    BY DEF ReportsInTime
  <2>1. now <= worker.until /\ worker.until < worker.lease /\ worker.code \in Codes
        /\ worker.lease <= tasks[worker.code].leaseUntil
    BY DEF IInv, WorkerFits, Executes
  <2>2. now \in Nat /\ worker.until \in Nat /\ worker.lease \in Nat /\ tasks[worker.code].leaseUntil \in Nat
    BY <2>1, WorkerAssumption DEF IInv, TypeOK, Worker, Task
  <2>. QED
    BY <2>1, <2>2
<1>. QED
  BY <1>1, Invariance, PTL

(* The service as the worker sees it keeps the promise that RechargeBridge  *)
(* keeps: a task is handed out in the step in which it starts running, and  *)
(* what needs review or has an outcome stays so.                            *)
THEOREM WorkersServiceKeepsPromise == Spec => KeepsPromise
<1>. DEFINE ledger == [c \in Codes |-> tasks[c].status]
            handed == {c \in Codes : tasks[c].leaseUntil # 0}
<1>1. Init => Promise!PromiseInit
  BY DEF Init, Promise!PromiseInit, Fresh
<1>2. ASSUME IInv, IInv', TasksMove(tasks, tasks') PROVE Promise!PromiseStep
  <2>1. /\ ledger' = [c \in Codes |-> tasks'[c].status]
        /\ handed' = {c \in Codes : tasks'[c].leaseUntil # 0}
    OBVIOUS
  <2>2. \A c \in Codes : tasks'[c] \in Task /\ tasks[c] \in Task /\ TaskMoves(tasks[c], tasks'[c])
    BY <1>2 DEF IInv, TypeOK, TasksMove
  <2>3. ledger' \in [Codes -> Promise!LedgerStatus]
    BY <2>2 DEF Task, Outcome, Confirmed, Promise!LedgerStatus, Promise!Settled
  <2>4. \A c \in Codes : tasks'[c].status # tasks[c].status =>
                         <<tasks[c].status, tasks'[c].status>> \in Promise!Moves
    BY <2>2 DEF TaskMoves, LegalMove, Outcome, Confirmed, Promise!Moves, Promise!Settled
  <2>5. handed \subseteq handed'
    BY <2>2 DEF TaskMoves, Task
  <2>6. \A c \in handed' \ handed : tasks[c].status = "queued" /\ tasks'[c].status = "running"
    BY <2>2 DEF TaskMoves, Starts, Task
  <2>7. \A c, d \in Codes : /\ tasks[c].status = "queued" /\ tasks'[c].status = "running"
                            /\ tasks[d].status = "queued" /\ tasks'[d].status = "running"
                            => c = d
    BY <1>2 DEF TasksMove, Starts
  <2>. QED
    BY <2>3, <2>4, <2>5, <2>6, <2>7 DEF Promise!PromiseStep
<1>. QED
  BY <1>1, <1>2, Invariance, NextInvariant, PTL DEF Spec, KeepsPromise, Promise!PromiseSpec
=============================================================================
