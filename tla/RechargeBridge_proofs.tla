----------------------- MODULE RechargeBridge_proofs -----------------------
(***************************************************************************)
(* Proofs about RechargeBridge for every set of processes, codes, jobs and *)
(* evidence, every lifetime and every bound.                               *)
(*                                                                         *)
(* A handler works on Fresh(i), its own memory after expire(at), and never *)
(* on the file, so the argument has two halves: what a handler makes of a  *)
(* row (lemmas about rows and tasks), and that only a row equal to the one *)
(* in the file can replace it (Sync, from the compare-and-swap).           *)
(***************************************************************************)
EXTENDS RechargeBridge, SequenceTheorems, TLAPS

(***************************************************************************)
(* Sequences and single tasks                                              *)
(***************************************************************************)
(* Replacing the elements of a sequence one for one leaves a sequence.      *)
LEMMA MapIsSeq ==
  ASSUME NEW S, NEW s \in Seq(S), NEW f,
         f = [k \in DOMAIN s |-> f[k]], \A k \in DOMAIN s : f[k] \in S
  PROVE  f \in Seq(S) /\ DOMAIN f = DOMAIN s /\ Len(f) = Len(s)
<1>1. Len(s) \in Nat /\ DOMAIN s = 1..Len(s)
  BY LenProperties
<1>2. f \in [1..Len(s) -> S]
  BY <1>1
<1>3. f \in Seq(S)
  BY <1>1, <1>2, IsASeq
<1>4. DOMAIN f = 1..Len(f) /\ Len(f) \in Nat
  BY <1>3, LenProperties
<1>. QED
  BY <1>1, <1>2, <1>3, <1>4, SMT

(* A transition yields a task again, newer and otherwise unchanged.         *)
LEMMA TransitionTask ==
  ASSUME NEW t \in Task, NEW s \in Status, NEW at \in Nat
  PROVE  /\ Transition(t, s, at) \in Task
         /\ Transition(t, s, at).status = s
         /\ Transition(t, s, at).updatedAt > t.updatedAt
         /\ Transition(t, s, at).code = t.code
         /\ Transition(t, s, at).lease = t.lease
         /\ Transition(t, s, at).job = t.job
         /\ Transition(t, s, at).outcome = t.outcome
         /\ Transition(t, s, at).evidence = t.evidence
         /\ Transition(t, s, at).outcomeJob = t.outcomeJob
<1>. DEFINE x == IF at > t.updatedAt THEN at ELSE t.updatedAt + 1
            u == [t EXCEPT !.status = s, !.updatedAt = x]
<1>1. x \in Nat /\ x > t.updatedAt
  BY DEF Task
<1>2. Transition(t, s, at) = u
  BY DEF Transition
<1>. HIDE DEF x
<1>3. u \in Task
  BY <1>1 DEF Task
<1>4. u.status = s /\ u.updatedAt = x
  BY <1>1 DEF Task
<1>5. /\ u.code = t.code /\ u.lease = t.lease /\ u.job = t.job
      /\ u.outcome = t.outcome /\ u.evidence = t.evidence
      /\ u.outcomeJob = t.outcomeJob
  BY <1>1 DEF Task
<1>. QED
  BY <1>1, <1>2, <1>3, <1>4, <1>5

(* A task sent to review is a legal task and has grown.                     *)
LEMMA ReviewTask ==
  ASSUME NEW t \in Task, t.status \in {"queued", "running"}, NEW at \in Nat, TaskOK(t)
  PROVE  /\ TaskOK(Transition(t, "awaiting_review", at))
         /\ TaskGrows(t, Transition(t, "awaiting_review", at))
<1>1. "awaiting_review" \in Status
  BY DEF Status, Final
<1>. DEFINE u == Transition(t, "awaiting_review", at)
<1>2. /\ u \in Task /\ u.status = "awaiting_review" /\ u.updatedAt > t.updatedAt
      /\ u.code = t.code /\ u.lease = t.lease /\ u.job = t.job
      /\ u.outcome = t.outcome /\ u.evidence = t.evidence
  BY <1>1, TransitionTask
<1>. HIDE DEF u
<1>3. t.outcome = "none"
  BY DEF TaskOK, Task, Final, Confirmed
<1>. QED
  BY <1>2, <1>3 DEF TaskOK, TaskGrows, Confirmed, Final, u

LEMMA TaskGrowsTwice ==
  ASSUME NEW t \in Task, NEW u \in Task, NEW v \in Task,
         TaskGrows(t, u), TaskGrows(u, v)
  PROVE  TaskGrows(t, v)
<1>1. v.updatedAt > t.updatedAt
  BY DEF TaskGrows, Task
<1>2. t.job \in {NoJob, v.job}
  BY DEF TaskGrows
<1>3. t.lease # 0 => v.lease = t.lease
  BY DEF TaskGrows
<1>. QED
  BY <1>1, <1>2, <1>3 DEF TaskGrows

(* Growing is transitive, so two commits of one request count as one.       *)
LEMMA GrowTwice ==
  ASSUME NEW ts \in Seq(Task), NEW us \in Seq(Task), NEW vs \in Seq(Task),
         TasksGrow(ts, us), TasksGrow(us, vs)
  PROVE  TasksGrow(ts, vs)
<1>1. DOMAIN ts \subseteq DOMAIN vs
  BY DEF TasksGrow
<1>2. ASSUME NEW k \in DOMAIN ts
      PROVE  vs[k] = ts[k] \/ TaskGrows(ts[k], vs[k])
  <2>1. k \in DOMAIN us /\ k \in DOMAIN vs
    BY <1>2 DEF TasksGrow
  <2>2. ts[k] \in Task /\ us[k] \in Task /\ vs[k] \in Task
    BY <1>2, <2>1, ElementOfSeq, LenProperties
  <2>3. us[k] = ts[k] \/ TaskGrows(ts[k], us[k])
    BY <1>2 DEF TasksGrow
  <2>4. vs[k] = us[k] \/ TaskGrows(us[k], vs[k])
    BY <2>1 DEF TasksGrow
  <2>. QED
    BY <2>2, <2>3, <2>4, TaskGrowsTwice
<1>. QED
  BY <1>1, <1>2 DEF TasksGrow

LEMMA GrowNot == ASSUME NEW ts PROVE TasksGrow(ts, ts)
  BY DEF TasksGrow

(***************************************************************************)
(* Rows                                                                    *)
(***************************************************************************)
(* A row's tasks changed one for one, each by growing.                      *)
LEMMA MapTasks ==
  ASSUME NEW ts \in Seq(Task), TasksOK(ts),
         NEW f, f = [k \in DOMAIN ts |-> f[k]],
         \A k \in DOMAIN ts : /\ f[k] \in Task /\ TaskOK(f[k])
                              /\ f[k] = ts[k] \/ TaskGrows(ts[k], f[k]),
         EvidenceOnce(f)
  PROVE  /\ f \in Seq(Task)
         /\ DOMAIN f = DOMAIN ts
         /\ TasksOK(f)
         /\ TasksGrow(ts, f)
<1>1. f \in Seq(Task) /\ DOMAIN f = DOMAIN ts
  BY MapIsSeq
<1>2. \A k \in DOMAIN ts : f[k].code = ts[k].code
  BY DEF TaskGrows
<1>3. CodesOnce(f)
  BY <1>1, <1>2 DEF TasksOK, CodesOnce
<1>. QED
  BY <1>1, <1>3 DEF TasksOK, TasksGrow

(* What expire(at) makes of a good row is a good row that has grown.        *)
LEMMA ExpireRow ==
  ASSUME NEW row \in Row, TasksOK(row.tasks), NEW at \in Nat, NEW r \in BOOLEAN
  PROVE  /\ Expired(row, at, r) \in Row
         /\ TasksOK(Expired(row, at, r).tasks)
         /\ TasksGrow(row.tasks, Expired(row, at, r).tasks)
         /\ DOMAIN Expired(row, at, r).tasks = DOMAIN row.tasks
         /\ Expired(row, at, r).nonces \subseteq row.nonces
<1>1. row.tasks \in Seq(Task) /\ row.revision \in Nat /\ row.nonces \subseteq Nonce
  BY DEF Row
<1>. DEFINE ts == row.tasks
            f == ExpiredTasks(row, at, r)
<1>2. \A k \in DOMAIN ts : ts[k] \in Task /\ TaskOK(ts[k])
  BY <1>1, ElementOfSeq, LenProperties DEF TasksOK
<1>3. ASSUME NEW k \in DOMAIN ts
      PROVE  /\ f[k] \in Task /\ TaskOK(f[k])
             /\ f[k] = ts[k] \/ TaskGrows(ts[k], f[k])
             /\ f[k].evidence = ts[k].evidence
  <2>1. CASE Due(ts[k], at, r)
    <3>1. ts[k].status \in {"queued", "running"}
      BY <2>1 DEF Due
    <3>2. f[k] = Transition(ts[k], "awaiting_review", at)
      BY <2>1 DEF ExpiredTasks
    <3>3. "awaiting_review" \in Status
      BY DEF Status, Final
    <3>. QED
      BY <1>2, <3>1, <3>2, <3>3, TransitionTask, ReviewTask
  <2>2. CASE ~Due(ts[k], at, r)
    <3>1. f[k] = ts[k]
      BY <2>2 DEF ExpiredTasks
    <3>. QED
      BY <1>2, <3>1
  <2>. QED
    BY <2>1, <2>2
<1>4. f = [k \in DOMAIN ts |-> f[k]] /\ DOMAIN f = DOMAIN ts
  BY DEF ExpiredTasks
<1>. HIDE DEF f
<1>5. EvidenceOnce(f)
  BY <1>3, <1>4 DEF TasksOK, EvidenceOnce
<1>6. f \in Seq(Task) /\ DOMAIN f = DOMAIN ts /\ TasksOK(f) /\ TasksGrow(ts, f)
  BY <1>1, <1>3, <1>4, <1>5, MapTasks
<1>7. CASE MustExpire(row, at, r)
  <2>1. Expired(row, at, r) =
          [revision |-> row.revision + 1, tasks |-> f, nonces |-> LiveNonces(row, at)]
    BY <1>7 DEF Expired, Revise, f
  <2>2. LiveNonces(row, at) \subseteq row.nonces
    BY DEF LiveNonces
  <2>. QED
    BY <1>1, <1>6, <2>1, <2>2 DEF Row
<1>8. CASE ~MustExpire(row, at, r)
  BY <1>8, GrowNot DEF Expired
<1>. QED
  BY <1>7, <1>8

(***************************************************************************)
(* The compare-and-swap                                                    *)
(***************************************************************************)
LEMMA RecordedGrows ==
  ASSUME NEW g \in Grant, NEW ts, NEW us, Recorded(g, ts), TasksGrow(ts, us)
  PROVE  Recorded(g, us)
  BY DEF Recorded, TasksGrow, TaskGrows, Grant

(* row, the file after what the request already wrote, may be replaced by   *)
(* next, made from the memory mem.                                          *)
Replaces(row, mem, next) ==
  /\ row \in Row /\ mem \in Row /\ next \in Row
  /\ TasksOK(row.tasks) /\ TasksOK(mem.tasks) /\ TasksOK(next.tasks)
  /\ TasksGrow(store.tasks, row.tasks) /\ store.revision <= row.revision
  /\ row.revision = store.revision => row = store
  /\ mem.revision <= row.revision
  /\ mem.revision = row.revision => mem = row
  /\ TasksGrow(mem.tasks, row.tasks) /\ TasksGrow(mem.tasks, next.tasks)
  /\ next.revision = mem.revision + 1

(* One try of a commit, with every outcome it may have.                     *)
Tries(i, row, mem, next, held, left, grants) ==
  \/ /\ Commits(i, row, mem, next)
     /\ sessions' = [sessions EXCEPT ![i] = left]
     /\ granted' = granted \cup grants
     /\ UNCHANGED <<lock, phase, needsRecovery, serves>>
  \/ CommitFails(i, row, mem, next, held)

(* A try to replace it preserves the invariant whatever becomes of it.      *)
LEMMA CommitStep ==
  ASSUME IInv, NEW i \in Instances, phase[i] = "serving",
         NEW row, NEW mem, NEW next, Replaces(row, mem, next),
         NEW held \in SUBSET Session, NEW left \in SUBSET Session,
         NEW grants \in SUBSET Grant, \A g \in grants : Recorded(g, next.tasks),
         UNCHANGED <<now, signed>>,
         Tries(i, row, mem, next, held, left, grants)
  PROVE  IInv' /\ TasksGrow(store.tasks, store'.tasks)
<1>. USE DEF Tries
<1>0. /\ row \in Row /\ mem \in Row /\ next \in Row
      /\ TasksOK(row.tasks) /\ TasksOK(mem.tasks) /\ TasksOK(next.tasks)
      /\ TasksGrow(store.tasks, row.tasks) /\ store.revision <= row.revision
      /\ row.revision = store.revision => row = store
      /\ mem.revision <= row.revision
      /\ mem.revision = row.revision => mem = row
      /\ TasksGrow(mem.tasks, row.tasks) /\ TasksGrow(mem.tasks, next.tasks)
      /\ next.revision = mem.revision + 1
  BY DEF Replaces
<1>1. store' = row \/ (mem = row /\ store' = next)
  <2>1. store' = row \/ (mem.revision = row.revision /\ store' = next)
    BY DEF Commits, CommitFails, CommitThrows, CommitThenCrash
  <2>. QED
    BY <1>0, <2>1
<1>2. store' \in Row /\ TasksOK(store'.tasks)
  BY <1>0, <1>1
<1>3. TasksGrow(store.tasks, store'.tasks)
  BY <1>0, <1>1, GrowTwice DEF Row, IInv, TypeOK
<1>4. /\ Blank \in Row /\ TasksOK(Blank.tasks)
      /\ Blank.revision = 0
  BY EmptySeq DEF Blank, Row, TasksOK, CodesOnce, EvidenceOnce
<1>5. \E x \in {mem, next, Blank} : copy' = [copy EXCEPT ![i] = x]
  BY DEF Commits, CommitFails, CommitThrows, CommitThenCrash, Down
<1>6. /\ phase' = phase \/ phase' = [phase EXCEPT ![i] = "down"]
      /\ lock' = lock
      /\ \E b \in BOOLEAN : needsRecovery' = [needsRecovery EXCEPT ![i] = b]
      /\ \E ss \in SUBSET Session : sessions' = [sessions EXCEPT ![i] = ss]
      /\ serves' = serves \/ serves' = [serves EXCEPT ![i] = {}]
      /\ granted' \in {granted, granted \cup grants}
      /\ granted' # granted => store' = next
      /\ accepted' = accepted \cup NoncesOf(store')
  <2>1. CASE /\ Commits(i, row, mem, next)
             /\ sessions' = [sessions EXCEPT ![i] = left]
             /\ granted' = granted \cup grants
             /\ UNCHANGED <<lock, phase, needsRecovery, serves>>
    <3>1. needsRecovery' = [needsRecovery EXCEPT ![i] = needsRecovery[i]]
          /\ needsRecovery[i] \in BOOLEAN
      BY <2>1 DEF IInv, TypeOK
    <3>. QED
      BY <2>1, <3>1 DEF Commits, Accept
  <2>2. CASE CommitThrows(i, row, mem, next, held)
    BY <2>2 DEF CommitThrows, Accept
  <2>3. CASE CommitThenCrash(i, row, mem, next)
    BY <2>3 DEF CommitThenCrash, Down, Accept
  <2>. QED
    BY <2>1, <2>2, <2>3 DEF CommitFails
<1>7. TypeOK'
  <2>1. NoncesOf(store') \subseteq Nat
    BY <1>2 DEF NoncesOf, Row, Nonce
  <2>2. copy' \in [Instances -> Row]
    BY <1>0, <1>4, <1>5 DEF IInv, TypeOK
  <2>3. phase' \in [Instances -> {"down", "serving", "closing"}]
    BY <1>6 DEF IInv, TypeOK
  <2>4. needsRecovery' \in [Instances -> BOOLEAN]
    BY <1>6 DEF IInv, TypeOK
  <2>5. serves' \in [Instances -> SUBSET Codes]
    BY <1>6 DEF IInv, TypeOK
  <2>6. sessions' \in [Instances -> SUBSET Session]
    BY <1>6 DEF IInv, TypeOK
  <2>7. granted' \in SUBSET Grant /\ accepted' \in SUBSET Nat
    BY <1>6, <2>1 DEF IInv, TypeOK
  <2>8. now' \in Nat /\ lock' \in BOOLEAN /\ signed' \in Seq(Request)
    BY <1>6 DEF IInv, TypeOK
  <2>. QED
    BY <1>2, <2>2, <2>3, <2>4, <2>5, <2>6, <2>7, <2>8 DEF TypeOK
<1>8. CopiesOK'
  BY <1>0, <1>4, <1>5 DEF IInv, TypeOK, CopiesOK
<1>9. Sync'
  <2> SUFFICES ASSUME NEW j \in Instances, phase'[j] = "serving"
               PROVE  /\ copy'[j].revision <= store'.revision
                      /\ copy'[j].revision = store'.revision => copy'[j] = store'
                      /\ TasksGrow(copy'[j].tasks, store'.tasks)
    BY DEF Sync
  <2>1. /\ store.revision \in Nat /\ row.revision \in Nat
        /\ mem.revision \in Nat /\ next.revision \in Nat
        /\ copy[j].revision \in Nat
    BY <1>0 DEF IInv, TypeOK, Row
  <2>2. CASE j # i
    <3>1. copy'[j] = copy[j] /\ phase[j] = "serving"
      BY <1>5, <1>6, <2>2 DEF IInv, TypeOK
    <3>2. /\ copy[j].revision <= store.revision
          /\ copy[j].revision = store.revision => copy[j] = store
          /\ TasksGrow(copy[j].tasks, store.tasks)
      BY <3>1 DEF IInv, Sync
    <3>3. TasksGrow(copy[j].tasks, store'.tasks)
      BY <1>2, <1>3, <3>2, GrowTwice DEF Row, IInv, TypeOK
    <3>. QED
      BY <1>0, <1>1, <2>1, <3>1, <3>2, <3>3
  <2>3. CASE j = i
    <3>1. \/ copy'[i] = next /\ store' = next
          \/ copy'[i] = mem
      <4>1. phase'[i] # "down"
        BY <2>3
      <4>2. ~CommitThenCrash(i, row, mem, next)
        BY <4>1 DEF CommitThenCrash, Down, IInv, TypeOK
      <4>. QED
        BY <4>2 DEF Commits, CommitFails, CommitThrows, IInv, TypeOK
    <3>2. CASE copy'[i] = next /\ store' = next
      BY <2>1, <2>3, <3>2, GrowNot
    <3>3. CASE copy'[i] = mem
      <4>1. mem.revision <= store'.revision
        BY <1>0, <1>1, <2>1
      <4>2. mem.revision = store'.revision => mem = store'
        BY <1>0, <1>1, <2>1
      <4>3. TasksGrow(mem.tasks, store'.tasks)
        BY <1>0, <1>1
      <4>. QED
        BY <2>3, <3>3, <4>1, <4>2, <4>3
    <3>. QED
      BY <3>1, <3>2, <3>3
  <2>. QED
    BY <2>2, <2>3
<1>10. HandedOutOnRecord'
  <2> SUFFICES ASSUME NEW g \in granted' PROVE Recorded(g, store'.tasks)
    BY DEF HandedOutOnRecord
  <2>1. CASE g \in granted
    BY <1>3, <2>1, RecordedGrows DEF IInv, TypeOK, HandedOutOnRecord
  <2>2. CASE g \notin granted
    BY <1>6, <2>2
  <2>. QED
    BY <2>1, <2>2
<1>. QED
  BY <1>2, <1>3, <1>7, <1>8, <1>9, <1>10 DEF IInv

(***************************************************************************)
(* What a handler starts from                                              *)
(***************************************************************************)
LEMMA FreshFacts ==
  ASSUME IInv, NEW i \in Instances, phase[i] = "serving"
  PROVE  /\ Fresh(i) \in Row /\ FreshStore(i) \in Row
         /\ TasksOK(Fresh(i).tasks) /\ TasksOK(FreshStore(i).tasks)
         /\ TasksGrow(copy[i].tasks, Fresh(i).tasks)
         /\ FreshSessions(i) \in SUBSET Session
         /\ CanExpire(i) =>
              /\ TasksGrow(store.tasks, FreshStore(i).tasks)
              /\ store.revision <= FreshStore(i).revision
              /\ FreshStore(i).revision = store.revision => FreshStore(i) = store
              /\ Fresh(i).revision <= FreshStore(i).revision
              /\ Fresh(i).revision = FreshStore(i).revision => Fresh(i) = FreshStore(i)
              /\ TasksGrow(Fresh(i).tasks, FreshStore(i).tasks)
<1>1. /\ copy[i] \in Row /\ store \in Row /\ now \in Nat
      /\ TasksOK(copy[i].tasks) /\ TasksOK(store.tasks)
      /\ sessions[i] \in SUBSET Session
  BY DEF IInv, TypeOK, CopiesOK
<1>2. /\ Fresh(i) \in Row /\ TasksOK(Fresh(i).tasks)
      /\ TasksGrow(copy[i].tasks, Fresh(i).tasks)
  BY <1>1, ExpireRow DEF Fresh
<1>3. FreshStore(i) \in Row /\ TasksOK(FreshStore(i).tasks)
  BY <1>1, <1>2 DEF FreshStore
<1>4. FreshSessions(i) \in SUBSET Session
  BY <1>1 DEF FreshSessions
<1>5. ASSUME CanExpire(i)
      PROVE  /\ TasksGrow(store.tasks, FreshStore(i).tasks)
             /\ store.revision <= FreshStore(i).revision
             /\ FreshStore(i).revision = store.revision => FreshStore(i) = store
             /\ Fresh(i).revision <= FreshStore(i).revision
             /\ Fresh(i).revision = FreshStore(i).revision => Fresh(i) = FreshStore(i)
             /\ TasksGrow(Fresh(i).tasks, FreshStore(i).tasks)
  <2>1. /\ copy[i].revision <= store.revision
        /\ copy[i].revision = store.revision => copy[i] = store
        /\ TasksGrow(copy[i].tasks, store.tasks)
        /\ copy[i].revision \in Nat /\ store.revision \in Nat
    BY <1>1 DEF IInv, Sync, Row
  <2>2. CASE MustExpire(copy[i], now, FALSE)
    <3>1. copy[i] = store
      BY <1>5, <2>1, <2>2 DEF CanExpire
    <3>2. FreshStore(i) = Fresh(i) /\ Fresh(i).revision = copy[i].revision + 1
      BY <2>2 DEF FreshStore, Fresh, Expired, Revise
    <3>. QED
      BY <1>2, <2>1, <3>1, <3>2, GrowNot
  <2>3. CASE ~MustExpire(copy[i], now, FALSE)
    <3>1. FreshStore(i) = store /\ Fresh(i) = copy[i]
      BY <2>3 DEF FreshStore, Fresh, Expired
    <3>. QED
      BY <2>1, <3>1, GrowNot
  <2>. QED
    BY <2>2, <2>3
<1>. QED
  BY <1>2, <1>3, <1>4, <1>5

(* A handler that turns its memory's tasks into grown, legal ones, and      *)
(* gives away only what it records, preserves the invariant.                *)
LEMMA HandlerStep ==
  ASSUME IInv, NEW i \in Instances, phase[i] = "serving", CanExpire(i),
         NEW tasks \in Seq(Task), TasksOK(tasks), TasksGrow(Fresh(i).tasks, tasks),
         NEW nonces \in SUBSET Nonce,
         NEW held \in SUBSET Session, NEW left \in SUBSET Session,
         NEW grants \in SUBSET Grant, \A g \in grants : Recorded(g, tasks),
         UNCHANGED <<now, signed>>,
         HandlerCommits(i, tasks, nonces, held, left, grants)
  PROVE  IInv' /\ TasksGrow(store.tasks, store'.tasks)
<1>. DEFINE next == Revise(Fresh(i), tasks, nonces)
<1>1. /\ Fresh(i) \in Row /\ FreshStore(i) \in Row
      /\ TasksOK(Fresh(i).tasks) /\ TasksOK(FreshStore(i).tasks)
      /\ TasksGrow(store.tasks, FreshStore(i).tasks)
      /\ store.revision <= FreshStore(i).revision
      /\ FreshStore(i).revision = store.revision => FreshStore(i) = store
      /\ Fresh(i).revision <= FreshStore(i).revision
      /\ Fresh(i).revision = FreshStore(i).revision => Fresh(i) = FreshStore(i)
      /\ TasksGrow(Fresh(i).tasks, FreshStore(i).tasks)
  BY FreshFacts
<1>2. next \in Row /\ next.revision = Fresh(i).revision + 1 /\ next.tasks = tasks
  BY <1>1 DEF Revise, Row
<1>3. Replaces(FreshStore(i), Fresh(i), next)
  BY <1>1, <1>2 DEF Replaces
<1>4. Tries(i, FreshStore(i), Fresh(i), next, held, left, grants)
  BY DEF HandlerCommits, Tries
<1>. HIDE DEF next
<1>. QED
  BY <1>2, <1>3, <1>4, CommitStep

(***************************************************************************)
(* The handlers                                                            *)
(***************************************************************************)
(* One task of a row replaced by a grown one.                               *)
LEMMA ReplaceTask ==
  ASSUME NEW ts \in Seq(Task), TasksOK(ts), NEW k \in DOMAIN ts,
         NEW u \in Task, TaskOK(u), TaskGrows(ts[k], u),
         u.evidence # NoEvidence => \A j \in DOMAIN ts : ts[j].evidence # u.evidence
  PROVE  /\ [ts EXCEPT ![k] = u] \in Seq(Task)
         /\ TasksOK([ts EXCEPT ![k] = u])
         /\ TasksGrow(ts, [ts EXCEPT ![k] = u])
<1>. DEFINE f == [ts EXCEPT ![k] = u]
<1>1. /\ f = [j \in DOMAIN ts |-> f[j]] /\ DOMAIN f = DOMAIN ts
      /\ f[k] = u /\ \A j \in DOMAIN ts \ {k} : f[j] = ts[j]
  BY ElementOfSeq
<1>2. \A j \in DOMAIN ts : ts[j] \in Task /\ TaskOK(ts[j])
  BY ElementOfSeq, LenProperties DEF TasksOK
<1>. HIDE DEF f
<1>3. \A j \in DOMAIN ts : /\ f[j] \in Task /\ TaskOK(f[j])
                           /\ f[j] = ts[j] \/ TaskGrows(ts[j], f[j])
  BY <1>1, <1>2
<1>4. EvidenceOnce(f)
  BY <1>1, <1>2 DEF TasksOK, EvidenceOnce
<1>5. f \in Seq(Task) /\ TasksOK(f) /\ TasksGrow(ts, f)
  BY <1>1, <1>3, <1>4, MapTasks
<1>. QED
  BY <1>5 DEF f

(* What every handler of a worker request starts from.                      *)
LEMMA AdmitFacts ==
  ASSUME IInv, NEW i \in Instances, NEW n \in DOMAIN signed, NEW kind, Admits(i, n, kind)
  PROVE  /\ phase[i] = "serving" /\ CanExpire(i)
         /\ signed[n] \in Request /\ n \in Nat
         /\ NoncesWith(i, n) \in SUBSET Nonce
         /\ now \in Nat /\ Fresh(i) \in Row
         /\ Fresh(i).tasks \in Seq(Task) /\ TasksOK(Fresh(i).tasks)
         /\ \A k \in DOMAIN Fresh(i).tasks : Fresh(i).tasks[k] \in Task /\ TaskOK(Fresh(i).tasks[k])
         /\ FreshSessions(i) \in SUBSET Session
<1>1. phase[i] = "serving" /\ CanExpire(i)
  BY DEF Admits, Serving
<1>2. signed \in Seq(Request) /\ now \in Nat
  BY DEF IInv, TypeOK
<1>3. signed[n] \in Request /\ n \in Nat
  BY <1>2, ElementOfSeq, LenProperties
<1>4. /\ Fresh(i) \in Row /\ TasksOK(Fresh(i).tasks)
      /\ FreshSessions(i) \in SUBSET Session
  BY <1>1, FreshFacts
<1>5. Fresh(i).tasks \in Seq(Task) /\ Fresh(i).nonces \in SUBSET Nonce
  BY <1>4 DEF Row
<1>6. signed[n].time + SignatureWindow \in Nat
  BY <1>3, BridgeAssumption DEF Request
<1>7. NoncesWith(i, n) \in SUBSET Nonce
  BY <1>3, <1>5, <1>6 DEF NoncesWith, Nonce
<1>8. \A k \in DOMAIN Fresh(i).tasks : Fresh(i).tasks[k] \in Task /\ TaskOK(Fresh(i).tasks[k])
  BY <1>4, <1>5, ElementOfSeq, LenProperties DEF TasksOK
<1>. QED
  BY <1>1, <1>2, <1>3, <1>4, <1>5, <1>7, <1>8

LEMMA FinishStep ==
  ASSUME IInv, NEW i \in Instances, NEW n \in DOMAIN signed, NEW kind, Admits(i, n, kind),
         NEW tasks \in Seq(Task), TasksOK(tasks), TasksGrow(Fresh(i).tasks, tasks),
         Finish(i, n, tasks)
  PROVE  IInv' /\ TasksGrow(store.tasks, store'.tasks)
<1>1. /\ phase[i] = "serving" /\ CanExpire(i)
      /\ NoncesWith(i, n) \in SUBSET Nonce
      /\ FreshSessions(i) \in SUBSET Session
  BY AdmitFacts
<1>2. /\ HandlerCommits(i, tasks, NoncesWith(i, n), FreshSessions(i), FreshSessions(i), {})
      /\ UNCHANGED <<now, signed>>
  BY DEF Finish
<1>. QED
  BY <1>1, <1>2, HandlerStep

(* A request that finishes with these tasks moved none but running ones.    *)
Finishes(i, n, kind, tasks) ==
  /\ Admits(i, n, kind) /\ Finish(i, n, tasks)
  /\ TasksOK(tasks) /\ TasksGrow(Fresh(i).tasks, tasks)
  /\ DOMAIN tasks = DOMAIN Fresh(i).tasks
  /\ \A k \in DOMAIN tasks : \/ tasks[k] = Fresh(i).tasks[k]
                             \/ /\ Fresh(i).tasks[k].status = "running"
                                /\ tasks[k].status \in {"running"} \cup Final

(* progress() extends the lease of a running task and may name its job.     *)
LEMMA ProgressFinishes ==
  ASSUME IInv, NEW i \in Instances, NEW n \in DOMAIN signed, Progress(i, n)
  PROVE  \E tasks \in Seq(Task) : Finishes(i, n, "progress", tasks)
<1>. DEFINE tasks == Fresh(i).tasks
            r == signed[n]
            t == tasks[r.task]
            v == Transition(t, "running", now)
            u == [v EXCEPT !.job = r.job, !.leaseUntil = now + LeaseLifetime]
<1>1. /\ Admits(i, n, "progress")
      /\ ProgressAccepted(tasks, r)
      /\ Finish(i, n, [tasks EXCEPT ![r.task] = u])
  BY DEF Progress
<1>2. /\ r \in Request /\ now \in Nat /\ tasks \in Seq(Task) /\ TasksOK(tasks)
      /\ \A k \in DOMAIN tasks : tasks[k] \in Task /\ TaskOK(tasks[k])
  BY <1>1, AdmitFacts
<1>3. /\ r.task \in DOMAIN tasks /\ t \in Task /\ TaskOK(t)
      /\ t.status = "running" /\ t.job \in {NoJob, r.job} /\ r.job \in Jobs
      /\ t.outcome = "none" /\ t.evidence = NoEvidence /\ t.lease # 0
  <2>1. /\ r.task \in DOMAIN tasks /\ t.lease # 0
        /\ t.status = "running" /\ t.job \in {NoJob, r.job} /\ r.job # NoJob
    BY <1>1 DEF ProgressAccepted, HoldsLease
  <2>2. t \in Task /\ TaskOK(t)
    BY <1>2, <2>1
  <2>3. r.job \in Jobs
    BY <1>2, <2>1 DEF Request
  <2>4. t.outcome = "none"
    BY <2>1, <2>2 DEF TaskOK, Task, Final, Confirmed
  <2>. QED
    BY <2>1, <2>2, <2>3, <2>4 DEF TaskOK
<1>4. "running" \in Status /\ now + LeaseLifetime \in Nat
  BY <1>2, BridgeAssumption DEF Status
<1>. HIDE DEF t
<1>5. /\ v \in Task /\ v.status = "running" /\ v.updatedAt > t.updatedAt
      /\ v.code = t.code /\ v.lease = t.lease /\ v.outcome = t.outcome
      /\ v.evidence = t.evidence
  BY <1>2, <1>3, <1>4, TransitionTask
<1>. HIDE DEF v
<1>6. u \in Task
  BY <1>3, <1>4, <1>5 DEF Task
<1>7. /\ u.status = "running" /\ u.updatedAt = v.updatedAt /\ u.code = v.code
      /\ u.lease = v.lease /\ u.outcome = v.outcome /\ u.evidence = v.evidence
      /\ u.job = r.job
  BY <1>5 DEF Task
<1>. HIDE DEF u
<1>8. TaskOK(u)
  BY <1>3, <1>5, <1>7 DEF TaskOK, Confirmed
<1>9. TaskGrows(t, u)
  BY <1>3, <1>5, <1>7 DEF TaskGrows, Final, Confirmed
<1>10. /\ [tasks EXCEPT ![r.task] = u] \in Seq(Task)
       /\ TasksOK([tasks EXCEPT ![r.task] = u])
       /\ TasksGrow(tasks, [tasks EXCEPT ![r.task] = u])
  BY <1>2, <1>3, <1>5, <1>6, <1>7, <1>8, <1>9, ReplaceTask DEF t
<1>. DEFINE f == [tasks EXCEPT ![r.task] = u]
<1>11. DOMAIN f = DOMAIN tasks /\ f[r.task] = u /\ \A j \in DOMAIN tasks \ {r.task} : f[j] = tasks[j]
  BY <1>2, <1>3, ElementOfSeq
<1>12. tasks[r.task].status = "running" /\ u.status = "running"
  BY <1>3, <1>5, <1>7 DEF t
<1>. HIDE DEF f
<1>13. Finishes(i, n, "progress", f)
  BY <1>1, <1>10, <1>11, <1>12 DEF Finishes, f
<1>14. f \in Seq(Task)
  BY <1>10 DEF f
<1>. QED
  BY <1>13, <1>14

(* result() settles a running task with the evidence it checked.            *)
LEMMA ResultFinishes ==
  ASSUME IInv, NEW i \in Instances, NEW n \in DOMAIN signed, Result(i, n)
  PROVE  \E tasks \in Seq(Task) : Finishes(i, n, "result", tasks)
<1>. DEFINE tasks == Fresh(i).tasks
            r == signed[n]
            t == tasks[r.task]
            v == Transition(t, r.status, now)
            u == [v EXCEPT !.outcome = r.status, !.evidence = r.evidence,
                           !.outcomeJob = r.job]
<1>1. /\ Admits(i, n, "result")
      /\ ResultAccepted(tasks, r)
      /\ Finish(i, n, [tasks EXCEPT ![r.task] = u])
  BY DEF Result
<1>2. /\ r \in Request /\ now \in Nat /\ tasks \in Seq(Task) /\ TasksOK(tasks)
      /\ \A k \in DOMAIN tasks : tasks[k] \in Task /\ TaskOK(tasks[k])
  BY <1>1, AdmitFacts
<1>3. /\ r.task \in DOMAIN tasks /\ t.lease # 0
      /\ t.status = "running" /\ t.job \in {NoJob, r.job}
      /\ (r.status \in Confirmed) <=> (r.evidence # NoEvidence)
      /\ r.status \in Confirmed =>
           \A k \in DOMAIN tasks : tasks[k].evidence # r.evidence
  BY <1>1 DEF ResultAccepted, WellFormed, HoldsLease
<1>4. t \in Task /\ TaskOK(t)
  BY <1>2, <1>3
<1>5. /\ r.status \in Final \cup {"none"} /\ r.evidence \in Evidence \cup {NoEvidence}
      /\ r.job \in Jobs \cup {NoJob}
  BY <1>2 DEF Request
<1>6. r.status \in Final
  BY <1>1, <1>2 DEF Request, Admits
<1>7. r.status \in Status
  BY <1>6 DEF Status
<1>. HIDE DEF t
<1>8. /\ v \in Task /\ v.status = r.status /\ v.updatedAt > t.updatedAt
      /\ v.code = t.code /\ v.lease = t.lease /\ v.job = t.job
  BY <1>2, <1>4, <1>7, TransitionTask
<1>. HIDE DEF v
<1>9. u \in Task
  BY <1>5, <1>6, <1>8 DEF Task
<1>10. /\ u.status = r.status /\ u.updatedAt = v.updatedAt /\ u.code = v.code
       /\ u.lease = v.lease /\ u.outcome = r.status /\ u.evidence = r.evidence
       /\ u.job = v.job /\ u.outcomeJob = r.job
  BY <1>8 DEF Task
<1>. HIDE DEF u
<1>11. TaskOK(u)
  BY <1>3, <1>6, <1>8, <1>10 DEF TaskOK, Confirmed, Final
<1>12. TaskGrows(t, u)
  BY <1>3, <1>6, <1>8, <1>10 DEF TaskGrows, Final, Confirmed
<1>13. /\ [tasks EXCEPT ![r.task] = u] \in Seq(Task)
       /\ TasksOK([tasks EXCEPT ![r.task] = u])
       /\ TasksGrow(tasks, [tasks EXCEPT ![r.task] = u])
  BY <1>2, <1>3, <1>9, <1>10, <1>11, <1>12, ReplaceTask DEF t
<1>. DEFINE f == [tasks EXCEPT ![r.task] = u]
<1>14. DOMAIN f = DOMAIN tasks /\ f[r.task] = u /\ \A j \in DOMAIN tasks \ {r.task} : f[j] = tasks[j]
  BY <1>2, <1>3, ElementOfSeq
<1>15. tasks[r.task].status = "running" /\ u.status \in Final
  BY <1>3, <1>6, <1>10 DEF t
<1>. HIDE DEF f
<1>16. Finishes(i, n, "result", f)
  BY <1>1, <1>13, <1>14, <1>15 DEF Finishes, f
<1>17. f \in Seq(Task)
  BY <1>13 DEF f
<1>. QED
  BY <1>16, <1>17

LEMMA RefuseFinishes ==
  ASSUME IInv, NEW i \in Instances, NEW n \in DOMAIN signed, Refuse(i, n)
  PROVE  \E kind \in {"progress", "result"}, tasks \in Seq(Task) : Finishes(i, n, kind, tasks)
<1>1. PICK kind \in {"progress", "result"} : Admits(i, n, kind)
  BY DEF Refuse
<1>2. Fresh(i).tasks \in Seq(Task) /\ TasksOK(Fresh(i).tasks)
  BY <1>1, AdmitFacts
<1>3. TasksGrow(Fresh(i).tasks, Fresh(i).tasks)
  BY GrowNot
<1>4. Finish(i, n, Fresh(i).tasks)
  BY DEF Refuse
<1>5. Finishes(i, n, kind, Fresh(i).tasks)
  BY <1>1, <1>2, <1>3, <1>4 DEF Finishes
<1>. QED
  BY <1>2, <1>5

LEMMA ReportStep ==
  ASSUME IInv, NEW i \in Instances, NEW n \in DOMAIN signed,
         Progress(i, n) \/ Result(i, n) \/ Refuse(i, n)
  PROVE  IInv' /\ TasksGrow(store.tasks, store'.tasks)
<1>1. PICK kind \in {"progress", "result"}, tasks \in Seq(Task) : Finishes(i, n, kind, tasks)
  BY ProgressFinishes, ResultFinishes, RefuseFinishes
<1>. QED
  BY <1>1, FinishStep DEF Finishes

(* A claimed task runs under a new lease.                                   *)
LEMMA ClaimedTask ==
  ASSUME IInv, NEW i \in Instances, Fresh(i) \in Row, now \in Nat,
         NEW k \in DOMAIN Fresh(i).tasks, Fresh(i).tasks[k] \in Task,
         TaskOK(Fresh(i).tasks[k]), Fresh(i).tasks[k].status = "queued"
  PROVE  /\ Claimed(i, k) \in Task /\ TaskOK(Claimed(i, k))
         /\ TaskGrows(Fresh(i).tasks[k], Claimed(i, k))
         /\ Claimed(i, k).evidence = Fresh(i).tasks[k].evidence
         /\ Claimed(i, k).lease = Fresh(i).revision + 1
         /\ Claimed(i, k).status = "running"
<1>. DEFINE t == Fresh(i).tasks[k]
            v == Transition(t, "running", now)
            lease == Fresh(i).revision + 1
            u == [v EXCEPT !.lease = lease, !.leaseUntil = now + LeaseLifetime]
<1>1. Claimed(i, k) = u
  BY DEF Claimed
<1>0. "running" \in Status
  BY DEF Status
<1>2. lease \in Nat \ {0} /\ now + LeaseLifetime \in Nat
  BY BridgeAssumption DEF Row
<1>3. /\ v \in Task /\ v.status = "running" /\ v.updatedAt > t.updatedAt
      /\ v.code = t.code /\ v.job = t.job /\ v.outcome = t.outcome
      /\ v.evidence = t.evidence
  BY <1>0, TransitionTask
<1>4. t.lease = 0 /\ t.outcome = "none" /\ t.status = "queued"
  BY DEF TaskOK, Task, Final, Confirmed
<1>. HIDE DEF t, v, lease
<1>5. u \in Task
  BY <1>2, <1>3 DEF Task
<1>6. /\ u.status = "running" /\ u.updatedAt = v.updatedAt /\ u.code = v.code
      /\ u.lease = lease /\ u.outcome = v.outcome /\ u.evidence = v.evidence
      /\ u.job = v.job
  BY <1>3 DEF Task
<1>. HIDE DEF u
<1>7. t.evidence = NoEvidence
  BY <1>4 DEF TaskOK, t
<1>8. TaskOK(u)
  BY <1>2, <1>3, <1>4, <1>6, <1>7 DEF TaskOK, Confirmed
<1>9. TaskGrows(t, u)
  BY <1>3, <1>4, <1>6 DEF TaskGrows, Final, Confirmed
<1>. QED
  BY <1>1, <1>3, <1>5, <1>6, <1>8, <1>9 DEF t, lease

(* What a claim makes of the tasks.                                         *)
LEMMA ClaimTasksOK ==
  ASSUME IInv, NEW i \in Instances, NEW n \in DOMAIN signed, Admits(i, n, "claim"),
         NEW taken \in SUBSET Queued(i)
  PROVE  /\ ClaimTasks(i, taken) \in Seq(Task)
         /\ TasksOK(ClaimTasks(i, taken))
         /\ TasksGrow(Fresh(i).tasks, ClaimTasks(i, taken))
         /\ DOMAIN ClaimTasks(i, taken) = DOMAIN Fresh(i).tasks
         /\ \A k \in taken : ClaimTasks(i, taken)[k] = Claimed(i, k)
<1>. DEFINE ts == Fresh(i).tasks
            f == ClaimTasks(i, taken)
<1>1. /\ now \in Nat /\ Fresh(i) \in Row /\ ts \in Seq(Task) /\ TasksOK(ts)
      /\ \A k \in DOMAIN ts : ts[k] \in Task /\ TaskOK(ts[k])
  BY AdmitFacts
<1>2. /\ f = [k \in DOMAIN ts |-> f[k]] /\ DOMAIN f = DOMAIN ts
      /\ \A k \in taken : k \in DOMAIN ts /\ f[k] = Claimed(i, k)
  BY DEF ClaimTasks, Queued
<1>3. ASSUME NEW k \in DOMAIN ts
      PROVE  /\ f[k] \in Task /\ TaskOK(f[k])
             /\ f[k] = ts[k] \/ TaskGrows(ts[k], f[k])
             /\ f[k].evidence = ts[k].evidence
  <2>1. CASE k \in taken
    <3>1. ts[k].status = "queued"
      BY <2>1 DEF Queued
    <3>. QED
      BY <1>1, <1>2, <2>1, <3>1, ClaimedTask
  <2>2. CASE k \notin taken /\ k \in SetAside(i)
    <3>1. f[k] = Transition(ts[k], "awaiting_review", now)
      BY <2>2 DEF ClaimTasks
    <3>2. ts[k].status = "queued"
      BY <2>2 DEF SetAside, Queued
    <3>3. "awaiting_review" \in Status
      BY DEF Status, Final
    <3>. QED
      BY <1>1, <3>1, <3>2, <3>3, TransitionTask, ReviewTask
  <2>3. CASE k \notin taken /\ k \notin SetAside(i)
    <3>1. f[k] = ts[k]
      BY <2>3 DEF ClaimTasks
    <3>. QED
      BY <1>1, <3>1
  <2>. QED
    BY <2>1, <2>2, <2>3
<1>. HIDE DEF f
<1>4. EvidenceOnce(f)
  BY <1>1, <1>2, <1>3 DEF TasksOK, EvidenceOnce
<1>5. f \in Seq(Task) /\ TasksOK(f) /\ TasksGrow(ts, f)
  BY <1>1, <1>2, <1>3, <1>4, MapTasks
<1>. QED
  BY <1>2, <1>5 DEF f

LEMMA ClaimStep ==
  ASSUME IInv, NEW i \in Instances, NEW n \in DOMAIN signed, Claim(i, n)
  PROVE  IInv' /\ TasksGrow(store.tasks, store'.tasks)
<1>1. Admits(i, n, "claim") /\ UNCHANGED <<now, signed>>
  BY DEF Claim
<1>. DEFINE grant(k) == [task |-> k, lease |-> Fresh(i).revision + 1,
                         code |-> Fresh(i).tasks[k].code]
<1>2. PICK k \in Claimable(i) :
        HandlerCommits(i, ClaimTasks(i, {k}), NoncesWith(i, n),
            SessionsBeside(i, SetAside(i)),
            SessionsBeside(i, SetAside(i) \cup {k}), {grant(k)})
  BY DEF Claim
<1>3. k \in Queued(i) /\ k \in DOMAIN Fresh(i).tasks /\ Fresh(i).tasks[k].status = "queued"
  BY DEF Claimable, Queued
<1>4. /\ phase[i] = "serving" /\ CanExpire(i) /\ now \in Nat /\ Fresh(i) \in Row
      /\ Fresh(i).tasks \in Seq(Task)
      /\ NoncesWith(i, n) \in SUBSET Nonce /\ FreshSessions(i) \in SUBSET Session
      /\ Fresh(i).tasks[k] \in Task /\ TaskOK(Fresh(i).tasks[k])
  BY <1>1, <1>3, AdmitFacts
<1>5. /\ ClaimTasks(i, {k}) \in Seq(Task)
      /\ TasksOK(ClaimTasks(i, {k}))
      /\ TasksGrow(Fresh(i).tasks, ClaimTasks(i, {k}))
      /\ k \in DOMAIN ClaimTasks(i, {k})
      /\ ClaimTasks(i, {k})[k] = Claimed(i, k)
  BY <1>1, <1>3, ClaimTasksOK
<1>6. grant(k) \in Grant
  <2>1. Fresh(i).revision + 1 \in Nat \ {0}
    BY <1>4 DEF Row
  <2>2. k \in Nat
    BY <1>3, <1>4, LenProperties
  <2>3. Fresh(i).tasks[k].code \in Codes
    BY <1>4 DEF Task
  <2>. QED
    BY <2>1, <2>2, <2>3 DEF Grant
<1>7. Recorded(grant(k), ClaimTasks(i, {k}))
  <2>1. /\ Claimed(i, k).lease = Fresh(i).revision + 1
        /\ Claimed(i, k).status = "running"
        /\ Claimed(i, k).code = Fresh(i).tasks[k].code
    BY <1>3, <1>4, ClaimedTask DEF TaskGrows
  <2>. QED
    BY <1>5, <2>1 DEF Recorded
<1>8. /\ SessionsBeside(i, SetAside(i)) \in SUBSET Session
      /\ SessionsBeside(i, SetAside(i) \cup {k}) \in SUBSET Session
  BY <1>4 DEF SessionsBeside
<1>. HIDE DEF grant
<1>. QED
  BY <1>1, <1>2, <1>4, <1>5, <1>6, <1>7, <1>8, HandlerStep

LEMMA ClaimNothingStep ==
  ASSUME IInv, NEW i \in Instances, NEW n \in DOMAIN signed, ClaimNothing(i, n)
  PROVE  IInv' /\ TasksGrow(store.tasks, store'.tasks)
<1>1. /\ Admits(i, n, "claim")
      /\ HandlerCommits(i, ClaimTasks(i, {}), NoncesWith(i, n),
           SessionsBeside(i, SetAside(i)), SessionsBeside(i, SetAside(i)), {})
      /\ UNCHANGED <<now, signed>>
  BY DEF ClaimNothing
<1>2. /\ phase[i] = "serving" /\ CanExpire(i)
      /\ NoncesWith(i, n) \in SUBSET Nonce /\ FreshSessions(i) \in SUBSET Session
  BY <1>1, AdmitFacts
<1>3. /\ ClaimTasks(i, {}) \in Seq(Task)
      /\ TasksOK(ClaimTasks(i, {}))
      /\ TasksGrow(Fresh(i).tasks, ClaimTasks(i, {}))
  BY <1>1, ClaimTasksOK
<1>4. SessionsBeside(i, SetAside(i)) \in SUBSET Session
  BY <1>2 DEF SessionsBeside
<1>. QED
  BY <1>1, <1>2, <1>3, <1>4, HandlerStep

(* A new task at the end of the row.                                        *)
LEMMA NewTaskRow ==
  ASSUME IInv, NEW i \in Instances, NEW c \in Codes, Submit(i, c)
  PROVE  LET tasks == Fresh(i).tasks
             more == Append(tasks, NewTask(c, now))
         IN  /\ more \in Seq(Task) /\ TasksOK(more) /\ TasksGrow(tasks, more)
             /\ DOMAIN tasks = 1..Len(tasks) /\ Len(tasks) + 1 \in DOMAIN more
             /\ more[Len(tasks) + 1].status = "queued"
             /\ DOMAIN tasks \subseteq DOMAIN more
             /\ \A k \in DOMAIN tasks : more[k] = tasks[k]
<1>. DEFINE tasks == Fresh(i).tasks
            new == NewTask(c, now)
            more == Append(tasks, new)
<1>1. /\ phase[i] = "serving" /\ \A k \in DOMAIN tasks : tasks[k].code # c
  BY DEF Submit, Unassigned, Serving
<1>2. /\ Fresh(i) \in Row /\ TasksOK(tasks) /\ now \in Nat
  BY <1>1, FreshFacts DEF IInv, TypeOK
<1>3. tasks \in Seq(Task) /\ Len(tasks) \in Nat
  BY <1>2, LenProperties DEF Row
<1>4. now + QueuedLifetime \in Nat
  BY <1>2, BridgeAssumption
<1>5. new \in Task /\ new.code = c /\ new.evidence = NoEvidence /\ new.status = "queued"
  BY <1>2, <1>4 DEF NewTask, Task, Status
<1>6. TaskOK(new)
  BY DEF NewTask, TaskOK, Confirmed
<1>. HIDE DEF new
<1>7. /\ more \in Seq(Task) /\ Len(more) = Len(tasks) + 1
      /\ \A k \in 1..Len(tasks) : more[k] = tasks[k]
      /\ more[Len(tasks) + 1] = new
  BY <1>3, <1>5, AppendProperties
<1>8. /\ DOMAIN tasks = 1..Len(tasks) /\ DOMAIN more = 1..(Len(tasks) + 1)
  BY <1>3, <1>7, LenProperties
<1>. HIDE DEF more
<1>9. \A k \in DOMAIN more : k \in DOMAIN tasks \/ k = Len(tasks) + 1
  BY <1>3, <1>8
<1>10. TasksGrow(tasks, more)
  BY <1>3, <1>7, <1>8 DEF TasksGrow
<1>11. \A k \in DOMAIN more : TaskOK(more[k])
  BY <1>2, <1>6, <1>7, <1>8, <1>9 DEF TasksOK
<1>12. CodesOnce(more)
  BY <1>1, <1>2, <1>5, <1>7, <1>8, <1>9 DEF TasksOK, CodesOnce
<1>13. EvidenceOnce(more)
  BY <1>2, <1>5, <1>7, <1>8, <1>9 DEF TasksOK, EvidenceOnce
<1>14. TasksOK(more)
  BY <1>11, <1>12, <1>13 DEF TasksOK
<1>15. Len(tasks) + 1 \in DOMAIN more /\ DOMAIN tasks \subseteq DOMAIN more
  BY <1>3, <1>8
<1>. QED
  BY <1>5, <1>7, <1>8, <1>10, <1>14, <1>15, Zenon DEF more, new

LEMMA SubmitStep ==
  ASSUME IInv, NEW i \in Instances, NEW c \in Codes, Submit(i, c)
  PROVE  IInv' /\ TasksGrow(store.tasks, store'.tasks)
<1>. DEFINE tasks == Fresh(i).tasks
            more == Append(tasks, NewTask(c, now))
<1>1. /\ phase[i] = "serving" /\ CanExpire(i) /\ UNCHANGED <<now, signed>>
  BY DEF Submit, Serving
<1>2. /\ Fresh(i) \in Row /\ now \in Nat /\ FreshSessions(i) \in SUBSET Session
  BY <1>1, FreshFacts DEF IInv, TypeOK
<1>3. tasks \in Seq(Task) /\ Fresh(i).nonces \in SUBSET Nonce /\ Len(tasks) \in Nat
  BY <1>2, LenProperties DEF Row
<1>4. more \in Seq(Task) /\ TasksOK(more) /\ TasksGrow(tasks, more)
  BY NewTaskRow
<1>5. PICK life \in SessionLifetimes \ {0} :
         HandlerCommits(i, more, Fresh(i).nonces, FreshSessions(i),
           FreshSessions(i) \cup {[task |-> Len(tasks) + 1, expires |-> now + life]}, {})
  BY DEF Submit
<1>. HIDE DEF more
<1>6. FreshSessions(i) \cup {[task |-> Len(tasks) + 1, expires |-> now + life]}
         \in SUBSET Session
  BY <1>2, <1>3, BridgeAssumption DEF Session
<1>. QED
  BY <1>1, <1>3, <1>4, <1>5, <1>6, HandlerStep

(* The timer's expire(at), and its failures.                                *)
LEMMA SweepReplaces ==
  ASSUME IInv, NEW i \in Instances, Sweep(i) \/ SweepFails(i)
  PROVE  /\ Replaces(store, copy[i], Fresh(i))
         /\ Tries(i, store, copy[i], Fresh(i), FreshSessions(i), FreshSessions(i), {})
<1>1. /\ phase[i] = "serving" /\ MustExpire(copy[i], now, FALSE)
  BY DEF Sweep, SweepFails, Serving
<1>2. /\ Fresh(i) \in Row /\ TasksOK(Fresh(i).tasks)
      /\ TasksGrow(copy[i].tasks, Fresh(i).tasks)
  BY <1>1, FreshFacts
<1>3. /\ store \in Row /\ copy[i] \in Row /\ store.revision \in Nat
      /\ TasksOK(store.tasks) /\ TasksOK(copy[i].tasks)
      /\ copy[i].revision <= store.revision
      /\ copy[i].revision = store.revision => copy[i] = store
      /\ TasksGrow(copy[i].tasks, store.tasks)
  BY <1>1 DEF IInv, TypeOK, CopiesOK, Sync, Row
<1>4. Fresh(i).revision = copy[i].revision + 1
  BY <1>1 DEF Fresh, Expired, Revise
<1>5. TasksGrow(store.tasks, store.tasks) /\ store.revision <= store.revision
  BY <1>3, GrowNot
<1>6. Replaces(store, copy[i], Fresh(i))
  BY <1>2, <1>3, <1>4, <1>5 DEF Replaces
<1>7. Tries(i, store, copy[i], Fresh(i), FreshSessions(i), FreshSessions(i), {})
  BY DEF Sweep, SweepFails, Tries
<1>. QED
  BY <1>6, <1>7

LEMMA SweepStep ==
  ASSUME IInv, NEW i \in Instances, Sweep(i) \/ SweepFails(i)
  PROVE  IInv' /\ TasksGrow(store.tasks, store'.tasks)
<1>1. /\ phase[i] = "serving" /\ UNCHANGED <<now, signed>>
  BY DEF Sweep, SweepFails, Serving
<1>2. FreshSessions(i) \in SUBSET Session
  BY <1>1, FreshFacts
<1>3. /\ Replaces(store, copy[i], Fresh(i))
      /\ Tries(i, store, copy[i], Fresh(i), FreshSessions(i), FreshSessions(i), {})
  BY SweepReplaces
<1>. QED
  BY <1>1, <1>2, <1>3, CommitStep

(* A starting process replaces the file by what expire(at, true) makes of   *)
(* it, whatever other processes remember.                                   *)
LEMMA StartStep ==
  ASSUME IInv, NEW i \in Instances, Start(i)
  PROVE  IInv' /\ TasksGrow(store.tasks, store'.tasks)
<1>. DEFINE row == Expired(store, now, TRUE)
<1>1. /\ store \in Row /\ TasksOK(store.tasks) /\ now \in Nat /\ store.revision \in Nat
  BY DEF IInv, TypeOK, Row
<1>2. /\ row \in Row /\ TasksOK(row.tasks) /\ TasksGrow(store.tasks, row.tasks)
  BY <1>1, ExpireRow
<1>3. row = store \/ row.revision = store.revision + 1
  BY DEF Expired, Revise
<1>. HIDE DEF row
<1>4. /\ store' \in {store, row}
      /\ lock' \in BOOLEAN /\ accepted' = accepted \cup NoncesOf(store')
      /\ UNCHANGED <<now, needsRecovery, sessions, signed, granted>>
      /\ \/ UNCHANGED <<phase, copy, serves>>
         \/ /\ store' = row
            /\ phase' = [phase EXCEPT ![i] = "serving"]
            /\ copy' = [copy EXCEPT ![i] = row]
            /\ \E registry \in Registries : serves' = [serves EXCEPT ![i] = registry]
  BY DEF Start, Starts, StartFails, Accept, row
<1>5. /\ store' \in Row /\ TasksOK(store'.tasks) /\ TasksGrow(store.tasks, store'.tasks)
  BY <1>1, <1>2, <1>4, GrowNot
<1>6. TypeOK'
  <2>1. NoncesOf(store') \subseteq Nat
    BY <1>5 DEF NoncesOf, Row, Nonce
  <2>2. copy' \in [Instances -> Row]
    BY <1>2, <1>4 DEF IInv, TypeOK
  <2>3. phase' \in [Instances -> {"down", "serving", "closing"}]
    BY <1>4 DEF IInv, TypeOK
  <2>4. serves' \in [Instances -> SUBSET Codes]
    BY <1>4, BridgeAssumption DEF IInv, TypeOK
  <2>5. accepted' \in SUBSET Nat
    BY <1>4, <2>1 DEF IInv, TypeOK
  <2>6. /\ needsRecovery' \in [Instances -> BOOLEAN]
        /\ sessions' \in [Instances -> SUBSET Session]
        /\ granted' \in SUBSET Grant
        /\ now' \in Nat /\ lock' \in BOOLEAN /\ signed' \in Seq(Request)
    BY <1>4 DEF IInv, TypeOK
  <2>. QED
    BY <1>5, <2>2, <2>3, <2>4, <2>5, <2>6 DEF TypeOK
<1>7. CopiesOK'
  BY <1>2, <1>4 DEF IInv, TypeOK, CopiesOK
<1>8. Sync'
  <2> SUFFICES ASSUME NEW j \in Instances, phase'[j] = "serving"
               PROVE  /\ copy'[j].revision <= store'.revision
                      /\ copy'[j].revision = store'.revision => copy'[j] = store'
                      /\ TasksGrow(copy'[j].tasks, store'.tasks)
    BY DEF Sync
  <2>1. CASE copy'[j] = store'
    BY <1>5, <2>1, GrowNot DEF Row
  <2>2. CASE copy'[j] # store'
    <3>1. copy'[j] = copy[j] /\ phase[j] = "serving"
      BY <1>4, <2>2 DEF IInv, TypeOK
    <3>2. /\ copy[j] \in Row /\ copy[j].revision \in Nat
          /\ copy[j].revision <= store.revision
          /\ copy[j].revision = store.revision => copy[j] = store
          /\ TasksGrow(copy[j].tasks, store.tasks)
      BY <3>1 DEF IInv, TypeOK, Sync, Row
    <3>3. TasksGrow(copy[j].tasks, store'.tasks)
      BY <1>1, <1>5, <3>2, GrowTwice DEF Row
    <3>. QED
      BY <1>1, <1>3, <1>4, <3>1, <3>2, <3>3
  <2>. QED
    BY <2>1, <2>2
<1>9. HandedOutOnRecord'
  BY <1>4, <1>5, RecordedGrows DEF IInv, TypeOK, HandedOutOnRecord
<1>. QED
  BY <1>5, <1>6, <1>7, <1>8, <1>9 DEF IInv

(* Steps of a process that leave the file alone.                            *)
LEMMA DownStep ==
  ASSUME IInv, NEW i \in Instances, Close(i) \/ Release(i) \/ Crash(i)
  PROVE  IInv' /\ TasksGrow(store.tasks, store'.tasks)
<1>1. /\ Blank \in Row /\ TasksOK(Blank.tasks)
  BY EmptySeq DEF Blank, Row, TasksOK, CodesOnce, EvidenceOnce
<1>2. /\ UNCHANGED <<now, store, signed, granted, accepted>>
      /\ lock' \in {lock, FALSE}
      /\ \E p \in {"down", "closing"} : phase' = [phase EXCEPT ![i] = p]
      /\ copy' = copy \/ copy' = [copy EXCEPT ![i] = Blank]
      /\ serves' = serves \/ serves' = [serves EXCEPT ![i] = {}]
      /\ sessions' = sessions \/ sessions' = [sessions EXCEPT ![i] = {}]
      /\ needsRecovery' = needsRecovery \/ needsRecovery' = [needsRecovery EXCEPT ![i] = FALSE]
  BY DEF Close, Release, Crash, Down
<1>3. TypeOK'
  <2>1. copy' \in [Instances -> Row]
    BY <1>1, <1>2 DEF IInv, TypeOK
  <2>2. phase' \in [Instances -> {"down", "serving", "closing"}]
    BY <1>2 DEF IInv, TypeOK
  <2>3. /\ serves' \in [Instances -> SUBSET Codes]
        /\ sessions' \in [Instances -> SUBSET Session]
        /\ needsRecovery' \in [Instances -> BOOLEAN]
    BY <1>2 DEF IInv, TypeOK
  <2>4. /\ store' \in Row /\ granted' \in SUBSET Grant /\ accepted' \in SUBSET Nat
        /\ now' \in Nat /\ lock' \in BOOLEAN /\ signed' \in Seq(Request)
    BY <1>2 DEF IInv, TypeOK
  <2>. QED
    BY <2>1, <2>2, <2>3, <2>4 DEF TypeOK
<1>4. CopiesOK'
  BY <1>1, <1>2 DEF IInv, TypeOK, CopiesOK
<1>5. Sync'
  <2> SUFFICES ASSUME NEW j \in Instances, phase'[j] = "serving"
               PROVE  copy'[j] = copy[j] /\ phase[j] = "serving" /\ store' = store
    BY DEF IInv, Sync
  <2>1. j # i
    BY <1>2 DEF IInv, TypeOK
  <2>. QED
    BY <1>2, <2>1 DEF IInv, TypeOK
<1>6. HandedOutOnRecord' /\ TasksOK(store'.tasks)
  BY <1>2 DEF IInv, HandedOutOnRecord
<1>7. TasksGrow(store.tasks, store'.tasks)
  BY <1>2, GrowNot
<1>. QED
  BY <1>3, <1>4, <1>5, <1>6, <1>7 DEF IInv

(* The clock, the lock directory and the worker's side.                     *)
LEMMA OutsideStep ==
  ASSUME IInv, Tick \/ ClearLock \/ Worker \/ UNCHANGED vars
  PROVE  IInv' /\ TasksGrow(store.tasks, store'.tasks)
<1>1. /\ UNCHANGED <<store, phase, needsRecovery, copy, serves, sessions, granted, accepted>>
      /\ lock' \in {lock, FALSE} /\ now' \in {now, now + 1}
  BY DEF Tick, ClearLock, Worker, SignClaim, SignProgress, SignResult, Sign, service, vars
<1>2. signed' \in Seq(Request)
  <2>1. signed \in Seq(Request) /\ now \in Nat /\ granted \in SUBSET Grant
    BY DEF IInv, TypeOK
  <2>2. ASSUME NEW kind \in {"claim", "progress", "result"}, NEW task \in Nat,
               NEW lease \in Nat, NEW body, body.status \in Final \cup {"none"},
               body.evidence \in Evidence \cup {NoEvidence}, body.job \in Jobs \cup {NoJob},
               kind = "result" => body.status \in Final,
               Sign(kind, task, lease, body)
        PROVE  signed' \in Seq(Request)
    <3>. DEFINE r == [time |-> now, kind |-> kind, task |-> task, lease |-> lease,
                      status |-> body.status, evidence |-> body.evidence, job |-> body.job]
    <3>1. r \in Request
      BY <2>1, <2>2 DEF Request
    <3>2. signed' = Append(signed, r)
      BY <2>2 DEF Sign
    <3>. HIDE DEF r
    <3>. QED
      BY <2>1, <3>1, <3>2, AppendProperties
  <2>3. CASE SignClaim
    BY <2>2, <2>3 DEF SignClaim, NoBody
  <2>4. ASSUME NEW g \in granted, SignProgress(g) PROVE signed' \in Seq(Request)
    <3>1. g.task \in Nat /\ g.lease \in Nat
      BY <2>1 DEF Grant
    <3>2. PICK j \in Jobs : Sign("progress", g.task, g.lease, [NoBody EXCEPT !.job = j])
      BY <2>4 DEF SignProgress
    <3>3. [NoBody EXCEPT !.job = j] =
            [status |-> "none", evidence |-> NoEvidence, job |-> j]
      BY DEF NoBody
    <3>. QED
      BY <2>2, <3>1, <3>2, <3>3
  <2>5. ASSUME NEW g \in granted, SignResult(g) PROVE signed' \in Seq(Request)
    <3>1. PICK b \in Results, held \in BOOLEAN :
            Sign("result", g.task, IF held THEN g.lease ELSE 0, b)
      BY <2>5 DEF SignResult
    <3>2. g.task \in Nat /\ (IF held THEN g.lease ELSE 0) \in Nat
      BY <2>1 DEF Grant
    <3>3. /\ b.status \in Final /\ b.evidence \in Evidence \cup {NoEvidence}
          /\ b.job \in Jobs \cup {NoJob}
      BY BridgeAssumption
    <3>. QED
      BY <2>2, <3>1, <3>2, <3>3
  <2>6. CASE Tick \/ ClearLock \/ UNCHANGED vars
    BY <2>1, <2>6 DEF Tick, ClearLock, vars
  <2>. QED
    BY <2>3, <2>4, <2>5, <2>6 DEF Worker
<1>3. TypeOK'
  <2>1. now' \in Nat
    BY <1>1 DEF IInv, TypeOK
  <2>4. lock' \in BOOLEAN
    <3>1. lock \in BOOLEAN /\ lock' \in {lock, FALSE}
      BY <1>1 DEF IInv, TypeOK
    <3>. QED
      BY <3>1, Zenon
  <2>2. /\ store' \in Row /\ copy' \in [Instances -> Row]
        /\ phase' \in [Instances -> {"down", "serving", "closing"}]
        /\ needsRecovery' \in [Instances -> BOOLEAN]
        /\ serves' \in [Instances -> SUBSET Codes]
    BY <1>1 DEF IInv, TypeOK
  <2>3. /\ sessions' \in [Instances -> SUBSET Session]
        /\ granted' \in SUBSET Grant /\ accepted' \in SUBSET Nat
    BY <1>1 DEF IInv, TypeOK
  <2>. QED
    BY <1>2, <2>1, <2>2, <2>3, <2>4 DEF TypeOK
<1>4. CopiesOK' /\ Sync' /\ HandedOutOnRecord' /\ TasksOK(store'.tasks)
  BY <1>1 DEF IInv, CopiesOK, Sync, HandedOutOnRecord
<1>5. TasksGrow(store.tasks, store'.tasks)
  BY <1>1, GrowNot
<1>. QED
  BY <1>3, <1>4, <1>5 DEF IInv

(***************************************************************************)
(* The invariant                                                           *)
(***************************************************************************)
LEMMA InitInvariant == Init => IInv
<1> SUFFICES ASSUME Init PROVE IInv
  OBVIOUS
<1>1. /\ Blank \in Row /\ TasksOK(Blank.tasks)
  BY EmptySeq DEF Blank, Row, TasksOK, CodesOnce, EvidenceOnce
<1>2. TypeOK
  BY <1>1, EmptySeq DEF Init, TypeOK
<1>3. CopiesOK /\ Sync /\ HandedOutOnRecord
  BY <1>1 DEF Init, CopiesOK, Sync, HandedOutOnRecord
<1>. QED
  BY <1>1, <1>2, <1>3 DEF Init, IInv

LEMMA NextInvariant ==
  IInv /\ [Next]_vars => IInv' /\ TasksGrow(store.tasks, store'.tasks)
<1> SUFFICES ASSUME IInv, [Next]_vars
             PROVE  IInv' /\ TasksGrow(store.tasks, store'.tasks)
  OBVIOUS
<1>1. CASE Tick \/ ClearLock \/ Worker \/ UNCHANGED vars
  BY <1>1, OutsideStep
<1>2. ASSUME NEW i \in Instances, Start(i)
      PROVE  IInv' /\ TasksGrow(store.tasks, store'.tasks)
  BY <1>2, StartStep
<1>3. ASSUME NEW i \in Instances, Close(i) \/ Release(i) \/ Crash(i)
      PROVE  IInv' /\ TasksGrow(store.tasks, store'.tasks)
  BY <1>3, DownStep
<1>4. ASSUME NEW i \in Instances, Sweep(i) \/ SweepFails(i)
      PROVE  IInv' /\ TasksGrow(store.tasks, store'.tasks)
  BY <1>4, SweepStep
<1>5. ASSUME NEW i \in Instances, NEW c \in Codes, Submit(i, c)
      PROVE  IInv' /\ TasksGrow(store.tasks, store'.tasks)
  BY <1>5, SubmitStep
<1>6. ASSUME NEW i \in Instances, NEW n \in DOMAIN signed,
             \/ Claim(i, n) \/ ClaimNothing(i, n)
             \/ Progress(i, n) \/ Result(i, n) \/ Refuse(i, n)
      PROVE  IInv' /\ TasksGrow(store.tasks, store'.tasks)
  BY <1>6, ClaimStep, ClaimNothingStep, ReportStep
<1>. QED
  BY <1>1, <1>2, <1>3, <1>4, <1>5, <1>6 DEF Next, Operator, Handle

(* Every reachable state satisfies the inductive invariant.                 *)
THEOREM Invariance == Spec => []IInv
  BY InitInvariant, NextInvariant, PTL DEF Spec

(* The service's variables always have their types.                         *)
THEOREM Typed == Spec => []TypeOK
<1>1. IInv => TypeOK
  BY DEF IInv
<1>. QED
  BY <1>1, Invariance, PTL

(* No code ever has two tasks, however many processes accept submissions    *)
(* and whichever of their writes fail.                                      *)
THEOREM CodesNeverTwice == Spec => []OneTaskPerCode
<1>1. IInv => OneTaskPerCode
  BY DEF IInv, TasksOK, CodesOnce, OneTaskPerCode
<1>. QED
  BY <1>1, Invariance, PTL

(* No execution code leaves the service twice.                              *)
THEOREM NeverHandedOutTwice == Spec => [](HandedOutOnce /\ HandedOutOnRecord)
<1>1. IInv => HandedOutOnce /\ HandedOutOnRecord
  <2> SUFFICES ASSUME IInv, NEW g \in granted, NEW h \in granted, g.code = h.code
               PROVE  g = h
    BY DEF HandedOutOnce, IInv
  <2>1. Recorded(g, store.tasks) /\ Recorded(h, store.tasks)
    BY DEF IInv, HandedOutOnRecord
  <2>2. g.task = h.task
    BY <2>1 DEF Recorded, IInv, TasksOK, CodesOnce
  <2>3. g.lease = h.lease /\ g \in Grant /\ h \in Grant
    BY <2>1, <2>2 DEF Recorded, IInv, TypeOK
  <2>. QED
    BY <2>2, <2>3 DEF Grant
<1>. QED
  BY <1>1, Invariance, PTL

(* One piece of evidence never settles two tasks.                           *)
THEOREM EvidenceNeverReused == Spec => []EvidenceSettlesOne
<1>1. IInv => EvidenceSettlesOne
  BY DEF IInv, TasksOK, TaskOK, EvidenceOnce, EvidenceSettlesOne
<1>. QED
  BY <1>1, Invariance, PTL

(* A confirmed outcome always fits the task it settles.                     *)
THEOREM OutcomesFit == Spec => []OutcomeFitsTask
<1>1. IInv => OutcomeFitsTask
  BY DEF IInv, TasksOK, TaskOK, OutcomeFitsTask
<1>. QED
  BY <1>1, Invariance, PTL

(* A read answered by any process, also one that lost the file to another,  *)
(* shows the file's task or an older state of it.                           *)
THEOREM StaleReadsAreOlder == Spec => []ReadsNeverAhead
<1>1. IInv => ReadsNeverAhead
  BY DEF IInv, Sync, TasksGrow, TaskGrows, ReadsNeverAhead, Serving
<1>. QED
  BY <1>1, Invariance, PTL

(* No step touches a task that is settled or awaits review.                 *)
THEOREM FinalTasksStay == Spec => SettledForGood
<1>1. TasksGrow(store.tasks, store'.tasks) =>
        \A k \in DOMAIN store.tasks :
          /\ k \in DOMAIN store'.tasks
          /\ store'.tasks[k].code = store.tasks[k].code
          /\ store.tasks[k].job \in {NoJob, store'.tasks[k].job}
          /\ store.tasks[k].status \in Final => store'.tasks[k] = store.tasks[k]
  BY DEF TasksGrow, TaskGrows
<1>. QED
  BY <1>1, Invariance, NextInvariant, PTL DEF Spec, SettledForGood

(* Every step that changes a recorded task raises its updatedAt.            *)
THEOREM SnapshotsNeverGoBack == Spec => SnapshotsAdvance
<1>1. TasksGrow(store.tasks, store'.tasks) =>
        \A k \in DOMAIN store.tasks :
          store'.tasks[k] # store.tasks[k]
            => store'.tasks[k].updatedAt > store.tasks[k].updatedAt
  BY DEF TasksGrow, TaskGrows
<1>. QED
  BY <1>1, Invariance, NextInvariant, PTL DEF Spec, SnapshotsAdvance

(***************************************************************************)
(* Nonces                                                                  *)
(***************************************************************************)
(* What a step may do to nonces: those that leave the file have worn out,   *)
(* those that enter it are of signed requests that were never accepted.     *)
NonceStep ==
  /\ now <= now'
  /\ DOMAIN signed \subseteq DOMAIN signed'
  /\ \A n \in DOMAIN signed : signed'[n] = signed[n]
  /\ accepted' \in {accepted, accepted \cup NoncesOf(store')}
  /\ \A m \in store.nonces \ store'.nonces : m.until <= now
  /\ \A m \in store'.nonces \ store.nonces :
       /\ m.nonce \in DOMAIN signed
       /\ m.until = WearsOut(m.nonce)
       /\ m.nonce \notin accepted

LEMMA NonceStepKeeps ==
  ASSUME IInv, IInv', NoncesOK, NonceStep
  PROVE  /\ NoncesOK'
         /\ \A n \in NoncesOf(store') \ NoncesOf(store) : n \notin accepted
<1>1. /\ \A m \in store.nonces : m.nonce \in DOMAIN signed /\ m.until = WearsOut(m.nonce)
      /\ \A n \in accepted : /\ n \in DOMAIN signed
                             /\ n \in NoncesOf(store) \/ WearsOut(n) <= now
  BY DEF NoncesOK
<1>2. \A n \in DOMAIN signed : n \in DOMAIN signed' /\ WearsOut(n)' = WearsOut(n)
  BY DEF NonceStep, WearsOut
<1>3. ASSUME NEW m \in store'.nonces
      PROVE  m.nonce \in DOMAIN signed' /\ m.until = WearsOut(m.nonce)'
  BY <1>1, <1>2, <1>3 DEF NonceStep
<1>4. ASSUME NEW n \in accepted'
      PROVE  n \in DOMAIN signed' /\ (n \in NoncesOf(store') \/ WearsOut(n)' <= now')
  <2>1. CASE n \in NoncesOf(store')
    BY <1>3, <2>1 DEF NoncesOf
  <2>2. CASE n \notin NoncesOf(store')
    <3>1. n \in accepted
      BY <1>4, <2>2 DEF NonceStep
    <3>2. n \in DOMAIN signed /\ signed \in Seq(Request) /\ now \in Nat /\ now' \in Nat
      BY <1>1, <3>1 DEF IInv, TypeOK
    <3>3. signed[n] \in Request
      BY <3>2, ElementOfSeq, LenProperties
    <3>4. WearsOut(n) \in Nat
      BY <3>3, BridgeAssumption DEF WearsOut, Request
    <3>5. WearsOut(n) <= now
      BY <1>1, <2>2, <3>1 DEF NoncesOf, NonceStep
    <3>6. now <= now'
      BY DEF NonceStep
    <3>. QED
      BY <1>2, <3>2, <3>4, <3>5, <3>6
  <2>. QED
    BY <2>1, <2>2
<1>5. NoncesOK'
  BY <1>3, <1>4 DEF NoncesOK
<1>6. \A n \in NoncesOf(store') \ NoncesOf(store) : n \notin accepted
  BY DEF NonceStep, NoncesOf
<1>. QED
  BY <1>5, <1>6

(* What a commit leaves of the nonces, whatever becomes of it.              *)
LEMMA CommitNonces ==
  ASSUME IInv, NEW i \in Instances, phase[i] = "serving", CanExpire(i),
         NEW tasks, NEW nonces, NEW held, NEW left, NEW grants,
         HandlerCommits(i, tasks, nonces, held, left, grants)
  PROVE  /\ accepted' = accepted \cup NoncesOf(store')
         /\ \/ store'.nonces \in {store.nonces, LiveNonces(store, now)}
            \/ Fresh(i).nonces = LiveNonces(store, now) /\ store'.nonces = nonces
<1>. DEFINE next == Revise(Fresh(i), tasks, nonces)
<1>1. /\ \/ store' = FreshStore(i)
         \/ Fresh(i).revision = FreshStore(i).revision /\ store' = next
      /\ accepted' = accepted \cup NoncesOf(store')
  BY DEF HandlerCommits, Commits, CommitFails, CommitThrows, CommitThenCrash, Accept
<1>2. /\ copy[i].revision = store.revision => copy[i] = store
      /\ store \in Row
  BY DEF IInv, TypeOK, Sync
<1>3. CASE MustExpire(copy[i], now, FALSE)
  <2>1. copy[i] = store
    BY <1>2, <1>3 DEF CanExpire
  <2>2. FreshStore(i) = Fresh(i) /\ Fresh(i).nonces = LiveNonces(store, now)
    BY <1>3, <2>1 DEF FreshStore, Fresh, Expired, Revise
  <2>. QED
    BY <1>1, <2>2 DEF Revise
<1>4. CASE ~MustExpire(copy[i], now, FALSE)
  <2>1. /\ FreshStore(i) = store /\ Fresh(i) = copy[i]
        /\ LiveNonces(copy[i], now) = copy[i].nonces
    BY <1>4 DEF FreshStore, Fresh, Expired, MustExpire
  <2>. QED
    BY <1>1, <1>2, <2>1 DEF Revise
<1>. QED
  BY <1>3, <1>4

LEMMA LiveNoncesFacts ==
  ASSUME IInv, NEW m \in store.nonces
  PROVE  /\ m.until \in Nat /\ now \in Nat
         /\ m \in LiveNonces(store, now) <=> m.until > now
         /\ LiveNonces(store, now) \subseteq store.nonces
<1>1. m \in Nonce /\ now \in Nat
  BY DEF IInv, TypeOK, Row
<1>. QED
  BY <1>1 DEF Nonce, LiveNonces

(* A commit that adds no nonce.                                             *)
LEMMA QuietNonces ==
  ASSUME IInv, UNCHANGED <<now, signed>>,
         accepted' \in {accepted, accepted \cup NoncesOf(store')},
         store'.nonces \in {store.nonces, LiveNonces(store, now)}
  PROVE  NonceStep
<1>1. \A m \in store.nonces : /\ m.until \in Nat
                              /\ m \in LiveNonces(store, now) <=> m.until > now
  BY LiveNoncesFacts
<1>2. LiveNonces(store, now) \subseteq store.nonces /\ now \in Nat
  BY DEF LiveNonces, IInv, TypeOK
<1>. QED
  BY <1>1, <1>2 DEF NonceStep

(* A handled worker request: its nonce was not in memory, which is the file *)
(* as expire(at) left it, so it was never accepted, being not worn out.     *)
LEMMA RequestNonces ==
  ASSUME IInv, NoncesOK, NEW i \in Instances, NEW n \in DOMAIN signed, NEW kind,
         Admits(i, n, kind), UNCHANGED <<now, signed>>,
         NEW tasks, NEW held, NEW left, NEW grants,
         HandlerCommits(i, tasks, NoncesWith(i, n), held, left, grants)
  PROVE  NonceStep
<1>1. /\ phase[i] = "serving" /\ CanExpire(i) /\ n \notin NoncesOf(Fresh(i))
      /\ now < WearsOut(n) /\ signed[n] \in Request /\ now \in Nat
  BY AdmitFacts DEF Admits, WearsOut
<1>2. /\ accepted' = accepted \cup NoncesOf(store')
      /\ \/ store'.nonces \in {store.nonces, LiveNonces(store, now)}
         \/ Fresh(i).nonces = LiveNonces(store, now) /\ store'.nonces = NoncesWith(i, n)
  BY <1>1, CommitNonces
<1>3. CASE store'.nonces \in {store.nonces, LiveNonces(store, now)}
  BY <1>2, <1>3, QuietNonces
<1>4. CASE Fresh(i).nonces = LiveNonces(store, now) /\ store'.nonces = NoncesWith(i, n)
  <2>. DEFINE new == [nonce |-> n, until |-> WearsOut(n)]
  <2>1. store'.nonces = LiveNonces(store, now) \cup {new}
    BY <1>4 DEF NoncesWith, WearsOut
  <2>2. \A m \in store.nonces : /\ m.until \in Nat
                                /\ m \in LiveNonces(store, now) <=> m.until > now
    BY LiveNoncesFacts
  <2>3. WearsOut(n) \in Nat
    BY <1>1, BridgeAssumption DEF WearsOut, Request
  <2>4. n \notin accepted
    <3>1. ASSUME NEW m \in store.nonces, m.nonce = n PROVE FALSE
      <4>1. m.until = WearsOut(n)
        BY <3>1 DEF NoncesOK
      <4>2. m \in Fresh(i).nonces
        BY <1>1, <1>4, <2>2, <2>3, <4>1
      <4>. QED
        BY <1>1, <3>1, <4>2 DEF NoncesOf
    <3>2. n \notin NoncesOf(store)
      BY <3>1 DEF NoncesOf
    <3>3. ~(WearsOut(n) <= now)
      BY <1>1, <2>3
    <3>. QED
      BY <3>2, <3>3 DEF NoncesOK
  <2>5. \A m \in store.nonces \ store'.nonces : m.until <= now
    BY <1>1, <2>1, <2>2
  <2>6. \A m \in store'.nonces \ store.nonces : m = new
    BY <2>1 DEF LiveNonces
  <2>7. new.nonce = n /\ new.until = WearsOut(n)
    OBVIOUS
  <2>. HIDE DEF new
  <2>8. now <= now'
    BY <1>1
  <2>. QED
    BY <1>2, <2>4, <2>5, <2>6, <2>7, <2>8 DEF NonceStep
<1>. QED
  BY <1>2, <1>3, <1>4

LEMMA HandleNonces ==
  ASSUME IInv, NoncesOK, NEW i \in Instances, Handle(i)
  PROVE  NonceStep
<1>1. CASE Sweep(i) \/ SweepFails(i)
  <2>1. /\ phase[i] = "serving" /\ MustExpire(copy[i], now, FALSE)
        /\ UNCHANGED <<now, signed>>
        /\ accepted' = accepted \cup NoncesOf(store')
        /\ store' = store \/ (copy[i].revision = store.revision /\ store' = Fresh(i))
    BY <1>1 DEF Sweep, SweepFails, Serving, Commits, CommitFails, CommitThrows,
                CommitThenCrash, Accept
  <2>2. copy[i].revision = store.revision => copy[i] = store
    BY <2>1 DEF IInv, Sync
  <2>3. Fresh(i).nonces = LiveNonces(copy[i], now)
    BY <2>1 DEF Fresh, Expired, Revise
  <2>. QED
    BY <2>1, <2>2, <2>3, QuietNonces
<1>2. ASSUME NEW c \in Codes, Submit(i, c) PROVE NonceStep
  <2>1. /\ phase[i] = "serving" /\ CanExpire(i) /\ UNCHANGED <<now, signed>>
        /\ \E tasks, held, left, grants :
             HandlerCommits(i, tasks, Fresh(i).nonces, held, left, grants)
    BY <1>2 DEF Submit, Serving
  <2>2. /\ accepted' = accepted \cup NoncesOf(store')
        /\ store'.nonces \in {store.nonces, LiveNonces(store, now)}
    BY <2>1, CommitNonces
  <2>. QED
    BY <2>1, <2>2, QuietNonces
<1>3. ASSUME NEW n \in DOMAIN signed,
             \/ Claim(i, n) \/ ClaimNothing(i, n)
             \/ Progress(i, n) \/ Result(i, n) \/ Refuse(i, n)
      PROVE  NonceStep
  <2>1. /\ \E kind : Admits(i, n, kind)
        /\ UNCHANGED <<now, signed>>
        /\ \E tasks, held, left, grants :
             HandlerCommits(i, tasks, NoncesWith(i, n), held, left, grants)
    BY <1>3 DEF Claim, ClaimNothing, Progress, Result, Refuse, Finish
  <2>. QED
    BY <2>1, RequestNonces
<1>. QED
  BY <1>1, <1>2, <1>3 DEF Handle

LEMMA EveryStepNonces ==
  ASSUME IInv, NoncesOK, [Next]_vars
  PROVE  NonceStep
<1>1. now \in Nat /\ signed \in Seq(Request)
  BY DEF IInv, TypeOK
<1>2. CASE Tick \/ ClearLock \/ Worker \/ UNCHANGED vars
  <2>1. /\ UNCHANGED <<store, accepted>> /\ now' \in {now, now + 1}
    BY <1>2 DEF Tick, ClearLock, Worker, SignClaim, SignProgress, SignResult, Sign,
                service, vars
  <2>2. signed' = signed \/ \E r : signed' = Append(signed, r)
    BY <1>2 DEF Tick, ClearLock, Worker, SignClaim, SignProgress, SignResult, Sign, vars
  <2>3. DOMAIN signed \subseteq DOMAIN signed' /\ \A n \in DOMAIN signed : signed'[n] = signed[n]
    <3>1. ASSUME NEW r, signed' = Append(signed, r)
          PROVE  /\ DOMAIN signed \subseteq DOMAIN signed'
                 /\ \A n \in DOMAIN signed : signed'[n] = signed[n]
      <4>1. Len(signed) \in Nat /\ DOMAIN signed = 1..Len(signed)
        BY <1>1, LenProperties
      <4>2. signed \in Seq(Request \cup {r}) /\ r \in Request \cup {r}
        BY <1>1, SeqMonotonic
      <4>3. /\ signed' \in Seq(Request \cup {r}) /\ Len(signed') = Len(signed) + 1
            /\ \A n \in 1..Len(signed) : signed'[n] = signed[n]
        BY <3>1, <4>2, AppendProperties
      <4>4. DOMAIN signed' = 1..(Len(signed) + 1)
        BY <4>3, LenProperties
      <4>. QED
        BY <4>1, <4>3, <4>4
    <3>. QED
      BY <2>2, <3>1
  <2>. QED
    BY <1>1, <2>1, <2>3 DEF NonceStep
<1>3. ASSUME NEW i \in Instances, Start(i) PROVE NonceStep
  <2>1. /\ UNCHANGED <<now, signed>> /\ accepted' = accepted \cup NoncesOf(store')
        /\ store' \in {store, Expired(store, now, TRUE)}
    BY <1>3 DEF Start, Starts, StartFails, Accept
  <2>2. Expired(store, now, TRUE).nonces \in {store.nonces, LiveNonces(store, now)}
    BY DEF Expired, Revise
  <2>. QED
    BY <2>1, <2>2, QuietNonces
<1>4. ASSUME NEW i \in Instances, Close(i) \/ Release(i) \/ Crash(i) PROVE NonceStep
  <2>1. UNCHANGED <<now, signed, store, accepted>>
    BY <1>4 DEF Close, Release, Crash
  <2>. QED
    BY <2>1, QuietNonces
<1>. QED
  BY <1>2, <1>3, <1>4, HandleNonces DEF Next, Operator

(* A worker's signed request takes effect at most once: its nonce outlives  *)
(* its signature in the file, through restarts and failing writes.          *)
THEOREM NoRequestTwice == Spec => RequestsTakeEffectOnce
<1>1. Init => NoncesOK
  BY DEF Init, NoncesOK, Blank
<1>2. IInv /\ IInv' /\ NoncesOK /\ [Next]_vars =>
        /\ NoncesOK'
        /\ \A n \in NoncesOf(store') \ NoncesOf(store) : n \notin accepted
  BY EveryStepNonces, NonceStepKeeps
<1>. QED
  BY <1>1, <1>2, Invariance, PTL DEF Spec, RequestsTakeEffectOnce

(***************************************************************************)
(* Authorizations                                                          *)
(***************************************************************************)
(* Authorizations that are for queued tasks of a row.                       *)
SessionsFit(ss, ts) == \A s \in ss : s.task \in DOMAIN ts /\ ts[s.task].status = "queued"

(* In a process that serves its tasks are the file's or older, so an        *)
(* authorization is for a task the file has, and so is a hand-out.          *)
LEMMA SessionTasks ==
  ASSUME IInv, SessionsOK
  PROVE  /\ \A j \in Instances : \A s \in sessions[j] :
              /\ Serving(j) /\ s.task \in DOMAIN copy[j].tasks
              /\ copy[j].tasks[s.task].status = "queued"
              /\ s.task \in DOMAIN store.tasks
              /\ \A g \in granted : g.task # s.task
         /\ \A g \in granted : g.task \in DOMAIN store.tasks
  BY DEF IInv, Sync, SessionsOK, SessionsOnlyForQueued, Serving, TasksGrow,
         HandedOutOnRecord, Recorded

(* A try to replace the file: the authorizations that remain are those of   *)
(* queued tasks in what memory then holds; a new one is for a new task; and *)
(* a task is handed out by the process that has its authorization.          *)
LEMMA TrySessions ==
  ASSUME IInv, SessionsOK, NEW i \in Instances, Serving(i),
         NEW row, NEW mem, NEW next, Replaces(row, mem, next),
         NEW held, NEW left, NEW grants, Tries(i, row, mem, next, held, left, grants),
         held \subseteq sessions[i], SessionsFit(held, mem.tasks),
         SessionsFit(left, next.tasks),
         \A s \in left : s \in sessions[i] \/ s.task \notin DOMAIN mem.tasks,
         \A g \in grants : /\ \E s \in sessions[i] : s.task = g.task
                           /\ \A s \in left : s.task # g.task
  PROVE  SessionsOK'
<1>1. /\ phase \in [Instances -> {"down", "serving", "closing"}]
      /\ needsRecovery \in [Instances -> BOOLEAN] /\ copy \in [Instances -> Row]
      /\ sessions \in [Instances -> SUBSET Session]
  BY DEF IInv, TypeOK
<1>2. CASE /\ Commits(i, row, mem, next)
           /\ sessions' = [sessions EXCEPT ![i] = left]
           /\ granted' = granted \cup grants
           /\ UNCHANGED <<lock, phase, needsRecovery, serves>>
  <2>1. mem = row /\ DOMAIN store.tasks \subseteq DOMAIN mem.tasks
    BY <1>2 DEF Commits, Replaces, TasksGrow
  <2>2. /\ sessions'[i] = left /\ copy'[i] = next /\ Serving(i)'
        /\ \A j \in Instances \ {i} : /\ sessions'[j] = sessions[j] /\ copy'[j] = copy[j]
                                       /\ Serving(j)' = Serving(j)
    BY <1>1, <1>2 DEF Commits, Serving
  <2>3. \A j \in Instances : \A s \in sessions[j] :
          /\ Serving(j) /\ s.task \in DOMAIN copy[j].tasks
          /\ copy[j].tasks[s.task].status = "queued"
          /\ s.task \in DOMAIN mem.tasks
          /\ \A g \in granted : g.task # s.task
    BY <2>1, SessionTasks
  <2>4. \A g \in granted : g.task \in DOMAIN mem.tasks
    BY <2>1, SessionTasks
  <2>5. \A j, k \in Instances : \A s \in sessions[j], r \in sessions[k] :
          s.task = r.task => j = k
    BY DEF SessionsOK, SessionsApart
  <2>6. \A s \in left : /\ s.task \in DOMAIN next.tasks
                        /\ next.tasks[s.task].status = "queued"
    BY DEF SessionsFit
  <2>7. SessionsApart'
    <3>. SUFFICES ASSUME NEW j \in Instances, NEW k \in Instances,
                         NEW s \in sessions'[j], NEW r \in sessions'[k], s.task = r.task
                  PROVE  j = k
      BY DEF SessionsApart
    <3>1. CASE j # i /\ k # i
      BY <2>2, <2>5, <3>1
    <3>2. CASE j = i /\ k # i
      BY <2>2, <2>3, <2>5, <3>2
    <3>3. CASE j # i /\ k = i
      BY <2>2, <2>3, <2>5, <3>3
    <3>. QED
      BY <3>1, <3>2, <3>3
  <2>8. ASSUME NEW j \in Instances, NEW s \in sessions'[j]
        PROVE  /\ Serving(j)' /\ s.task \in DOMAIN copy'[j].tasks
               /\ copy'[j].tasks[s.task].status = "queued"
    <3>1. CASE j = i
      BY <2>2, <2>6, <2>8, <3>1
    <3>2. CASE j # i
      BY <2>2, <2>3, <2>8, <3>2
    <3>. QED
      BY <3>1, <3>2
  <2>9. ASSUME NEW j \in Instances, NEW s \in sessions'[j], NEW g \in granted'
        PROVE  g.task # s.task
    <3>1. g \in granted \/ g \in grants
      BY <1>2
    <3>2. CASE j = i
      BY <2>2, <2>3, <2>4, <2>9, <3>1, <3>2
    <3>3. CASE j # i
      BY <2>2, <2>3, <2>5, <2>9, <3>1, <3>3
    <3>. QED
      BY <3>2, <3>3
  <2>. QED
    BY <2>7, <2>8, <2>9 DEF SessionsOK, SessionsOnlyForQueued
<1>3. CASE CommitFails(i, row, mem, next, held)
  <2>1. /\ granted' = granted
        /\ \A j \in Instances \ {i} : /\ sessions'[j] = sessions[j] /\ copy'[j] = copy[j]
                                       /\ Serving(j)' = Serving(j)
        /\ \/ sessions'[i] = {}
           \/ sessions'[i] = held /\ copy'[i] = mem /\ Serving(i)'
    <3>1. CASE CommitThenCrash(i, row, mem, next)
      BY <1>1, <3>1 DEF CommitThenCrash, Down, Serving
    <3>2. CASE CommitThrows(i, row, mem, next, held)
      <4>1. PICK stop \in BOOLEAN :
              /\ needsRecovery' = [needsRecovery EXCEPT ![i] = stop]
              /\ sessions' = [sessions EXCEPT ![i] = IF stop THEN {} ELSE held]
        BY <3>2 DEF CommitThrows
      <4>2. copy' = [copy EXCEPT ![i] = mem] /\ UNCHANGED <<phase, granted>>
        BY <3>2 DEF CommitThrows
      <4>3. sessions'[i] = IF stop THEN {} ELSE held
        BY <1>1, <4>1
      <4>4. needsRecovery'[i] = stop /\ phase'[i] = "serving"
        BY <1>1, <4>1, <4>2 DEF Serving
      <4>5. ~stop => Serving(i)'
        BY <4>4 DEF Serving
      <4>. QED
        BY <1>1, <4>1, <4>2, <4>3, <4>5 DEF Serving
    <3>. QED
      BY <1>3, <3>1, <3>2 DEF CommitFails
  <2>2. \A j \in Instances : sessions'[j] \subseteq sessions[j]
    BY <2>1
  <2>3. SessionsApart'
    BY <2>2 DEF SessionsOK, SessionsApart
  <2>4. SessionsOnlyForQueued'
    <3>. SUFFICES ASSUME NEW j \in Instances, NEW s \in sessions'[j]
                  PROVE  /\ Serving(j)' /\ s.task \in DOMAIN copy'[j].tasks
                         /\ copy'[j].tasks[s.task].status = "queued"
      BY <2>1, <2>2, SessionTasks DEF SessionsOnlyForQueued
    <3>1. CASE j = i
      BY <2>1, <3>1 DEF SessionsFit
    <3>2. CASE j # i
      BY <2>1, <3>2, SessionTasks
    <3>. QED
      BY <3>1, <3>2
  <2>. QED
    BY <2>3, <2>4 DEF SessionsOK
<1>. QED
  BY <1>2, <1>3 DEF Tries

(* expire(at) leaves the authorizations of the tasks it leaves queued.      *)
LEMMA FreshFit ==
  ASSUME IInv, SessionsOK, NEW i \in Instances
  PROVE  /\ FreshSessions(i) \subseteq sessions[i]
         /\ SessionsFit(FreshSessions(i), copy[i].tasks)
         /\ SessionsFit(FreshSessions(i), Fresh(i).tasks)
<1>1. \A s \in sessions[i] : /\ s.task \in DOMAIN copy[i].tasks
                            /\ copy[i].tasks[s.task].status = "queued"
  BY SessionTasks
<1>2. /\ FreshSessions(i) \subseteq sessions[i]
      /\ \A s \in FreshSessions(i) : s.task \notin Overdue(copy[i], now, FALSE)
  BY DEF FreshSessions
<1>3. SessionsFit(FreshSessions(i), copy[i].tasks)
  BY <1>1, <1>2 DEF SessionsFit
<1>4. CASE Fresh(i) = copy[i]
  BY <1>2, <1>3, <1>4
<1>5. CASE Fresh(i).tasks = ExpiredTasks(copy[i], now, FALSE)
  <2>1. \A k \in DOMAIN copy[i].tasks \ Overdue(copy[i], now, FALSE) :
          /\ k \in DOMAIN ExpiredTasks(copy[i], now, FALSE)
          /\ ExpiredTasks(copy[i], now, FALSE)[k] = copy[i].tasks[k]
    BY DEF ExpiredTasks, Overdue
  <2>. QED
    BY <1>1, <1>2, <1>3, <1>5, <2>1 DEF SessionsFit
<1>. QED
  BY <1>4, <1>5 DEF Fresh, Expired, Revise

LEMMA HandlerSessions ==
  ASSUME IInv, SessionsOK, NEW i \in Instances, Serving(i), CanExpire(i),
         NEW tasks \in Seq(Task), TasksOK(tasks), TasksGrow(Fresh(i).tasks, tasks),
         NEW nonces \in SUBSET Nonce, NEW held, NEW left, NEW grants,
         HandlerCommits(i, tasks, nonces, held, left, grants),
         held \subseteq FreshSessions(i), SessionsFit(left, tasks),
         \A s \in left : s \in FreshSessions(i) \/ s.task \notin DOMAIN Fresh(i).tasks,
         \A g \in grants : /\ \E s \in FreshSessions(i) : s.task = g.task
                           /\ \A s \in left : s.task # g.task
  PROVE  SessionsOK'
<1>. DEFINE next == Revise(Fresh(i), tasks, nonces)
<1>1. phase[i] = "serving"
  BY DEF Serving
<1>2. /\ Fresh(i) \in Row /\ FreshStore(i) \in Row
      /\ TasksOK(Fresh(i).tasks) /\ TasksOK(FreshStore(i).tasks)
      /\ TasksGrow(store.tasks, FreshStore(i).tasks)
      /\ store.revision <= FreshStore(i).revision
      /\ FreshStore(i).revision = store.revision => FreshStore(i) = store
      /\ Fresh(i).revision <= FreshStore(i).revision
      /\ Fresh(i).revision = FreshStore(i).revision => Fresh(i) = FreshStore(i)
      /\ TasksGrow(Fresh(i).tasks, FreshStore(i).tasks)
  BY <1>1, FreshFacts
<1>3. next \in Row /\ next.revision = Fresh(i).revision + 1 /\ next.tasks = tasks
  BY <1>2 DEF Revise, Row
<1>4. Replaces(FreshStore(i), Fresh(i), next)
  BY <1>2, <1>3 DEF Replaces
<1>5. Tries(i, FreshStore(i), Fresh(i), next, held, left, grants)
  BY DEF HandlerCommits, Tries
<1>6. /\ FreshSessions(i) \subseteq sessions[i]
      /\ SessionsFit(FreshSessions(i), Fresh(i).tasks)
  BY FreshFit
<1>7. SessionsFit(held, Fresh(i).tasks) /\ SessionsFit(left, next.tasks)
  BY <1>3, <1>6 DEF SessionsFit
<1>. HIDE DEF next
<1>8. /\ held \subseteq sessions[i]
      /\ \A s \in left : s \in sessions[i] \/ s.task \notin DOMAIN Fresh(i).tasks
      /\ \A g \in grants : /\ \E s \in sessions[i] : s.task = g.task
                           /\ \A s \in left : s.task # g.task
  BY <1>6
<1>. QED
  BY <1>4, <1>5, <1>7, <1>8, TrySessions

LEMMA SubmitSessions ==
  ASSUME IInv, SessionsOK, NEW i \in Instances, NEW c \in Codes, Submit(i, c)
  PROVE  SessionsOK'
<1>. DEFINE tasks == Fresh(i).tasks
            more == Append(tasks, NewTask(c, now))
<1>1. /\ Serving(i) /\ phase[i] = "serving" /\ CanExpire(i)
  BY DEF Submit, Serving
<1>2. /\ Fresh(i) \in Row /\ TasksOK(tasks)
  BY <1>1, FreshFacts
<1>3. tasks \in Seq(Task) /\ Fresh(i).nonces \in SUBSET Nonce /\ Len(tasks) \in Nat
  BY <1>2, LenProperties DEF Row
<1>4. more \in Seq(Task) /\ TasksOK(more) /\ TasksGrow(tasks, more)
  BY NewTaskRow
<1>5. /\ DOMAIN tasks = 1..Len(tasks) /\ Len(tasks) + 1 \in DOMAIN more
      /\ more[Len(tasks) + 1].status = "queued"
      /\ DOMAIN tasks \subseteq DOMAIN more
      /\ \A k \in DOMAIN tasks : more[k] = tasks[k]
  BY NewTaskRow
<1>6. SessionsFit(FreshSessions(i), tasks)
  BY FreshFit
<1>7. PICK life \in SessionLifetimes \ {0} :
         HandlerCommits(i, more, Fresh(i).nonces, FreshSessions(i),
           FreshSessions(i) \cup {[task |-> Len(tasks) + 1, expires |-> now + life]}, {})
  BY DEF Submit
<1>. DEFINE new == [task |-> Len(tasks) + 1, expires |-> now + life]
            left == FreshSessions(i) \cup {new}
<1>8. new.task = Len(tasks) + 1
  OBVIOUS
<1>9. HandlerCommits(i, more, Fresh(i).nonces, FreshSessions(i), left, {})
  BY <1>7
<1>. HIDE DEF more, new
<1>10. SessionsFit(left, more)
  BY <1>5, <1>6, <1>8 DEF SessionsFit
<1>11. \A s \in left : s \in FreshSessions(i) \/ s.task \notin DOMAIN tasks
  BY <1>3, <1>5, <1>8
<1>. HIDE DEF left
<1>. QED
  BY <1>1, <1>3, <1>4, <1>9, <1>10, <1>11, HandlerSessions

LEMMA ReportSessions ==
  ASSUME IInv, SessionsOK, NEW i \in Instances, NEW n \in DOMAIN signed,
         Progress(i, n) \/ Result(i, n) \/ Refuse(i, n)
  PROVE  SessionsOK'
<1>1. PICK kind \in {"progress", "result"}, tasks \in Seq(Task) : Finishes(i, n, kind, tasks)
  BY ProgressFinishes, ResultFinishes, RefuseFinishes
<1>2. /\ Serving(i) /\ CanExpire(i) /\ NoncesWith(i, n) \in SUBSET Nonce
      /\ HandlerCommits(i, tasks, NoncesWith(i, n), FreshSessions(i), FreshSessions(i), {})
      /\ TasksOK(tasks) /\ TasksGrow(Fresh(i).tasks, tasks)
      /\ DOMAIN tasks = DOMAIN Fresh(i).tasks
      /\ \A k \in DOMAIN tasks : \/ tasks[k] = Fresh(i).tasks[k]
                                 \/ Fresh(i).tasks[k].status = "running"
  BY <1>1, AdmitFacts DEF Finishes, Finish, Admits
<1>3. SessionsFit(FreshSessions(i), Fresh(i).tasks)
  BY FreshFit
<1>4. SessionsFit(FreshSessions(i), tasks)
  BY <1>2, <1>3 DEF SessionsFit
<1>. QED
  BY <1>2, <1>4, HandlerSessions

(* Authorizations of tasks a claim leaves alone are for queued tasks.       *)
LEMMA BesideFits ==
  ASSUME IInv, SessionsOK, NEW i \in Instances, NEW taken
  PROVE  /\ SessionsBeside(i, SetAside(i) \cup taken) \subseteq FreshSessions(i)
         /\ SessionsBeside(i, SetAside(i)) \subseteq FreshSessions(i)
         /\ SessionsFit(SessionsBeside(i, SetAside(i) \cup taken), ClaimTasks(i, taken))
         /\ \A s \in SessionsBeside(i, SetAside(i) \cup taken) : s.task \notin taken
<1>1. SessionsFit(FreshSessions(i), Fresh(i).tasks)
  BY FreshFit
<1>2. \A k \in DOMAIN Fresh(i).tasks \ (SetAside(i) \cup taken) :
        /\ k \in DOMAIN ClaimTasks(i, taken)
        /\ ClaimTasks(i, taken)[k] = Fresh(i).tasks[k]
  BY DEF ClaimTasks
<1>. QED
  BY <1>1, <1>2 DEF SessionsBeside, SessionsFit

LEMMA ClaimSessions ==
  ASSUME IInv, SessionsOK, NEW i \in Instances, NEW n \in DOMAIN signed, Claim(i, n)
  PROVE  SessionsOK'
<1>1. Admits(i, n, "claim") /\ Serving(i)
  BY DEF Claim, Admits
<1>2. PICK k \in Claimable(i) :
        HandlerCommits(i, ClaimTasks(i, {k}), NoncesWith(i, n),
            SessionsBeside(i, SetAside(i)),
            SessionsBeside(i, SetAside(i) \cup {k}),
            {[task |-> k, lease |-> Fresh(i).revision + 1,
              code |-> Fresh(i).tasks[k].code]})
  BY DEF Claim
<1>. DEFINE grant == [task |-> k, lease |-> Fresh(i).revision + 1,
                      code |-> Fresh(i).tasks[k].code]
            left == SessionsBeside(i, SetAside(i) \cup {k})
<1>3. k \in Queued(i) /\ \E s \in FreshSessions(i) : s.task = k
  BY DEF Claimable
<1>4. CanExpire(i) /\ NoncesWith(i, n) \in SUBSET Nonce
  BY <1>1, AdmitFacts
<1>5. /\ ClaimTasks(i, {k}) \in Seq(Task)
      /\ TasksOK(ClaimTasks(i, {k}))
      /\ TasksGrow(Fresh(i).tasks, ClaimTasks(i, {k}))
  BY <1>1, <1>3, ClaimTasksOK
<1>6. /\ left \subseteq FreshSessions(i)
      /\ SessionsBeside(i, SetAside(i)) \subseteq FreshSessions(i)
      /\ SessionsFit(left, ClaimTasks(i, {k}))
      /\ \A s \in left : s.task \notin {k}
  BY BesideFits
<1>7. HandlerCommits(i, ClaimTasks(i, {k}), NoncesWith(i, n),
                     SessionsBeside(i, SetAside(i)), left, {grant})
  BY <1>2
<1>8. grant.task = k
  OBVIOUS
<1>. HIDE DEF grant, left
<1>9. \A s \in left : s \in FreshSessions(i) \/ s.task \notin DOMAIN Fresh(i).tasks
  BY <1>6
<1>10. \A g \in {grant} : /\ \E s \in FreshSessions(i) : s.task = g.task
                         /\ \A s \in left : s.task # g.task
  BY <1>3, <1>6, <1>8
<1>. QED
  BY <1>1, <1>4, <1>5, <1>6, <1>7, <1>9, <1>10, HandlerSessions

LEMMA ClaimNothingSessions ==
  ASSUME IInv, SessionsOK, NEW i \in Instances, NEW n \in DOMAIN signed, ClaimNothing(i, n)
  PROVE  SessionsOK'
<1>1. /\ Admits(i, n, "claim") /\ Serving(i)
      /\ HandlerCommits(i, ClaimTasks(i, {}), NoncesWith(i, n),
           SessionsBeside(i, SetAside(i)), SessionsBeside(i, SetAside(i)), {})
  BY DEF ClaimNothing, Admits
<1>2. CanExpire(i) /\ NoncesWith(i, n) \in SUBSET Nonce
  BY <1>1, AdmitFacts
<1>3. /\ ClaimTasks(i, {}) \in Seq(Task)
      /\ TasksOK(ClaimTasks(i, {}))
      /\ TasksGrow(Fresh(i).tasks, ClaimTasks(i, {}))
  BY <1>1, ClaimTasksOK
<1>4. SetAside(i) \cup {} = SetAside(i)
  OBVIOUS
<1>5. /\ SessionsBeside(i, SetAside(i)) \subseteq FreshSessions(i)
      /\ SessionsFit(SessionsBeside(i, SetAside(i)), ClaimTasks(i, {}))
  BY <1>4, BesideFits
<1>. QED
  BY <1>1, <1>2, <1>3, <1>5, HandlerSessions

LEMMA SweepSessions ==
  ASSUME IInv, SessionsOK, NEW i \in Instances, Sweep(i) \/ SweepFails(i)
  PROVE  SessionsOK'
<1>1. Serving(i) /\ phase[i] = "serving"
  BY DEF Sweep, SweepFails, Serving
<1>2. /\ Replaces(store, copy[i], Fresh(i))
      /\ Tries(i, store, copy[i], Fresh(i), FreshSessions(i), FreshSessions(i), {})
  BY SweepReplaces
<1>3. /\ FreshSessions(i) \subseteq sessions[i]
      /\ SessionsFit(FreshSessions(i), copy[i].tasks)
      /\ SessionsFit(FreshSessions(i), Fresh(i).tasks)
  BY FreshFit
<1>4. \A s \in FreshSessions(i) : s \in sessions[i]
  BY <1>3
<1>. QED
  BY <1>1, <1>2, <1>3, <1>4, TrySessions

(* Processes that start, stop and crash, and everything outside.            *)
LEMMA OtherSessions ==
  ASSUME IInv, SessionsOK,
         \/ Tick \/ ClearLock \/ Worker \/ UNCHANGED vars
         \/ \E i \in Instances : Start(i) \/ Close(i) \/ Release(i) \/ Crash(i)
  PROVE  SessionsOK'
<1>1. /\ phase \in [Instances -> {"down", "serving", "closing"}]
      /\ needsRecovery \in [Instances -> BOOLEAN] /\ copy \in [Instances -> Row]
      /\ sessions \in [Instances -> SUBSET Session]
  BY DEF IInv, TypeOK
<1>2. /\ granted' = granted
      /\ \A j \in Instances : \/ sessions'[j] = {}
                             \/ /\ phase[j] # "serving" /\ sessions'[j] = sessions[j]
                             \/ /\ sessions'[j] = sessions[j] /\ copy'[j] = copy[j]
                                /\ Serving(j)' = Serving(j)
  <2>1. CASE Tick \/ ClearLock \/ Worker \/ UNCHANGED vars
    <3>1. UNCHANGED <<phase, needsRecovery, copy, sessions, granted>>
      BY <2>1 DEF Tick, ClearLock, Worker, SignClaim, SignProgress, SignResult, Sign, service, vars
    <3>. QED
      BY <3>1 DEF Serving
  <2>2. ASSUME NEW i \in Instances, Start(i)
        PROVE  /\ granted' = granted
               /\ \A j \in Instances : \/ /\ phase[j] # "serving" /\ sessions'[j] = sessions[j]
                                      \/ /\ sessions'[j] = sessions[j] /\ copy'[j] = copy[j]
                                         /\ Serving(j)' = Serving(j)
    BY <1>1, <2>2 DEF Start, Starts, StartFails, Serving
  <2>3. ASSUME NEW i \in Instances, Close(i) \/ Crash(i)
        PROVE  /\ granted' = granted
               /\ \A j \in Instances : \/ sessions'[j] = {}
                                      \/ /\ sessions'[j] = sessions[j] /\ copy'[j] = copy[j]
                                         /\ Serving(j)' = Serving(j)
    BY <1>1, <2>3 DEF Close, Crash, Down, Serving
  <2>4. ASSUME NEW i \in Instances, Release(i)
        PROVE  /\ granted' = granted
               /\ \A j \in Instances : \/ /\ phase[j] # "serving" /\ sessions'[j] = sessions[j]
                                      \/ /\ sessions'[j] = sessions[j] /\ copy'[j] = copy[j]
                                         /\ Serving(j)' = Serving(j)
    BY <1>1, <2>4 DEF Release, Serving
  <2>. QED
    BY <2>1, <2>2, <2>3, <2>4
<1>3. \A j \in Instances : phase[j] # "serving" => sessions[j] = {}
  BY SessionTasks DEF Serving
<1>4. \A j \in Instances : \/ sessions'[j] = {}
                         \/ /\ sessions'[j] = sessions[j] /\ copy'[j] = copy[j]
                            /\ Serving(j)' = Serving(j)
  BY <1>2, <1>3
<1>5. SessionsApart'
  BY <1>4 DEF SessionsOK, SessionsApart
<1>6. SessionsOnlyForQueued'
  BY <1>2, <1>4 DEF SessionsOK, SessionsOnlyForQueued
<1>. QED
  BY <1>5, <1>6 DEF SessionsOK

LEMMA NextSessions ==
  ASSUME IInv, SessionsOK, [Next]_vars
  PROVE  SessionsOK'
<1>1. CASE Tick \/ Operator \/ Worker \/ UNCHANGED vars
  BY <1>1, OtherSessions DEF Operator
<1>2. ASSUME NEW i \in Instances, Handle(i) PROVE SessionsOK'
  <2>1. CASE Sweep(i) \/ SweepFails(i)
    BY <2>1, SweepSessions
  <2>2. ASSUME NEW c \in Codes, Submit(i, c) PROVE SessionsOK'
    BY <2>2, SubmitSessions
  <2>3. ASSUME NEW n \in DOMAIN signed, Claim(i, n) \/ ClaimNothing(i, n) PROVE SessionsOK'
    BY <2>3, ClaimSessions, ClaimNothingSessions
  <2>4. ASSUME NEW n \in DOMAIN signed, Progress(i, n) \/ Result(i, n) \/ Refuse(i, n)
        PROVE  SessionsOK'
    BY <2>4, ReportSessions
  <2>. QED
    BY <1>2, <2>1, <2>2, <2>3, <2>4 DEF Handle
<1>. QED
  BY <1>1, <1>2 DEF Next

(* A customer's authorization is in memory only while its task is queued,   *)
(* in one process, and never after the task was handed to the worker.       *)
THEOREM AuthorizationsOnlyForQueued == Spec => []SessionsOnlyForQueued
<1>1. Init => SessionsOK
  BY DEF Init, SessionsOK, SessionsOnlyForQueued, SessionsApart
<1>2. IInv /\ SessionsOK /\ [Next]_vars => SessionsOK'
  BY NextSessions
<1>3. SessionsOK => SessionsOnlyForQueued
  BY DEF SessionsOK
<1>. QED
  BY <1>1, <1>2, <1>3, Invariance, PTL DEF Spec

-----------------------------------------------------------------------------
(***************************************************************************)
(* The task service keeps its promise: each step of RechargeBridge, for    *)
(* every set of processes, codes and bounds, is a step of RechargePromise  *)
(* or leaves ledger and hand-outs alone.                                   *)
(*                                                                         *)
(* That recorded tasks only grow is not enough: growing is transitive, so  *)
(* it would let one step take a task from the queue to an outcome, or      *)
(* start two.  A step is therefore followed through its two halves, what   *)
(* expire(at) sets aside and what the handler moves after it.              *)
(***************************************************************************)

(***************************************************************************)
(* How one step may move the tasks of a row                                *)
(***************************************************************************)
(* expire(at): some tasks are sent to review, the others stay.              *)
Reviews(ts, us) ==
  /\ DOMAIN us = DOMAIN ts
  /\ \A k \in DOMAIN ts :
       us[k] = ts[k] \/ (ts[k].status \in {"queued", "running"} /\ us[k].status = "awaiting_review")

(* A handler: only tasks among ks start, and new tasks are queued.          *)
MovesOn(ts, us, ks) ==
  /\ DOMAIN ts \subseteq DOMAIN us
  /\ \A k \in DOMAIN ts :
       \/ us[k].status = ts[k].status
       \/ ts[k].status = "queued" /\ us[k].status = "awaiting_review"
       \/ ts[k].status = "queued" /\ us[k].status = "running" /\ k \in ks
       \/ ts[k].status = "running" /\ us[k].status \in Final
  /\ \A k \in DOMAIN us \ DOMAIN ts : us[k].status = "queued"

(* What was handed out in this step is what this step started.              *)
HandsOut(ks) ==
  /\ granted \subseteq granted'
  /\ \A g \in granted' \ granted :
       /\ g.task \in DOMAIN store.tasks
       /\ store.tasks[g.task].code = g.code
       /\ store.tasks[g.task].status = "queued"
       /\ store'.tasks[g.task].status = "running"

OneMove == \E ks : /\ \A j, k \in ks : j = k
                   /\ MovesOn(store.tasks, store'.tasks, ks)
                   /\ HandsOut(ks)

LEMMA MovesNot == ASSUME NEW ts, NEW ks PROVE MovesOn(ts, ts, ks)
  BY DEF MovesOn

LEMMA ReviewsNot == ASSUME NEW ts PROVE Reviews(ts, ts)
  BY DEF Reviews

LEMMA ReviewsMove == ASSUME NEW ts, NEW us, NEW ks, Reviews(ts, us) PROVE MovesOn(ts, us, ks)
  BY DEF Reviews, MovesOn, Final

(* What was sent to review is settled, so the handler does not move it.     *)
LEMMA ReviewsThenMoves ==
  ASSUME NEW ts, NEW us, NEW vs, NEW ks,
         Reviews(ts, us), TasksGrow(us, vs), MovesOn(us, vs, ks)
  PROVE  MovesOn(ts, vs, ks)
<1>1. DOMAIN ts = DOMAIN us /\ DOMAIN us \subseteq DOMAIN vs
  BY DEF Reviews, TasksGrow
<1>2. ASSUME NEW k \in DOMAIN ts
      PROVE  \/ vs[k].status = ts[k].status
             \/ ts[k].status = "queued" /\ vs[k].status = "awaiting_review"
             \/ ts[k].status = "queued" /\ vs[k].status = "running" /\ k \in ks
             \/ ts[k].status = "running" /\ vs[k].status \in Final
  <2>1. CASE us[k] = ts[k]
    BY <1>1, <2>1 DEF MovesOn
  <2>2. CASE us[k] # ts[k]
    <3>1. ts[k].status \in {"queued", "running"} /\ us[k].status = "awaiting_review"
      BY <2>2 DEF Reviews
    <3>2. vs[k] = us[k]
      BY <1>1, <3>1 DEF TasksGrow, TaskGrows, Final
    <3>. QED
      BY <3>1, <3>2 DEF Final
  <2>. QED
    BY <2>1, <2>2
<1>3. \A k \in DOMAIN vs \ DOMAIN ts : vs[k].status = "queued"
  BY <1>1 DEF MovesOn
<1>. QED
  BY <1>1, <1>2, <1>3 DEF MovesOn

(***************************************************************************)
(* The two halves of a step                                                *)
(***************************************************************************)
LEMMA ExpireReviews ==
  ASSUME NEW row \in Row, NEW at \in Nat, NEW r \in BOOLEAN
  PROVE  Reviews(row.tasks, Expired(row, at, r).tasks)
<1>. DEFINE ts == row.tasks
            f == ExpiredTasks(row, at, r)
<1>1. \A k \in DOMAIN ts : ts[k] \in Task
  BY ElementOfSeq, LenProperties DEF Row
<1>2. DOMAIN f = DOMAIN ts
  BY DEF ExpiredTasks
<1>3. ASSUME NEW k \in DOMAIN ts
      PROVE  f[k] = ts[k] \/ (ts[k].status \in {"queued", "running"} /\ f[k].status = "awaiting_review")
  <2>1. CASE Due(ts[k], at, r)
    <3>1. ts[k].status \in {"queued", "running"}
      BY <2>1 DEF Due
    <3>2. f[k] = Transition(ts[k], "awaiting_review", at) /\ "awaiting_review" \in Status
      BY <2>1 DEF ExpiredTasks, Status, Final
    <3>. QED
      BY <1>1, <3>1, <3>2, TransitionTask
  <2>2. CASE ~Due(ts[k], at, r)
    BY <2>2 DEF ExpiredTasks
  <2>. QED
    BY <2>1, <2>2
<1>4. Reviews(ts, f)
  BY <1>2, <1>3 DEF Reviews
<1>. HIDE DEF f
<1>5. CASE MustExpire(row, at, r)
  BY <1>4, <1>5 DEF Expired, Revise, f
<1>6. CASE ~MustExpire(row, at, r)
  BY <1>6, ReviewsNot DEF Expired
<1>. QED
  BY <1>5, <1>6

LEMMA FreshReviews ==
  ASSUME IInv, NEW i \in Instances, phase[i] = "serving", CanExpire(i)
  PROVE  Reviews(store.tasks, FreshStore(i).tasks)
<1>1. /\ store \in Row /\ copy[i] \in Row /\ now \in Nat
      /\ copy[i].revision = store.revision => copy[i] = store
  BY DEF IInv, TypeOK, Sync
<1>2. CASE MustExpire(copy[i], now, FALSE)
  <2>1. copy[i] = store /\ FreshStore(i) = Expired(copy[i], now, FALSE)
    BY <1>1, <1>2 DEF CanExpire, FreshStore, Fresh
  <2>. QED
    BY <1>1, <2>1, ExpireReviews
<1>3. CASE ~MustExpire(copy[i], now, FALSE)
  BY <1>3, ReviewsNot DEF FreshStore
<1>. QED
  BY <1>2, <1>3

(* A handler's commit moves the file as the handler moved its memory, or as *)
(* its expire(at) did.                                                      *)
LEMMA HandlerMoves ==
  ASSUME IInv, NEW i \in Instances, phase[i] = "serving", CanExpire(i),
         NEW tasks, TasksGrow(Fresh(i).tasks, tasks),
         NEW ks, MovesOn(Fresh(i).tasks, tasks, ks),
         NEW nonces, NEW held, NEW left, NEW grants,
         HandlerCommits(i, tasks, nonces, held, left, grants)
  PROVE  /\ MovesOn(store.tasks, store'.tasks, ks)
         /\ \/ granted' = granted
            \/ /\ granted' = granted \cup grants
               /\ Reviews(store.tasks, Fresh(i).tasks)
               /\ store'.tasks = tasks
<1>. DEFINE next == Revise(Fresh(i), tasks, nonces)
<1>1. /\ Reviews(store.tasks, FreshStore(i).tasks)
      /\ Fresh(i).revision = FreshStore(i).revision => Fresh(i) = FreshStore(i)
  BY FreshReviews, FreshFacts
<1>2. next.tasks = tasks
  BY DEF Revise
<1>3. \/ store' = FreshStore(i)
      \/ Fresh(i) = FreshStore(i) /\ store' = next
  <2>1. \/ store' = FreshStore(i)
        \/ Fresh(i).revision = FreshStore(i).revision /\ store' = next
    BY DEF HandlerCommits, Commits, CommitFails, CommitThrows, CommitThenCrash
  <2>. QED
    BY <1>1, <2>1
<1>4. \/ granted' = granted
      \/ granted' = granted \cup grants /\ Fresh(i) = FreshStore(i) /\ store' = next
  BY <1>1 DEF HandlerCommits, Commits, CommitFails, CommitThrows, CommitThenCrash
<1>. HIDE DEF next
<1>5. CASE store' = FreshStore(i)
  BY <1>1, <1>2, <1>4, <1>5, ReviewsMove
<1>6. CASE Fresh(i) = FreshStore(i) /\ store' = next
  <2>1. MovesOn(store.tasks, tasks, ks)
    BY <1>1, <1>6, ReviewsThenMoves
  <2>. QED
    BY <1>1, <1>2, <1>4, <1>6, <2>1
<1>. QED
  BY <1>3, <1>5, <1>6

(* A handler that hands out nothing starts nothing either.                  *)
LEMMA QuietMove ==
  ASSUME MovesOn(store.tasks, store'.tasks, {}), granted' \in {granted, granted \cup {}}
  PROVE  OneMove
<1>1. granted' = granted
  OBVIOUS
<1>2. HandsOut({})
  BY <1>1 DEF HandsOut
<1>. QED
  BY <1>2 DEF OneMove

LEMMA FinishMoves ==
  ASSUME IInv, NEW i \in Instances, NEW n \in DOMAIN signed, NEW kind, NEW tasks,
         Finishes(i, n, kind, tasks)
  PROVE  OneMove
<1>1. Admits(i, n, kind) /\ Finish(i, n, tasks) /\ TasksGrow(Fresh(i).tasks, tasks)
  BY DEF Finishes
<1>2. phase[i] = "serving" /\ CanExpire(i)
  BY <1>1, AdmitFacts
<1>3. HandlerCommits(i, tasks, NoncesWith(i, n), FreshSessions(i), FreshSessions(i), {})
  BY <1>1 DEF Finish
<1>4. MovesOn(Fresh(i).tasks, tasks, {})
  BY DEF Finishes, MovesOn
<1>5. /\ MovesOn(store.tasks, store'.tasks, {})
      /\ granted' = granted \/ granted' = granted \cup {}
  BY <1>1, <1>2, <1>3, <1>4, HandlerMoves
<1>. QED
  BY <1>5, QuietMove

(***************************************************************************)
(* The handlers                                                            *)
(***************************************************************************)
(* progress(), result() and refusals start nothing.                         *)
LEMMA ReportMoves ==
  ASSUME IInv, NEW i \in Instances, NEW n \in DOMAIN signed,
         Progress(i, n) \/ Result(i, n) \/ Refuse(i, n)
  PROVE  OneMove
<1>1. PICK kind \in {"progress", "result"}, tasks \in Seq(Task) : Finishes(i, n, kind, tasks)
  BY ProgressFinishes, ResultFinishes, RefuseFinishes
<1>. QED
  BY <1>1, FinishMoves

(* A claim starts what it takes and sends to review what it sets aside.     *)
LEMMA ClaimMovesOn ==
  ASSUME IInv, NEW i \in Instances, NEW n \in DOMAIN signed, Admits(i, n, "claim"),
         NEW taken \in SUBSET Queued(i)
  PROVE  MovesOn(Fresh(i).tasks, ClaimTasks(i, taken), taken)
<1>. DEFINE ts == Fresh(i).tasks
            f == ClaimTasks(i, taken)
<1>1. /\ now \in Nat /\ Fresh(i) \in Row
      /\ \A k \in DOMAIN ts : ts[k] \in Task /\ TaskOK(ts[k])
  BY AdmitFacts
<1>2. DOMAIN f = DOMAIN ts
  BY ClaimTasksOK
<1>3. ASSUME NEW k \in DOMAIN ts
      PROVE  \/ f[k].status = ts[k].status
             \/ ts[k].status = "queued" /\ f[k].status = "awaiting_review"
             \/ ts[k].status = "queued" /\ f[k].status = "running" /\ k \in taken
  <2>1. CASE k \in taken
    <3>1. ts[k].status = "queued" /\ f[k] = Claimed(i, k)
      BY <2>1, ClaimTasksOK DEF Queued
    <3>2. Claimed(i, k).status = "running"
      BY <1>1, <3>1, ClaimedTask
    <3>. QED
      BY <2>1, <3>1, <3>2
  <2>2. CASE k \notin taken /\ k \in SetAside(i)
    <3>1. f[k] = Transition(ts[k], "awaiting_review", now) /\ ts[k].status = "queued"
      BY <2>2 DEF ClaimTasks, SetAside, Queued
    <3>2. "awaiting_review" \in Status
      BY DEF Status, Final
    <3>. QED
      BY <1>1, <3>1, <3>2, TransitionTask
  <2>3. CASE k \notin taken /\ k \notin SetAside(i)
    BY <2>3 DEF ClaimTasks
  <2>. QED
    BY <2>1, <2>2, <2>3
<1>. HIDE DEF f
<1>. QED
  BY <1>2, <1>3 DEF MovesOn, f

LEMMA ClaimMoves ==
  ASSUME IInv, NEW i \in Instances, NEW n \in DOMAIN signed, Claim(i, n)
  PROVE  OneMove
<1>. DEFINE grant(k) == [task |-> k, lease |-> Fresh(i).revision + 1,
                         code |-> Fresh(i).tasks[k].code]
<1>1. Admits(i, n, "claim")
  BY DEF Claim
<1>2. PICK k \in Claimable(i) :
        HandlerCommits(i, ClaimTasks(i, {k}), NoncesWith(i, n),
            SessionsBeside(i, SetAside(i)),
            SessionsBeside(i, SetAside(i) \cup {k}), {grant(k)})
  BY DEF Claim
<1>3. k \in Queued(i) /\ k \in DOMAIN Fresh(i).tasks /\ Fresh(i).tasks[k].status = "queued"
  BY DEF Claimable, Queued
<1>4. /\ phase[i] = "serving" /\ CanExpire(i) /\ now \in Nat /\ Fresh(i) \in Row
      /\ Fresh(i).tasks[k] \in Task /\ TaskOK(Fresh(i).tasks[k])
  BY <1>1, <1>3, AdmitFacts
<1>5. /\ TasksGrow(Fresh(i).tasks, ClaimTasks(i, {k}))
      /\ ClaimTasks(i, {k})[k] = Claimed(i, k)
  BY <1>1, <1>3, ClaimTasksOK
<1>6. MovesOn(Fresh(i).tasks, ClaimTasks(i, {k}), {k})
  BY <1>1, <1>3, ClaimMovesOn
<1>7. ClaimTasks(i, {k})[k].status = "running"
  BY <1>3, <1>4, <1>5, ClaimedTask
<1>8. grant(k).task = k /\ grant(k).code = Fresh(i).tasks[k].code
  OBVIOUS
<1>. HIDE DEF grant
<1>5a. /\ MovesOn(store.tasks, store'.tasks, {k})
      /\ \/ granted' = granted
         \/ /\ granted' = granted \cup {grant(k)}
            /\ Reviews(store.tasks, Fresh(i).tasks)
            /\ store'.tasks = ClaimTasks(i, {k})
  BY <1>2, <1>4, <1>5, <1>6, HandlerMoves
<1>10. HandsOut({k})
  <2>1. CASE granted' = granted
    BY <2>1 DEF HandsOut
  <2>2. CASE /\ granted' = granted \cup {grant(k)}
             /\ Reviews(store.tasks, Fresh(i).tasks)
             /\ store'.tasks = ClaimTasks(i, {k})
    <3>1. k \in DOMAIN store.tasks /\ Fresh(i).tasks[k] = store.tasks[k]
      BY <1>3, <2>2 DEF Reviews
    <3>. QED
      BY <1>3, <1>7, <1>8, <2>2, <3>1 DEF HandsOut
  <2>. QED
    BY <1>5a, <2>1, <2>2
<1>. QED
  BY <1>5a, <1>10 DEF OneMove

LEMMA ClaimNothingMoves ==
  ASSUME IInv, NEW i \in Instances, NEW n \in DOMAIN signed, ClaimNothing(i, n)
  PROVE  OneMove
<1>1. /\ Admits(i, n, "claim")
      /\ HandlerCommits(i, ClaimTasks(i, {}), NoncesWith(i, n),
           SessionsBeside(i, SetAside(i)), SessionsBeside(i, SetAside(i)), {})
  BY DEF ClaimNothing
<1>2. phase[i] = "serving" /\ CanExpire(i)
  BY <1>1, AdmitFacts
<1>3. /\ TasksGrow(Fresh(i).tasks, ClaimTasks(i, {}))
      /\ MovesOn(Fresh(i).tasks, ClaimTasks(i, {}), {})
  BY <1>1, ClaimTasksOK, ClaimMovesOn
<1>4. /\ MovesOn(store.tasks, store'.tasks, {})
      /\ granted' = granted \/ granted' = granted \cup {}
  BY <1>1, <1>2, <1>3, HandlerMoves
<1>. QED
  BY <1>4, QuietMove

(* A new task enters the queue.                                             *)
LEMMA SubmitMoves ==
  ASSUME IInv, NEW i \in Instances, NEW c \in Codes, Submit(i, c)
  PROVE  OneMove
<1>. DEFINE tasks == Fresh(i).tasks
            new == NewTask(c, now)
            more == Append(tasks, new)
<1>1. phase[i] = "serving" /\ CanExpire(i)
  BY DEF Submit, Serving
<1>2. tasks \in Seq(Task) /\ Len(tasks) \in Nat /\ now \in Nat
  BY <1>1, FreshFacts, LenProperties DEF Row, IInv, TypeOK
<1>3. now + QueuedLifetime \in Nat
  BY <1>2, BridgeAssumption
<1>4. new \in Task /\ new.status = "queued"
  BY <1>2, <1>3 DEF NewTask, Task, Status
<1>5. PICK life \in SessionLifetimes \ {0} :
         HandlerCommits(i, more, Fresh(i).nonces, FreshSessions(i),
           FreshSessions(i) \cup {[task |-> Len(tasks) + 1, expires |-> now + life]}, {})
  BY DEF Submit
<1>. HIDE DEF new
<1>6. /\ more \in Seq(Task) /\ Len(more) = Len(tasks) + 1
      /\ \A k \in 1..Len(tasks) : more[k] = tasks[k]
      /\ more[Len(tasks) + 1] = new
  BY <1>2, <1>4, AppendProperties
<1>7. DOMAIN tasks = 1..Len(tasks) /\ DOMAIN more = 1..(Len(tasks) + 1)
  BY <1>2, <1>6, LenProperties
<1>. HIDE DEF more
<1>8. TasksGrow(tasks, more)
  BY <1>2, <1>6, <1>7 DEF TasksGrow
<1>5a. \A k \in DOMAIN more \ DOMAIN tasks : k = Len(tasks) + 1
  BY <1>2, <1>7
<1>10. MovesOn(tasks, more, {})
  <2>1. DOMAIN tasks \subseteq DOMAIN more
    BY <1>2, <1>7
  <2>2. \A k \in DOMAIN tasks : more[k].status = tasks[k].status
    BY <1>6, <1>7
  <2>3. \A k \in DOMAIN more \ DOMAIN tasks : more[k].status = "queued"
    BY <1>4, <1>6, <1>5a
  <2>. QED
    BY <2>1, <2>2, <2>3 DEF MovesOn
<1>11. /\ MovesOn(store.tasks, store'.tasks, {})
       /\ granted' = granted \/ granted' = granted \cup {}
  BY <1>1, <1>5, <1>8, <1>10, HandlerMoves
<1>. QED
  BY <1>11, QuietMove

(* The timer, a start and everything else move the file as expire(at) does. *)
LEMMA OtherMoves ==
  ASSUME IInv,
         \/ \E i \in Instances : \/ Sweep(i) \/ SweepFails(i) \/ Start(i)
                                 \/ Close(i) \/ Release(i) \/ Crash(i)
         \/ Tick \/ ClearLock \/ Worker \/ UNCHANGED vars
  PROVE  OneMove
<1>1. store \in Row /\ now \in Nat
  BY DEF IInv, TypeOK
<1>2. ASSUME NEW i \in Instances, Sweep(i) \/ SweepFails(i)
      PROVE  Reviews(store.tasks, store'.tasks) /\ granted' = granted
  <2>1. phase[i] = "serving" /\ MustExpire(copy[i], now, FALSE)
    BY <1>2 DEF Sweep, SweepFails, Serving
  <2>2. copy[i].revision = store.revision => copy[i] = store
    BY <2>1 DEF IInv, Sync
  <2>3. /\ store' = store \/ (copy[i].revision = store.revision /\ store' = Fresh(i))
        /\ granted' = granted
    BY <1>2 DEF Sweep, SweepFails, Commits, CommitFails, CommitThrows, CommitThenCrash
  <2>4. Reviews(store.tasks, Expired(store, now, FALSE).tasks)
    BY <1>1, ExpireReviews
  <2>. QED
    BY <2>2, <2>3, <2>4, ReviewsNot DEF Fresh
<1>3. ASSUME NEW i \in Instances, Start(i)
      PROVE  Reviews(store.tasks, store'.tasks) /\ granted' = granted
  <2>1. store' \in {store, Expired(store, now, TRUE)} /\ granted' = granted
    BY <1>3 DEF Start, Starts, StartFails
  <2>2. Reviews(store.tasks, Expired(store, now, TRUE).tasks)
    BY <1>1, ExpireReviews
  <2>. QED
    BY <2>1, <2>2, ReviewsNot
<1>4. ASSUME NEW i \in Instances, Close(i) \/ Release(i) \/ Crash(i)
      PROVE  store' = store /\ granted' = granted
  BY <1>4 DEF Close, Release, Crash
<1>5. CASE Tick \/ ClearLock \/ Worker \/ UNCHANGED vars
  <2>1. store' = store /\ granted' = granted
    BY <1>5 DEF Tick, ClearLock, Worker, SignClaim, SignProgress, SignResult, Sign, service, vars
  <2>. QED
    BY <2>1, MovesNot, QuietMove
<1>6. ASSUME Reviews(store.tasks, store'.tasks), granted' = granted PROVE OneMove
  BY <1>6, ReviewsMove, QuietMove
<1>. QED
  BY <1>2, <1>3, <1>4, <1>5, <1>6, ReviewsNot

LEMMA EveryStepMoves == IInv /\ [Next]_vars => OneMove
<1> SUFFICES ASSUME IInv, [Next]_vars PROVE OneMove
  OBVIOUS
<1>1. ASSUME NEW i \in Instances, NEW c \in Codes, Submit(i, c) PROVE OneMove
  BY <1>1, SubmitMoves
<1>2. ASSUME NEW i \in Instances, NEW n \in DOMAIN signed,
             \/ Claim(i, n) \/ ClaimNothing(i, n)
             \/ Progress(i, n) \/ Result(i, n) \/ Refuse(i, n)
      PROVE  OneMove
  BY <1>2, ClaimMoves, ClaimNothingMoves, ReportMoves
<1>. QED
  BY <1>1, <1>2, OtherMoves DEF Next, Operator, Handle

(***************************************************************************)
(* The ledger                                                              *)
(***************************************************************************)
(* The mapping of the tasks, of either side of a step.                      *)
LedgerOf(ts) ==
  [c \in Codes |->
     IF \E k \in DOMAIN ts : ts[k].code = c
     THEN ts[CHOOSE k \in DOMAIN ts : ts[k].code = c].status
     ELSE "none"]

(* With one task for a code, the ledger shows that task's status.           *)
LEMMA LedgerShows ==
  ASSUME NEW ts, CodesOnce(ts), NEW k \in DOMAIN ts, ts[k].code \in Codes
  PROVE  LedgerOf(ts)[ts[k].code] = ts[k].status
<1>. DEFINE c == ts[k].code
            j == CHOOSE j \in DOMAIN ts : ts[j].code = c
<1>1. j \in DOMAIN ts /\ ts[j].code = c
  OBVIOUS
<1>2. j = k
  BY <1>1 DEF CodesOnce
<1>3. LedgerOf(ts)[c] = ts[j].status
  BY DEF LedgerOf
<1>. QED
  BY <1>2, <1>3

LEMMA LedgerEmpty ==
  ASSUME NEW ts, NEW c \in Codes, \A k \in DOMAIN ts : ts[k].code # c
  PROVE  LedgerOf(ts)[c] = "none"
  BY DEF LedgerOf

LEMMA LedgerTyped ==
  ASSUME NEW ts \in Seq(Task), CodesOnce(ts)
  PROVE  LedgerOf(ts) \in [Codes -> Promise!LedgerStatus]
<1>. SUFFICES ASSUME NEW c \in Codes PROVE LedgerOf(ts)[c] \in Promise!LedgerStatus
  BY DEF LedgerOf
<1>1. CASE \E k \in DOMAIN ts : ts[k].code = c
  <2>1. PICK k \in DOMAIN ts : ts[k].code = c
    BY <1>1
  <2>2. LedgerOf(ts)[c] = ts[k].status
    BY <2>1, LedgerShows
  <2>3. ts[k] \in Task
    BY ElementOfSeq, LenProperties
  <2>. QED
    BY <2>2, <2>3 DEF Task, Status, Final, Confirmed, Promise!LedgerStatus, Promise!Settled
<1>2. CASE \A k \in DOMAIN ts : ts[k].code # c
  BY <1>2, LedgerEmpty DEF Promise!LedgerStatus
<1>. QED
  BY <1>1, <1>2

(* What a step does to a code's entry, by the task that stands for it.      *)
LEMMA LedgerMoves ==
  ASSUME NEW ts \in Seq(Task), NEW us \in Seq(Task), CodesOnce(ts), CodesOnce(us),
         TasksGrow(ts, us), NEW ks, MovesOn(ts, us, ks),
         NEW c \in Codes, LedgerOf(us)[c] # LedgerOf(ts)[c]
  PROVE  <<LedgerOf(ts)[c], LedgerOf(us)[c]>> \in Promise!Moves
<1>1. \A k \in DOMAIN us : us[k] \in Task
  BY ElementOfSeq, LenProperties
<1>2. \E k \in DOMAIN us : us[k].code = c
  <2>1. ASSUME \A k \in DOMAIN us : us[k].code # c PROVE FALSE
    <3>1. \A k \in DOMAIN ts : ts[k].code # c
      BY <2>1 DEF TasksGrow, TaskGrows
    <3>. QED
      BY <2>1, <3>1, LedgerEmpty
  <2>. QED
    BY <2>1
<1>3. PICK k \in DOMAIN us : us[k].code = c
  BY <1>2
<1>4. LedgerOf(us)[c] = us[k].status
  BY <1>3, LedgerShows
<1>5. CASE k \in DOMAIN ts
  <2>1. ts[k].code = c
    BY <1>3, <1>5 DEF TasksGrow, TaskGrows
  <2>2. LedgerOf(ts)[c] = ts[k].status
    BY <1>5, <2>1, LedgerShows
  <2>3. \/ ts[k].status = "queued" /\ us[k].status = "awaiting_review"
        \/ ts[k].status = "queued" /\ us[k].status = "running" /\ k \in ks
        \/ ts[k].status = "running" /\ us[k].status \in Final
    BY <1>4, <1>5, <2>2 DEF MovesOn
  <2>. QED
    BY <1>4, <1>5, <2>1, <2>2, <2>3 DEF Promise!Moves, Promise!Settled, Final, Confirmed
<1>6. CASE k \notin DOMAIN ts
  <2>1. \A j \in DOMAIN ts : ts[j].code # c
    <3>1. ASSUME NEW j \in DOMAIN ts, ts[j].code = c PROVE FALSE
      <4>1. j \in DOMAIN us /\ us[j].code = c
        BY <3>1 DEF TasksGrow, TaskGrows
      <4>. QED
        BY <1>3, <1>6, <4>1 DEF CodesOnce
    <3>. QED
      BY <3>1
  <2>2. LedgerOf(ts)[c] = "none" /\ us[k].status = "queued"
    BY <1>6, <2>1, LedgerEmpty DEF MovesOn
  <2>. QED
    BY <1>4, <2>2 DEF Promise!Moves
<1>. QED
  BY <1>5, <1>6

LEMMA LedgerStarts ==
  ASSUME NEW ts \in Seq(Task), NEW us \in Seq(Task), CodesOnce(ts), CodesOnce(us),
         TasksGrow(ts, us), NEW ks, MovesOn(ts, us, ks),
         NEW k \in DOMAIN ts, ts[k].status = "queued",
         LedgerOf(us)[ts[k].code] = "running"
  PROVE  k \in ks
<1>1. k \in DOMAIN us /\ us[k].code = ts[k].code
  BY DEF TasksGrow, TaskGrows
<1>2. ts[k] \in Task
  BY ElementOfSeq, LenProperties
<1>3. ts[k].code \in Codes
  BY <1>2 DEF Task
<1>4. us[k].status = "running"
  BY <1>1, <1>3, LedgerShows
<1>. QED
  BY <1>4 DEF MovesOn, Final, Confirmed

LEMMA LedgerQueued ==
  ASSUME NEW ts \in Seq(Task), CodesOnce(ts), NEW c \in Codes, LedgerOf(ts)[c] = "queued"
  PROVE  \E k \in DOMAIN ts : ts[k].code = c /\ ts[k].status = "queued"
<1>1. PICK k \in DOMAIN ts : ts[k].code = c
  BY LedgerEmpty
<1>. QED
  BY <1>1, LedgerShows

(***************************************************************************)
(* The refinement                                                          *)
(***************************************************************************)
LEMMA PromiseStepKept ==
  ASSUME IInv, IInv', TasksGrow(store.tasks, store'.tasks), OneMove
  PROVE  Promise!PromiseStep
<1>. DEFINE ts == store.tasks
            us == store'.tasks
<1>1. /\ ts \in Seq(Task) /\ us \in Seq(Task) /\ CodesOnce(ts) /\ CodesOnce(us)
      /\ granted \in SUBSET Grant /\ granted' \in SUBSET Grant
  BY DEF IInv, TypeOK, Row, TasksOK
<1>2. ledgerBar = LedgerOf(ts) /\ ledgerBar' = LedgerOf(us)
  BY DEF ledgerBar, LedgerOf
<1>3. PICK ks : /\ \A j, k \in ks : j = k
                /\ MovesOn(ts, us, ks)
                /\ HandsOut(ks)
  BY DEF OneMove
<1>4. ledgerBar' \in [Codes -> Promise!LedgerStatus]
  BY <1>1, <1>2, LedgerTyped
<1>5. ASSUME NEW c \in Codes, ledgerBar'[c] # ledgerBar[c]
      PROVE  <<ledgerBar[c], ledgerBar'[c]>> \in Promise!Moves
  BY <1>1, <1>2, <1>3, <1>5, LedgerMoves
<1>6. ASSUME NEW c \in Codes, NEW d \in Codes,
             ledgerBar[c] = "queued", ledgerBar'[c] = "running",
             ledgerBar[d] = "queued", ledgerBar'[d] = "running"
      PROVE  c = d
  <2>1. PICK k \in DOMAIN ts : ts[k].code = c /\ ts[k].status = "queued"
    BY <1>1, <1>2, <1>6, LedgerQueued
  <2>2. PICK j \in DOMAIN ts : ts[j].code = d /\ ts[j].status = "queued"
    BY <1>1, <1>2, <1>6, LedgerQueued
  <2>3. k \in ks /\ j \in ks
    BY <1>1, <1>2, <1>3, <1>6, <2>1, <2>2, LedgerStarts
  <2>. QED
    BY <1>3, <2>1, <2>2, <2>3
<1>7. handedBar \subseteq handedBar'
  BY <1>3 DEF HandsOut, handedBar
<1>8. ASSUME NEW c \in handedBar' \ handedBar
      PROVE  ledgerBar[c] = "queued" /\ ledgerBar'[c] = "running"
  <2>1. PICK g \in granted' \ granted : g.code = c
    BY <1>8 DEF handedBar
  <2>2. /\ g.task \in DOMAIN ts /\ ts[g.task].code = c
        /\ ts[g.task].status = "queued" /\ us[g.task].status = "running"
    BY <1>3, <2>1 DEF HandsOut
  <2>3. g.task \in DOMAIN us /\ us[g.task].code = c /\ c \in Codes
    BY <1>1, <2>1, <2>2 DEF TasksGrow, TaskGrows, Grant
  <2>. QED
    BY <1>1, <1>2, <2>2, <2>3, LedgerShows
<1>. QED
  BY <1>4, <1>5, <1>6, <1>7, <1>8 DEF Promise!PromiseStep

LEMMA PromiseInitKept == Init => Promise!PromiseInit
<1>. SUFFICES ASSUME Init PROVE Promise!PromiseInit
  OBVIOUS
<1>1. store.tasks = << >> /\ granted = {}
  BY DEF Init, Blank
<1>2. DOMAIN store.tasks = {}
  BY <1>1
<1>. QED
  BY <1>1, <1>2 DEF Promise!PromiseInit, ledgerBar, handedBar

(* The task service implements its promise: whatever processes, crashes,    *)
(* failing writes and late requests do, each change of the file moves each  *)
(* code's entry along, starts at most one, and hands out only that one.     *)
THEOREM ServiceKeepsPromise == Spec => KeepsPromise
<1>1. IInv /\ IInv' /\ TasksGrow(store.tasks, store'.tasks) /\ OneMove => Promise!PromiseStep
  BY PromiseStepKept
<1>. QED
  BY <1>1, PromiseInitKept, Invariance, NextInvariant, EveryStepMoves, PTL
  DEF Spec, KeepsPromise, Promise!PromiseSpec
=============================================================================
