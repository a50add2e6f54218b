# Formal models of id-business-system

TLA+ models of the parts of this repository whose correctness depends on the
order in which things happen: requests, commits, crashes, timers and answers
that overtake each other. TLC checks them on small instances; TLAPS proves for
every instance the safety of the recharges (task service, worker, code requests,
order synchronisation), of the orders' money, of the employee accounts, of the Apple
relay and of what a tab shows.

    tlc -workers 2 -config bridge.cfg MCRechargeBridge     # a run
    tlapm RechargeBridge_proofs.tla                        # the proofs of a module

The modules with proofs are `RechargeBridge_proofs`, `RechargeWorker_proofs`,
`RechargeCodeRequests_proofs`, `RechargeOrderSync_proofs`, `ChangeSync_proofs`,
`OrderDesk_proofs`, `LocalAuth_proofs` and `RelayDesk_proofs`. The longest, `OrderDesk_proofs`,
takes a quarter of an hour from nothing.

Paths below are those of the repository. `PROJECT.json` maps every definition to
the lines it models and lists runs, mutants, hazards, findings and theorems.

## 1. The system

A Node.js process (`server/preview.mjs`) serves the staff's browser pages from one
encrypted SQLite file. Recharges of customers' accounts go through three
programs: a shop that sells redemption codes and is not in the repository, the
task service (`server/vendure-task-service.mjs`), and a worker that drives a
recharge engine which is not in the repository either.

    shop ──submit/status──▶ task service ◀──claim/progress/result── worker
                              │ SQLite row                            │
                                                        recharge engine (external)
    browser tabs ◀──reads, saves──▶ web host ── document store        │
               ◀──change stream──   │                                 │
                                    ├── code requests ──import/read──▶┤
                                    └── order synchronisation ◀─read──┘

| part | state | operations | interacts with | hard about it | correct means |
|---|---|---|---|---|---|
| recharge task service (`modules/recharge/vendure/loopback-bridge.mjs`, `isolated-task-store.mjs`, `server/vendure-task-service.mjs`) | tasks and handled nonces in one row with a revision, a copy in memory, the customers' authorizations in memory only, a lock directory | submit, status, claim, progress, result, expiry timer, start, close | shop, worker, other processes on the file | crashes around a commit, a commit that throws after it wrote, replayed and late requests, leases that end, two processes | a code is executed once, nothing settled changes, what is answered is on record, every task ends |
| worker (`codexdaichong-worker.mjs`) | the job it watches | claim, start a job, follow it, report | task service, engine | lost and late answers, its own restart, a lease that ends during a report | one run for a code, the outcome is the engine's, a job of any length is reported |
| code requests (`server/recharge-code-requests.mjs`) | a document of applications and batches | apply, approve, reject, reconcile | document store, the engine's code pool | half imports, late imports, four attempts on a busy document, several administrators | nothing published that does not exist, nothing in the pool without a record |
| order synchronisation (`server/recharge-order-sync.mjs` and two operations of `server/local-business.mjs`) | rows of jobs, the place in the list, the orders | a round of pages and readbacks, preview, manual rounds | engine, order document | a list that moves under the reader, proofs that come in pieces, starvation | one order per job, one issue fee per card, every success entered |
| document store (`server/local-business.mjs`, `local-business-integrity.mjs`, `order-policy.mjs`, `order-auxiliary.mjs`) | versioned encrypted documents, an audit log | read, save, save a batch, account life cycle, corrections | everything | check, await, check again; several documents in one transaction; money | histories only grow, balances follow from movements, no lost update |
| inventory usage (`server/inventory-usage.mjs`, `inventory-history.mjs`, `inventory-attribution.mjs`, `account-lifecycle.mjs`) | usage of each account, its history | inspect, apply, correct, renew | orders, relay claims | orders of two kinds on one account, corrections | an account is not delivered twice |
| change notification (`server/change-sync.mjs`, `frontend/change-sync.js`, `frontend/local-data.js`) | versions: announced, observed, shown, pending | connect, push, flush, load, save | document store, page modules | stream and reads overtake each other, shared loads, blocked pages | the tab catches up, never shows something older |
| employee accounts (`server/local-auth.mjs`, `local-auth-sessions.mjs`) | account file, lock file, sessions | log in, create, change, prune | web host | an await in the log-in, a lock left by a crash | no session outlives a changed account |
| Apple relay (`server/apple-relay/*`, `server/relay-claim-integrity.mjs`, `frontend/apple-relay-prototype.js`) | main mailboxes, hidden addresses and codes at a mail service outside; rows and claims in the inventory; reviews in memory | register, import, read, reset, assign, query, claim | inventory, buyers, a mail service over the network | two databases, reviews that are confirmed late, lost answers, a cache of codes | rows stay bound to what is theirs, a change is a change of what was reviewed |
| managed mailboxes (`server/tools/mailbox-pool.mjs`) | pool document | query, verified write, failed mark | mail servers | a slow read, then a revision check | an old failure does not mark a new password |
| website monitor, visits, media, one-time passwords | small documents | poll, count, compute | external sites | – | – |
| finance (`modules/finance`, `server/finance`) | snapshots | reports | orders | decimal arithmetic | reports add up |
| backup (`server/backup`) | files | copy, verify, restore | SQLite | file system | a restored copy is complete |
| recharge gateway, runtime and BitBrowser automation, deployment of the core | – | proxying, scripts | external programs | I/O | – |
| browser pages (`frontend/*-prototype.js`) | forms and drafts | drawing, editing | the above | rendering | – |

`PROJECT.json` "components" lists all of them with what is modelled, and "hazards"
names at its line each thing that is hard to test.

## 2. Plan

The order follows what a mistake costs: a second charge of a customer first, then
money in the books, then stock, then who may see any of it.

1. `RechargePromise`, `RechargeBridge`, with `RechargeBridge_proofs` (safety, then the
   refinement) — done.
2. `RechargeCodeRequests`, `RechargeCodeRequests_proofs` — done.
3. `RechargeWorker`, composed with what it sees of the service and refining the
   same `RechargePromise`; `RechargeWorker_proofs` — done.
4. `RechargeOrderSync`, `RechargeOrderSync_proofs` — done.
5. `ChangeSync`, `ChangeSync_proofs` — list pages done; the overview page, whose
   refresh returns at once when one is under way (`frontend/overview-prototype.js:46`),
   is left.
6. `AppleBalance`, `OrderRecords`, `OrderDesk`: orders, their money and the ledger of
   the Apple IDs, page and server; `OrderDesk_proofs` — done.
7. `InventoryUsage`, `InventoryStock`, `InventoryDesk`: stock, evidence of use, its
   correction, the life cycle of accounts, page and server — done.
8. `LocalAuth`, `LocalAuth_proofs`: account file, lock, sessions, pages — done.
9. `RelayService`, `RelayDesk`: hidden addresses, their codes and mails, server and
   page; `RelayDesk_proofs` — done.

Theorems left: those of `InventoryDesk` (`StockAddsUp`, `CommandsAnsweredTruly`, `HistoryIsKept`).

## 3. The modules

Each `MC…` module only names the values the configurations use.

**RechargePromise** is what the task service promises: a code is accepted once,
handed out at most once, in the step in which its task starts running, and what
needs review or has an outcome stays so. It has no processes, clocks or files.

**RechargeBridge** is the service. `store` is the SQLite row (`tasks`, `nonceUntil`,
`revision`, `nonces`), `copy[i]` the memory of process `i`, `sessions[i]` the
authorizations, `phase`, `needsRecovery` and `lock` the process's life, `now` the
clock. A request is handled in one synchronous piece once its body is read
(`handle`, `loopback-bridge.mjs` 391–446), so an action is: `expire`, then the
handler. `Commits` is `commit` (205–229): the compare-and-swap may find another
revision, throw, throw although the row was written, fail to read the outcome
back, or be the last thing the process does; `HandlerCommits` lets the handler
answer only what is on record. `Submit`, `Claim`, `ClaimNothing`, `Progress`,
`Result`, `Refuse`, `Sweep` are the handlers and the timer; `Sign…` the worker's
requests, which the network may deliver any number of times, late or never;
`Start`, `Close`, `Release`, `Crash`, `ClearLock` the processes and their operator.
`signed`, `granted` and `accepted` record what left the service and which requests took
effect.

**RechargeWorker** is `watch`, `runOnce` and `execute` as steps between two awaits,
with what the worker can see of the service (`tasks`) and of the engine (`jobs`).
A request that timed out is in `late` and may still be handled. It implements the
same `RechargePromise`, so the two views of the service agree on the ledger.

**RechargeCodeRequests**: `rows` is the document, `calls` the HTTP requests under way
(each between its awaits), `current` the calls whose loaded version is still the
document's, `pool` and `sent` the engine's code pool and the imports it has not
processed. `Saves` is the save under a version with four attempts.

**RechargeOrderSync**: `sessions` is the engine's list, newest first; `rows` and
`scanOffset` the synchronisation's document; `orders` the commerce document; `scan`
the round under way; `left` what may still go wrong or be done by hand, which
`Openings` sets with the jobs there are. A readback is a set of proved fields (`Evidence`);
`Applied` is `applyRechargeOrder` with the matching, filling and issue-fee rules.

**ChangeSync** is one browser tab. `tab` holds `server` and `observed` (the maps of
`local-data.js`), `shown` (the version a page module displays), `pending` and `flush`
(`change-sync.js`), `load` (the shared `inventoryLoad` and `commerceLoad`), `save` and
`busy`. An action is one browser task with the microtasks it queues, written as
operators on the memory in the order the code runs them: when an answer arrives
it is observed, the flush it may have queued runs, and only then the answer is
applied and the load is over (`Received`).

**AppleBalance** and **OrderRecords** are operators without state. `AppleBalance` has the
page's operations on the ledger (`PreviewOrder`, `CommitOrder`, `PrepareRefund`,
`ReceiveRefund`, `Adjust`, `UndoAdjustment` …) and the server's whole-ledger check
(`CheckAppleLedger`); `OrderRecords` has orders, corrections, refunds, bank returns and
undoing, and the server's checks of each order. **OrderDesk** puts them together: `tab`
holds the page's copies of both documents, its form and whether it awaits a confirmation or
an answer; `wire` the requests; `commerce` and `balance` the stored documents. A form is
filled in from the copies (`FillOrder` …), planned (`Submit`), confirmed (`Confirm`),
carried out by the server (`Serve`, which is `saveHttpWrites` and `saveBatch`: versions,
then the ledger, then the orders, all or nothing), and its answer is heard or not
(`Answered`, `GoSilent`, `Recover`, which opens the same form again). `Colleague` is the same form filled in and saved by
somebody else in one step. `Openings` are the documents the desk opens with: any it could
have come to (`OpeningsAssumption`: the server's own check accepts the ledger, and the
orders' money holds, `OrderSound`), with one order at most. The two of `MCOrderDesk` have
topped-up Apple IDs and an order paid from one of them, or by card.

**InventoryUsage** finds evidence of use (`Inspect`), applies it on every save
(`ApplyUsage`), corrects it (`CorrectUsage`) and ends a customer's use of an account
(`EndUse`). **InventoryStock** is what the pages make of stock and orders and what the
server checks on a save: history (`CheckHistory`), evidence (`EvidenceHeeded`),
deliveries, renewals. **InventoryDesk** has the same anatomy as `OrderDesk`, with
commands that carry a receipt (`EndUse` is answered from its receipt when sent
again) and refreshes that land while a dialog is open (`BeginLoad`, `LandLoad`,
`Kept`). `Openings` are six states of the stock staff may begin with.

**LocalAuth** is the account file, its lock, the sessions and the pages. `requests` holds
each request between its awaits: a log-in between reading the account and comparing
the password (`BeginLogin`, `EndLogin`), a change between asking who the actor is,
reading the file under the lock (`LockAndRead`), writing it (`Write`) and unlocking.
`public` tells one process with sessions in memory from several on shared files.
A page is signed out, connects its change stream and is told when its log-in
ends. Sending and arriving are one step; a page waits for its request.
Pruning sessions uses the moment the log-in ends; the attempts counter is a
choice between refusing and going on.

**RelayService** is the relay's server between two databases: `up` and `mail` are the mail
service outside (its addresses with their codes, and a mail filed under one of
them), `book` the inventory document with the rows bound to them and the claims on
rows. `calls` holds each request between two answers of the mail service: reading a
code, preparing and confirming a reset or an assignment (`PrepareReset`,
`ConfirmReset`, `LookForMail`, `AssignMail`, with `reviews` in memory), the three looks of a
public query (`FindMailbox`, `VerifyCode`, `ReadMails`, `ConfirmMailbox`), registering
(`LookForMain`, `LookForAliases`, `Change`, `LookAgain`, `SaveAliases`), main mailboxes, claims, and
the codes of a claim: a catalog of all codes is read (`ReadCatalog`), the claim checked on it
(`CheckClaim`), the reading recorded, and the claim checked again and the catalog's code answered
(`CopyCodes`). `before` remembers which codes were in force when such a request came; nothing but
the property looks at it.
A change given up, or interrupted by a restart, may stay in `late` and take effect
after all. `plan` bounds who may still ask for what, and what may still go wrong.
**RelayDesk** adds one administrator's page: `cells` show codes, `cache` is the tab's query
cache, `drawer` the form open, `list` the mails, `heard` and `news` what was announced. Its
`Openings` say what is registered at the start and what may happen from there.

## 4. The runs

Each passing run is exhaustive for its bounds. Every property has a mutant: a
plausible bug of the code, written beside the definition it replaces, that the
run finds.

| run | asks | bounds and why they are enough |
|---|---|---|
| `bridge` | authorizations only for queued tasks; settled tasks stay; `updatedAt` rises; requests take effect once; every task gets an outcome or reaches review | one process with restarts, one code, three worker requests, clock 0..3: every lifetime (`SignatureWindow` 1, `LeaseLifetime` 1, `QueuedLifetime` 2, authorizations of 0 and 1) is passed while requests, crashes and failing commits go on |
| `bridge_takeover` | one hand-out, the refinement of `RechargePromise` | two processes on one file after somebody removed the lock, one code, two requests: enough for each process to commit between the other's read and commit |
| `codes` | written ahead, nothing taken back, an approved application is issued | two calls, one applicant, a batch of two codes, a fault: an import may be partial, lost, late or filed with other data |
| `worker` | one run per code, outcomes are the engine's, reports in time, the end of an attended job is recorded, the refinement of `RechargePromise` | one code, two faults, one late request, a job that may run up to time 10 against a lease of 8 |
| `sync` | one order per job, one issue fee per card, nothing forgotten, every success entered | from three openings: two jobs on one card with two partial proofs, or with an order by hand, a failure and one partial proof; or three jobs with pages of one job and rounds of two pages, so that the list is longer than a round and jobs move across page borders |
| `sync_starves` | every success entered, with as many silent jobs as a round reads back | a finding, see below |
| `tab` | nothing announced is forgotten, the list never goes back, it catches up | two documents, a commit of others on each, a save of the tab, a fault (lost stream, failed read, lost answer, a 403) |
| `tab_opens` | it catches up, from the opening of the page | a finding, see below |
| `orders` | page and server judge alike, a form takes effect once (one for a new order as often as it made an order), money is accounted for across both documents, nothing is lost | two orders, or three when one form enters two, two Apple IDs, amounts up to 2 (whole, part, nothing); five events among forms, colleagues' saves and faults (a fault counts two): a form planned on old copies, lost, submitted again after a colleague's |
| `inventory` | claims and assets agree, commands are answered truly, page and server judge alike, history only grows, evidence of use is heeded | a mailbox, an account, two customers, two employees; from six states of the stock four events: an extraction reviewed, overtaken by a sale, corrected and given out again |
| `auth` | no session outlives its rights, the file stays valid, every change is counted, pages whose log-in ended leave | two processes, two employees, two browsers, two requests, a crash or lost stream, a session lifetime of 1 and clock 0..1: a log-in and a change of the same account interleave at every await |
| `relay` | rows stay bound to what is theirs, confirmed changes change what was reviewed, mails and codes go to whom they belong, codes handed out are no older than the request for them, a page at rest shows the codes in force | a main mailbox and two hidden addresses; from fourteen openings, each with two or three requests of the administrator, another one, a buyer or a colleague, or faults (a lost or late change, a failed read, a restart, an expired code): every pair of requests of the code that can meet is in one of them |

Times are scaled: the code's lease of five minutes, heartbeat of a minute,
timeout of five seconds and poll of two keep their order and their relations
(lease longer than heartbeat, two timeouts and a poll), not their values.
`CHECK_DEADLOCK FALSE` stands where a system may really stop: all calls returned
and all bounds used, a worker stopped, no engine job left, or all forms filled in.

Bounds by name: `MaxTime`, `MaxRequests` (bridge); `MaxRequests`, `MaxBatches`, `MaxSent`,
`MaxFaults` (codes); `MaxTime`, `LastEnd`, `MaxFaults`, `MaxLate` (worker); `Openings` (sync, relay: what may be done by hand, go wrong
or be asked, in `left` and `plan`); `MaxVersion`, `MaxSaves`, `MaxFaults` (tab); `MaxAmount`,
`MaxForms`, `MaxOrders`, `MaxOthers`, `MaxFaults`, `MaxEvents` (orders); `MaxForms`, `MaxOthers`,
`MaxFaults`, `MaxLoads`, `MaxEvents` (inventory); `MaxTime`, `MaxRequests`, `MaxFaults` (auth). `PageSize`,
`MaxSessionPages` and `MaxChecks` are the code's own parameters, smaller.

### Fairness

- `bridge`: the clock runs; the timer of a serving process fires and a
  write tried again and again succeeds (strong fairness of `Sweep`); a process
  that is closing releases its lock (`vendure-task-service.mjs` 65–73). That the service
  runs at all is the operators' doing: a process that needs recovery answers 503 and its timer
  does nothing (`loopback-bridge.mjs` 248, 392, 410) until somebody ends it, and nothing but
  they starts one or removes a lock that a dead process left. `EveryTaskSettles` says so in its
  antecedent (`ServiceComesBack`: again and again a process serves), not as fairness. Neither
  shop nor worker is assumed to do anything. With two processes the property is not claimed: a
  process left over from before a takeover may serve old memory without ever committing.
- `codes`: a call goes on, an import that was sent arrives, and an
  administrator reconciles an application that is not issued yet.
- `worker`: both servers answer, the worker goes on, time passes.
- `sync`: a round goes on once begun, the timer (`server/preview.mjs` 516–520)
  now and then finds no other round under way, time passes.
- `tab`: requests are answered, the stream is opened again and pushes, editing ends.
  Nobody has to return to the page: after a failed refresh the code only promises
  to try again when the user does something, so `CatchesUp` asks that the notice
  was shown and the document is still pending.
- `auth`: a page whose stream is down opens it again, an open stream beats
  (`server/change-sync.mjs` 60–82), and a change that holds the lock writes and unlocks.
  Nobody has to log in, log out or change anything. A page in a hidden tab opens no stream
  (`frontend/change-sync.js:96`): for it `RevokedPagesLeave` holds from when it is looked at.

### Findings

- **sync_starves.** `recharge-order-sync.mjs` 188 and 198 pass over a job without a
  success in its task log (`continue`) without recording `checkedAt`. Such jobs sort
  before all checked ones in every round, and `maxChecks` (six) of them keep every
  other job from being read back. `README.md:36` promises a background check of
  everything since the synchronisation was enabled.
- **tab_opens.** A page's first read is answered, another tab commits, and the first
  snapshot reaches the tab before that answer. The snapshot publishes nothing (nothing
  observed, nothing announced before: `local-data.js:40`). When the answer arrives
  `observeResult` publishes the document, but the flush runs while the load is still
  `inventoryLoad` (`inventory-prototype.js:138`) or `commerceLoad`
  (`commerce-prototype.js:240`), waits for the answer just received and ends with
  nothing pending. The list stays at the old version until the next commit.
  A query cache cleared by a 403 before the first snapshot leads to the same state,
  which is why the run `tab` starts after the first snapshot.

### Where page and server, or code and docs, differ

Met while modelling and named in the modules, none of them a run of its own:

- `reversalEditor` offers to undo a correction that made a payment a bank payment;
  `local-business.mjs` 1277–1280 always refuses it, as 1239–1246 refuses undoing one of the
  actual cost. `UndoesBankPayment` names the case and `PageAgreesWithServer` leaves it aside.
- The page lets staff withdraw the receipt, or change the payment, of an order that has
  refunds; the server refuses (`CorrectsRefunded`).
- A form for a new order has no version. When the answer to it is lost, the page keeps the
  draft and shows a notice (`commerce-prototype.js` 346–366); after the reload it asks for, the
  form can be submitted again and draws another number (3626). If the first request was
  served after all there are two orders, and an Apple ID is charged for each, where
  `docs/CLOSED_LOOP_ARCHITECTURE.md:89` says that repeating a submission deducts nothing again
  (重复提交不重复扣). `OneEffectPerForm` states this exception: such a form takes effect as
  often as it made an order of its own; every other kind of form once.
- A registration whose rows were replaced by a refresh under its dialog leaves a
  pending claim the mailbox does not name, and registering again makes a second
  one (`inventory-prototype.js:3755`; `docs/CLOSED_LOOP_ARCHITECTURE.md:68` allows one).
- A crash between making and removing the lock file (`local-auth.mjs` 414–433) leaves
  it there, and every later change of an account is refused.
- A page whose stream opens again under another employee's cookie of the same
  browser keeps showing the first one (`frontend/change-sync.js` 97–110), against
  `docs/GLOBAL_LOADING_LIFECYCLE_20261107.md` 22–23. `RevokedPagesLeave` is therefore checked
  with every page in a browser of its own.

- The answer to one's own reset goes into the page's cache as fresh
  (`apple-relay-prototype.js` 1829–1830, 452–455, `local-data.js` 92–118), even when a later
  reset by another administrator was announced while it was on its way. Codes read
  are treated otherwise: an announcement makes the cache drop what it waits for. The
  cell keeps the old code until the next announcement, write or refresh. `CodesShownAreInForce`
  leaves the case aside (`overtaken`).
- Codes handed out for a claim are those of the catalog read first (`local-service.mjs` 517–532).
  A claim returned meanwhile is refused; of a code reset meanwhile the buyer gets the earlier
  one, which names nothing any more. `CodesGoWithClaims` allows that and nothing older.

## 5. What is proved

`RechargeBridge_proofs` proves, for every set of processes and codes, every set of
worker results and all lifetimes allowed by the module's assumptions:

| theorem | says |
|---|---|
| `Invariance` | the inductive invariant `IInv` |
| `Typed` | `TypeOK` |
| `CodesNeverTwice` | a code is bound to one task |
| `NeverHandedOutTwice` | an execution code leaves the service once, and what left is on record |
| `EvidenceNeverReused` | one piece of evidence settles one task |
| `OutcomesFit` | confirmed outcomes carry evidence and name the task's job |
| `StaleReadsAreOlder` | a process never shows what the file does not have |
| `FinalTasksStay`, `SnapshotsNeverGoBack` | settled tasks never change; every change raises `updatedAt` |
| `NoRequestTwice` | `RequestsTakeEffectOnce`: a worker's signed request changes the file at most once |
| `AuthorizationsOnlyForQueued` | `SessionsOnlyForQueued`: an authorization is in memory only while its task is queued |

The argument: none of these is inductive by itself. `IInv` joins
- `TasksOK(store.tasks)`: each task is consistent, codes and evidence are unique;
- `CopiesOK`: the same of every process's memory, since a handler computes the next
  row from its copy;
- `Sync`: a serving process at the file's revision has exactly the file's row, and
  the file's tasks have grown (`TasksGrow`) out of what any process remembers. This is
  what turns a successful compare-and-swap into a step of the file, and it is
  needed because a stale process goes on computing with its old copy;
- `HandedOutOnRecord`: each hand-out names a lease the file holds on a task out of the
  queue, so that a task in the queue has never been handed out.

`CommitStep` states once what any commit does to the invariant, `HandlerStep` what a
handler adds; there is one lemma per action and `NextInvariant` puts them together.
`TaskGrowsTwice` and `GrowTwice` make growth transitive. `FinalTasksStay`,
`SnapshotsNeverGoBack` and `NoRequestTwice` are action properties from `IInv`.
`NoRequestTwice` needs more than it (`NoncesOK`): a nonce that took effect is in the
file until its signature has worn out; no process's memory is needed for it. `SessionsOnlyForQueued`
adds `SessionsApart`: each session is of a queued task, in one process
only, because a process that lost the file commits no more.

The second half of the module proves `ServiceKeepsPromise`: `RechargeBridge` implements
`RechargePromise` (`KeepsPromise`) under the mapping `ledgerBar`, `handedBar`. The
invariant is `IInv`; the new part is `OneMove`: a step of the file starts at most one
task, and hands out only that one, since a claim only sends to review besides what it starts.

`RechargeWorker_proofs`, for any codes, time limits, leases and numbers of faults:

| theorem | says |
|---|---|
| `NeverRunTwice` | `OneRunPerCode`: the engine starts one run of a code |
| `OutcomesAreTrue` | `OutcomeIsTheEngines`: an outcome told to the shop is that of the run |
| `OutcomesComeInTime` | `ReportsInTime`: an outcome learned in time is reported within the lease |
| `WorkersServiceKeepsPromise` | `KeepsPromise`: the service as the worker sees it implements `RechargePromise` |

The core is `OneRight`: the right to run a code is a single one; it is with the queue,
with the worker between the claim's answer and the engine's, on its way to the engine after
the worker gave up, or used. `TaskFits`, `MessageFits`, `ReplyFits` and `WorkerFits` say what
a task, what is under way and the worker know of the jobs, and that the worker never
believes in a longer lease than the service does, which `ReportsInTime` needs.

`RechargeCodeRequests_proofs`, for any calls, applications and codes:

| theorem | says |
|---|---|
| `CodesAreWrittenAhead` | `WrittenAhead`: a code the engine holds or may yet get is on record |
| `NothingIsTakenBack` | `NothingTakenBack`: no call undoes what another one wrote |

A call works on rows it loaded, perhaps long ago: `CallFits` says what is true of
such rows (`Follows`: the document has only moved on), and `CurrentFits`, from the
version check, what more is true of a call whose save can still succeed.

`RechargeOrderSync_proofs`, for any jobs, cards and pages: `JobsEnteredOnce`
(`OneOrderPerJob`), `CardsIssuedOnce` (`OneIssueFeePerCard`) and `ProofsStay`
(`NothingForgotten`). `OrdersOK` is inductive, because orders change in two ways only:
one is added for a job or card that has none, or one of them is completed with
what a readback proves, and the fee is decided against all the others at that moment.

`ChangeSync_proofs`, for any scopes, versions and numbers of loads, saves and faults:

| theorem | says |
|---|---|
| `NeverBack` | `ShownNeverGoesBack`: a list never replaces a document by an older one |
| `NothingIsForgotten` | `NewsIsRemembered`: a version announced and not shown is pending or being read |

`Consistent` relates what the tab has announced, observed, pending, loading and
shown, and there is one lemma per operation of `change-sync.js` and
`local-data.js` that it keeps it. Its part `Remembered` is what a test hardly reaches: an answer
on its way with an older version must not clear a pending document, so there is none
unless a flush is on or the tab is blocked. A chunk of several frames is handled by
taking the first frame that breaks `Consistent`. `NothingIsForgotten` has the
hypothesis `~Cold`: of a page just opened it is false (run `tab_opens`, section 4).

`OrderDesk_proofs`, for any Apple IDs, amounts, numbers of forms, orders, colleagues
and lost answers, and openings the desk could have come to. What it claims of states and
steps is in `OrderClaims`, the invariant's parts included:

| theorem | says |
|---|---|
| `TypeCorrect` | `Typed`: documents, copies, forms and requests have their types, and the stored ledger belongs to the stored orders (`LedgerSound`) |
| `MoneyIsAlwaysAccounted` | `MoneyIsAccounted`: an Apple ID holds what was put in by hand less what its orders still cost; each order is allocated what it says was paid, and what came back of it is its received refunds |
| `DeskInvariant` | the inductive invariant `DeskInv` |
| `AFormTakesEffectOnce` | `OneEffectPerForm`: however often a form is sent, lost and sent again, it takes effect once at most; one for a new order, which carries no version, as often as it made an order, each under a number of its own |
| `NothingIsEverLost` | `NothingIsLost`: no save of whole documents drops a correction, a refund, a return or a movement |
| `ThePageAgreesWithTheServer` | `PageAgreesWithServer`: of what a page has checked and sent on the current versions, the server refuses only what it is known to judge alone |

Three arguments meet here. The first is about money. The server's check looks at
movements one by one, at debits per order and Apple ID, and at refunds per
order; that these add up to what a balance means is `SoundIsAccounted`, which groups a
sum by Apple ID and by order. It needs facts about sums over finite sets that no library
theorem states (`SumUnion`, `SumGrouped`): they are proved by taking a smallest set
for which a claim fails. The check alone makes the stored ledger sound, whatever a tab
sends, so nothing is assumed of the page.

The second is about forms, and there the check is not enough: the same adjustment
booked twice is a sound ledger. `InStep` says that a tab's copy, and the base of a request, is
what is stored or has an older version, so a request that passes the version check does to the stored
documents what its form planned (`PlansAreGood`, one lemma per operation of the page). `Placed` keeps forms apart
by their numbers. A form for a new order draws another number for each submission
(`DrawnFor`); `OwnNumbers` says that none of those is of an order there is, nor of another request,
and `NewCounted` that its effects are the orders it made (`EnteredBy`). For all others `SpentForms` says that a form which took effect cannot do so again, because the version it was filled in at, of
its order, refund or Apple ID, has moved on (`SpentNow`) and never goes back (`SpentStays`). For an
Apple ID this is not the page's doing: a wallet's version counts its movements (`WalletsGrow`), and the server
keeps those. Of a refund it holds because a refund registered is never one the
order has already (`RefundIsNew`).

The third compares two programs. The page judges a form on its copies, operation by
operation; the server judges whole documents and knows of no form. `PageInv` adds three
things to `DeskInv`. `Origins`: a request carries what the page's plan makes of two copies,
each as it was stored once, so if its versions are the current ones the copies are what is
stored. `PageSound`: the stored documents are such that a form made on them is accepted. An
order's money holds as it is and as it would be with its last correction taken back
(`OrderSound`), for undoing asks nothing anew of what was refunded or returned since; marks
of undone movements match their opposites (`SelfKept`); and every refund has a number drawn
by a form that took effect (`NumbersDrawn`), so the one a new form draws is free. Then, for
each operation of the page, the server's checks of what it makes: of the ledger (`Keepable`,
in `UndoKeeps`, `AmendKeeps`, `ReceiveKeeps`, `CommitKeeps`, `PrepareKeeps` and what they
make with an order: `NewKeeps`, `CorrectKeeps`, `UndoneKeeps`, `ReversedKeeps`,
`RefundedKeeps`), and of the orders, row by row (`Passes`, in `CorrectPasses`, `UndoPasses`,
`RefundPasses`, `ReturnPasses`, `ReversalPasses`; `OldPasses` and `NewPasses` put the rows
together again). What they leave aside is `LetThrough`, the two cases in which the server is
known to judge alone (section 4). What is stored is sound again (`KeepsSound`), and so the
argument goes round.

`LocalAuth_proofs` proves, for any numbers of employees, processes, pages and
browsers, any lifetime and any bounds:

| theorem | says |
|---|---|
| `Typed` | `TypeOK` |
| `NoSessionOutlivesItsRights` | `SessionsAreCurrent`: a session that still counts was opened with the password and under the role its employee has now |
| `TheFileIsReadable` | `FileIsValid`: one active administrator, no address twice |
| `NoChangeIsLost` | `EveryChangeIsCounted`: a step that changes the file changes one employee as the file has it |

`Inv` adds to these what makes them inductive: `Alone` (one request between locking
and unlocking), `TrueSession` (a session's version and role are those of an account that
has not changed since), and, for each request under way, `InOrder`: what a log-in
remembers is what the account was (`TrueLogin`), what a change read under the lock is
still what the file has (`TrueCopy`), and it holds the lock (`HoldsLock`).

`RelayDesk_proofs` proves, for any main mailboxes and hidden addresses, and openings in
which rows and mail service agree (`AddressesAssumption`, `OpeningsAssumption`):

| theorem | says |
|---|---|
| `RowsKeepTheirAddresses` | `BindingsHold`: a row is bound to its own address, there outside and under the mailbox of its main row |
| `MailsGoToTheirCodes` | `AnswersBelongToTheirCodes`: public mails are given out under a code that named the mailbox while they were read |
| `ReviewsHeeded` | `ReviewsAreHeeded`: a code is reset, a mail assigned, from what the review showed |
| `CodesGivenWithClaims` | `CodesGoWithClaims`: a code handed out is one its row had while the request was served, and the row carries the claim in the step that answers, though the code was looked up before |
| `CodesInForce` | `CodesShownAreInForce`: a page at rest shows the code in force as far as the log knows it, and so does the cell next to the result of a reset made on it |

`IInv` is about the two databases and about what requests, answers and the page remember of
them. Every step of the rows keeps each row's address and main mailbox, and a row once bound
stays bound (`Before`), so whatever was read stays true of the rows where it matters (`Snapshot`):
that is why an administrator's old form, or a request that waited, cannot bind a row to another's address. Orders under
way fit their request (`OrdersFit`, `RegisterFits`, `SaveMainFits`): a row is bound after its
address was seen or made outside. At most one confirmed change per target is
outstanding and one that arrives late, of that address or of the mail, marks it stale (`Overtakes`), which makes `Heeded` inductive; a
code replaced never comes back, since codes are numbers that only grow, so that the second look of a public
query finds out (`PublicFits`); a request for codes holds a catalog of codes that lie between those in force when it
came and those in force now (`LookedUp`), so that its answer does; and its number is no other
request's and not answered yet (`RepliesOK`).
`ServiceOK` is proved action by action, then `DeskOK` for the page.

What the page shows has an invariant of its own, `CodesOK`, proved on top of `IInv`. Codes only
rise and the log is behind them (`LogOK`), so a value shown is judged by two bounds: it was the
row's code once and is not older than what the drawer shows for the row (`Sound`), and it is not older than
what the log knows unless the tab has still to be told (`Timely`). Every value the cache holds is both, or
is marked as overtaken (`EntryOK`); so is every answer that will count, which is why a request
waited for must be one for this row's code and its number no other's (`PendingOK`); a cell shows a value
only where nothing is waited for (`CellOK`). A step of the service brings new
requests, answers to requests it had and higher codes (`Follows`); a step of the page either leaves
cells and cache alone but for forgetting (`CodesStay`), or fills them (`LoadsCodes`). An
announcement makes values untimely and forgets them in the same step, and this is
where the proof would fail if the cache were kept.

Only model-checked: all liveness, which under fairness is outside the proof system; every
property of `InventoryDesk`; and the parts of the type invariants that no proof needs
(`TypeOK` of `RechargeOrderSync` and `ChangeSync` as they stand). `EvidenceSettlesOne` and
`OneTaskPerCode` are only proved: a second confirmed result needs more requests than the
runs have.

## 6. What is left out, and why

- Task service: the read-only receipts of the earlier shop, the variant without a
  store, formats, signatures and credentials (a request is either well signed or
  refused), the health check. A code that is unknown, disabled or not served by a
  process is one outside its `Registries`.
- Worker: the engine's import is taken to be idempotent for an execution code as
  the worker relies on; the engine's messages are stages.
- Code requests: the list endpoints, names and notes; one batch of two codes in `codes`.
- Order synchronisation: what exactly a receipt must contain, exchange rates, receipts
  that contradict an order's address or plan, the preview (it changes nothing),
  choosing several jobs by hand, jobs created before but ended after the start.
- Orders: customers, plans, costs and exchange rates, cards, renewals' dates.
- Stock: editing, undoing, deleting and importing, table settings,
  who is credited with what.
- Accounts: names, file modes and cookies' attributes.
- Apple relay: importing chosen addresses with the main mailboxes, history previews,
  connection tests and plain synchronisations (they change nothing here), several
  main mailboxes, limits on attempts, the public page's own form, which mails a list
  contains (one mail, filed under one address). Reading inventory and status again and
  drawing are one step (`TakeUp`, `HearSaved`); sending and arriving are one step. Codes
  are unique numbers.
- Change notification: the overview page, the other scopes, saves of several
  documents, sessions that end, the query cache and its generations, a snapshot
  of a document that the first read will bring. An error page after a lost save
  (`localPhase` "error") is not told apart from the content it hides.
- The parts marked not modelled in `PROJECT.json`: those planned in section 2, and
  those that are file, network or browser I/O, decimal arithmetic or rendering.
