# A formal model of CargoGrid's jobs, telemetry and ledger postings

CargoGrid is a multi-tenant logistics platform: a Next.js application, some 550
PostgreSQL migrations whose PL/pgSQL routines hold the business state, worker
processes that lease background jobs from the database, and a TCP gateway that
takes telemetry from GPS trackers. This directory holds TLA+ modules for the
parts whose correctness depends on how concurrent actors interleave, the TLC
configurations that check them, and TLAPS proofs about them.

Paths below are relative to the repository; `M/` stands for
`supabase/migrations/`.

## 1. Inventory

### Parts that are modelled

**Background job queue** (`M/20260719170000`, `M/20260719180000`,
`M/20260816000000`, `M/20260907190000`). *State:* the rows of `app.jobs`:
status, attempts, `locked_by`, `locked_until`, `next_attempt_at`.
*Operations:* `enqueue_job`, `claim_next_job`, `complete_job`, `heartbeat_job`,
`record_job_failure`, `cancel_import_export_job`,
`acknowledge_job_cancellation`, `requeue_dead_letter_job`. *Hard:* only the
claim locks the row it decides on; every other routine decides on an unlocked
read and updates by `job_id` alone; workers die, or outlive their leases.
*Correct means:* no job is lost to the claim query, none is executed beyond its
retry budget or by two workers at once, terminal states are final, and every
job is settled.

**Webhook delivery** (`lib/webhooks/process-webhook-delivery-job.server.ts`,
`scripts/jobs/webhook-delivery-worker.ts`, `M/20260827000000`,
`M/20260918010000`, `M/20260903123000`, `M/20260804040000`). *State:* a
delivery with attempts and a status, its endpoint with a failure counter, and
the jobs that make the attempts. *Operations:* queue, test send, replay, the
worker's claim / read / POST / report to the delivery / report to the job,
disable and re-enable. *Hard:* two retry records in two tables, written by
different transactions, with a process and an HTTP call in between. *Correct
means:* delivered is only what the endpoint accepted, what is terminal stays
so, a delivery that is owed has somebody to make the next attempt.

**GPS gateway, telemetry buffer** (`services/gps-gateway/src/buffer.ts`,
`server.ts`). *State:* an append-only file, its quarantine, a re-entrance
guard, and what each device has been told. *Operations:* live ingest, `enqueue`,
`flush`, `quarantine`, `writePending`. *Hard:* a connection appends between any
two awaits of a flush pass; a crash tears a line. *Correct means:* an
acknowledged batch is never destroyed, and the queue is delivered in order.

**GPS gateway, TCP listener** (`services/gps-gateway/src/server.ts`). *State:*
per connection a phase, an accumulator and a chain of drains; the set of active
IMEIs. *Operations:* the socket's data, timeout and close events, the drain's
loop with its two awaits. *Hard:* the events run while a drain awaits a reply.
*Correct means:* one session per IMEI, no bytes lost, every claim released.

**Vehicle position arbitration** (`M/20260901150000`, `M/20260729390000`).
*State:* the canonical events of a vehicle, its current position, the switches
between sources, what each source has been seen to report, the ranks of the
sources. *Operations:* a report is judged and perhaps projected; a tenant ranks
or disables a source. *Hard:* reports arrive late, again, and from clocks that
disagree; transactions queue up at an advisory lock with a `now()` from before
the wait. *Correct means:* the position follows event time, a report counts
once, sources do not alternate faster than the hysteresis.

**File upload and malware scan** (`lib/malware-scan/`,
`scripts/jobs/malware-scan-worker.ts`, `M/20260719140000`, `M/20260831130000`). *State:* the file's
row and its verdict, the bytes in the bucket, the scan job, the worker between
two RPCs. *Operations:* initiate, store, compensate, enqueue, scan, record the
verdict, complete, authorise an access, delete. *Hard:* a request and a worker
die between any two steps; the verdict is guarded by an unlocked read, and again
by a trigger. *Correct means:* nobody but the uploader gets bytes that no scan found harmless, a
verdict stands, a complete job has one, an enqueued file gets one.

**Partner sync workers** (`lib/external-integrations/`,
`lib/logistics-partners/`, `lib/finance-integrations/`, their workers,
`M/20260805070000`, `M/20260811000000`). *State:* the job, the rest of the
response a worker still has to record, the rows per item. *Operations:* trigger,
poll, record or import, complete or fail. *Hard:* a loop of RPCs is not a
transaction, and is executed again, or twice at a time. *Correct means:*
complete is recorded, an event has one row, and a failed poll or a malformed
item does not block the queue.

**Journals, posting and period locks** (`M/20260729170000`, `M/20260729210000`
and the hardenings in `M/20260902100000`, `M/20260903132000`,
`M/20260907120000`). *State:* journals, the number counter of each company, the
fiscal period, its locks: one row per scope of the company and of the tenant.
*Operations:* draft, submit, discard,
approve, post; the system and the historical journal; soft close, close,
reopen; lock, request and approve a reopening. *Hard:* a posting is a
transaction of several statements: it locks its row and the counter but not
what it decides on. *Correct means:* numbers unique and accounted for, the
preparer neither approves nor posts, nothing is posted behind a lock that the
check could see.

**Supervisor** (`scripts/jobs/` and `M/20260903170000`). It polls without end
and restarts its lanes; it appears as the fairness and the crashes of the job
modules. `run_due_jobs` is not modelled yet.

### How they interact

The webhook worker is a client of the job queue: it claims a job with
`claim_next_job`, and reports to the delivery and then to the job; so are the
scan worker and the sync workers. In TLA+ `JobQueue`, `WebhookDelivery`,
`FileScan` and `PartnerSync` take every row they write from `JobRow`. The
listener hands a decoded packet to the ingest and, if that throws, to the
buffer; `GpsGateway` abstracts from what becomes of the packet ("acknowledged"
or "processing error"), `TelemetryBuffer` from the connection. What the ingest
stores is handed to the arbitration, in the order of its arrival: since the
gateway's live path and its buffer overtake each other, that order means
nothing, and `VehiclePosition` takes every order.

### Parts that are not modelled

| Part | State and operations | What would make it correct | Why not |
|---|---|---|---|
| `run_due_jobs` | claims and settles a batch in one transaction | a claim that raises must not undo settled jobs unnoticed | next |
| Notification worker | claim, send, report | as for webhooks | the shape of `WebhookDelivery` |
| Event outbox | append an event, dispatch it as a job, mark failures | every event dispatched, once per consumer | next |
| GPS device ingest | reports deduplicated by device, time and type | redelivery has no effect | next |
| Inventory ledger and reservations | balances, movements, reservations | stock on hand covers what is reserved | next |
| Loyalty ledger and redemptions | points, holds, redemptions, rewards | no point spent twice or under a hold | next |
| Finance receipts and subledgers | allocations against open amounts | amounts conserved | after the ledgers |
| Approval engine | requests, steps, decisions, delegation | maker and checker differ; a request is decided once | next |
| Numbering engine | counters per series | no number twice | the counter of journals is in `FinancePosting` |
| Tenant task scheduler | due tasks, run one by one | an occurrence runs once; a failing task stops no other | next |
| Warehouse, shipment, HR, procurement, commercial domains | status machines, one transaction per call | as the engines they use | after those |
| Codec, health endpoint, logger | byte layout and formatting | | data, no control |
| Login sessions, authority checks | predicates over a session | | taken as passed |
| AI, OCR and maps clients | stateless calls | | no protocol state |
| Web application | rendering, form actions | | no state of its own |

Most of the repository's TypeScript is of the last kind: contracts, form actions
and panels that call one routine each. The state and the concurrency are in the
PL/pgSQL of the migrations, in the workers and in the gateway, and that is where
the modules are; by lines of TypeScript they cover little of the whole and could
not cover much more.

`PROJECT.json` names the source files of each part, and lists the hazards of
the code at the line where each one bites, with the properties that cover it.

## 2. Modules

### JobRow and JobQueue

`JobRow` is one row of `app.jobs` and, as functions of a row, what each routine
writes into it. Time is reduced to the two comparisons with `now()` the code
makes: a lease is `none`, `live` or `lapsed`, a retry is `due` or not.

`JobQueue` has the table (`jobs`), the transactions (`call[a]`: what actor `a`
has read and is about to write), the workers' executions (`work`, `leaseUp`)
and the history `runs`. `claim_next_job` selects `FOR UPDATE SKIP LOCKED` and is
one step, its `CHECK` on attempts included: a claim that would break it raises
(`claim_next_job_raises`) and holds its row lock until it rolls back. Every
other routine is a `..._reads` step and a `..._writes` step, between which
anything may commit, unless `Overlap` is `FALSE`. Leases lapse, backoffs elapse
and workers crash on their own.

### WebhookDelivery

One endpoint, its deliveries, and job `<<d, n>>` for the n-th replay of delivery
`d`. Each row of `jobs` has a budget of its own, so the module instantiates
`JobRow` with the budget as a parameter, `Framework(n)`. A worker walks through
`read`, `post`, `report_success` or `report_failure`, `complete` or `fail`; each
is one RPC and one step, and it can die between any two. An RPC that raises ends
the worker's run; `record_job_failure` raises on a count that would break
`jobs_attempts_check`.

### TelemetryBuffer

`custody[b]` is where the gateway stands with batch `b`; `file` is the sequence
of what successive appends left, each whole, without its newline, or torn; a
chunk is `Intact` if `parse()` finds a line of its own in it. A flush pass is a
record with its snapshot and its place in it, and moves from one `await` to the
next: `flush`, `quarantine`, the ingest loop (`flush_ingests`,
`flush_dead_letters`, `flush_halts`, `flush_loop_ends`), `writePending_reads`,
`writePending_renames`. Several timer ticks (`Passes`) compete for the guard
`flushing`. `AppendsInWindow` says whether an append may land between the
rewrite's read and its rename; nothing in the code prevents it.

### GpsGateway

One action per socket event and per way a drain can continue after an await; a
message is one of `imei`, `packet`, `malformed`, and a chunk carries one or two.
`drain[c]` is the await the drain is at, `queued[c]` the drains chained behind
it. The close event is an action of its own, later than the destruction of the
socket.

### VehiclePosition

One vehicle. `arbitrate` is the whole of
`arbitrate_and_project_vehicle_position`: `Objection` is the chain of reasons
for which a report does not count, `Outcome` adds the decision on a change of
source, `Project` and `Observe` are what is written. Transactions of a vehicle
are serialised by its advisory lock, so the arbitration is one step; what the
wait leaves behind is `began`, the `now()` of the transaction, which is up to
`MaxWait` older than the clock. Places are points on a line, ranks are numbers
(0 for a disabled source), event times range to past the limit on the future.

### FileScan

Per file a `request` (the web request and how far it has come), the bucket
(`stored`), the verdict (`scan`) and the job; per worker the RPC it is about to
make. Bytes are harmless, harmful or unscannable, which decides what the scan
may answer (`Answers`). `recordFileScanResult` is the unlocked read with its
guards, `recordFileScanResult_writes` the update with the trigger that fires
before it (`enforce_file_scan_resolution_invariant`, on the row as it then is):
another worker may come in between, and then the trigger raises. The history
`served` says who got bytes.

### PartnerSync

One connection of one of three `kind`s. The partner publishes items in order, a
poll returns a window of them, an item is good, malformed (the worker skips it),
refused (the RPC raises) or null (reading its fields throws); a whole answer may
be null too. What throws or raises in a loop, and a null answer, ends the
worker's run with the job leased (`poll_throws`, `record_throws`,
`record_raises`); what fails inside a `try` is reported (`poll_fails`,
`import_raises`). An RPC that fails for its connection during a poll or a report
is a worker's death (`mishaps`). `left` is the rest of a worker's loop. `owed`,
`vouched` and `nulled` are histories: what a response obliges its worker to
record, what the completed jobs had been obliged to, and the jobs of which a poll
has been answered with null.

### FinancePosting

Journals of three origins, their companies, one fiscal period per company. A
posting is a record `tx[t]` that moves through `resolve`, `assert`, `number` and
`write`, one statement each: the manual journal's row is locked from the first
(`RowFree`), the counter's from `number` on (`CounterFree`), the period and its
locks never. `aborts` undoes it at any point. `now()` is the time the
transaction began, so a reopen window that ended since still counts for it
(`early`). `overtaken` is history: the period was closed or locked after the
posting's check of it. A period has the lock rows of its company and the
tenant's (`company_id` null), per scope; the check goes through all of them
(`RowsOf`).

### Ledger

What the callers of the posting functions may count on, as an abstract
specification: no sessions, no locks, no aborts, and a posting is one step that
takes the next number of the journal's company. `FinancePosting` implements it
(`PostsAtOnce`): the counter of the abstract ledger is the counter as other
transactions see it (`Committed`), which is one less than the row while a
posting that has taken a number is under way; the other variables are the same.
The statements before the number, the number itself, an abort and everything
about periods and locks are steps that the ledger does not see; the last write
is the posting; the return of a source that has been posted meanwhile costs a
number (`PostAgain`).

### MC modules and proofs

Each module `X` but `JobRow` and `Ledger` has an `XMC` that gives TLC its
instance and an `XProofs` with its theorems.

Definitions named `Something_with_a_fault`, such as
`Claimable_ignores_lease`, are mutants: the faulty form of the definition that
follows them. No action uses them; each one shows that a property would fail if
the code had that fault.

## 3. Runs

Passing runs:

| Run | Instance | Shows |
|---|---|---|
| JobQueueOverlap | 2 jobs, 2 workers, 1 user, 2 attempts; 1 lapse, 1 crash, 1 requeue; transactions overlap | `TypeOK`; a job in progress always has an owner and a deadline (`LeasedRowIsReclaimable`); a pending job has an attempt left and a dead letter none (`AttemptsMatchStatus`) |
| JobQueueSerial | the same, 2 lapses, no overlap | executions stay within the budget (`RetryBudget`), `TerminalIsFinal` |
| JobQueueFair | the same, no lapse or crash, overlap, fairness | `ExclusiveExecution`, `EveryJobSettles` |
| WebhookDeliveryRetries | 1 delivery, 2 workers, 2 attempts, 2 replays, 1 death or overrun, fairness | the two retry records stay together while nobody dies (`PendingHasJobUndisturbed`), `DeliveredWasAccepted`, `OneDispatcher`, `TerminalIsFinal`, `DeliverySettles` |
| TelemetryBufferCustody | 2 batches of one device, 2 timers, 1 crash, 1 disk error, 1 outage, no append in the window, fairness | `NoAckedBatchLost`, `InEnqueueOrder`, `DeliveredOnce`, `AckedIsAnswered` |
| VehiclePositionReports | 2 sources, 3 reports each of which 3 arrive, 2 places, ranks 1 to 2, clock 0 to 1 with waits and future limit of 1 | `CurrentIsNewestCounted`, `OnePositionPerTime`, `SwitchesExplainSource`, `NoOscillation` |
| FileScanUploads | 1 file of each content, 2 workers, 3 attempts, 3 deaths or overruns, fairness | `CompletedIsResolved`, `ServedIsHarmless`, `VerdictStands`, `EnqueuedIsScanned` |
| PartnerSyncPolls | 1 job of each kind, 2 workers, 2 attempts, 3 items of each quality, up to 2 of them not good, cap 2, 1 death or overrun, fairness | `CompletedIsRecorded`, `RecordedOnce`, `BlockedByThrowsOnly`, `TriggeredIsSettled` |
| FinancePostingPeriods | 1 journal of each origin, 2 companies (1 of them governed), 2 users, 2 sessions, scopes `all` and `gl`, a lock row of the company's and one of the tenant's | `NumbersNameOnePosting`, `NumbersAreAccountedFor`, `MakerIsNotChecker`, `GuardedPostings`; postings happen at once (`PostsAtOnce`) |
| GpsGatewaySessions | 2 connections, 2 IMEIs, up to 3 messages each, capacity 2, fairness | `OneSessionPerImei`, `EveryMessageAccountedFor`, `DrainsToEmpty` |

Runs that find the code at odds with what its comments say (each is a finding of
`PROJECT.json`, with the lines):

| Run | Violates | What happens |
|---|---|---|
| JobQueueStaleFailure | `ExclusiveExecution` | `record_job_failure` asks for no lease: a worker that overran its lease releases the job under its successor, and two workers with live leases execute it. |
| TelemetryBufferWindow | `NoAckedBatchLost` | A batch appended between the rewrite's read and its rename is overwritten, after its acknowledgement. No failure is needed. |

### Bounds

Each bound is a constant with a guard: `MaxLapses`, `MaxCrashes`, `MaxRequeues`,
`MaxReplays`, `MaxMishaps`, `MaxFlaws`, `MaxDiskErrors`, `MaxOutages`,
`MaxChunks`. `RunsCap`
stops the history `runs` from counting past the values its invariant tells
apart. Two actors are enough for every race listed, since each is between a
stale reader and one other writer; two jobs are needed for one to block the
other, two attempts for a failure that is not the last, two batches for an
order, two passes for re-entrance. Unbounded counts are the business of the
proofs.

`VehiclePositionReports` has three events because a change of source, a
suppressed change and a late report make three; a clock of two instants and
waits of one let a transaction that began first commit last; the two places are
just too far apart for one unit of time. `FileScanUploads` has one file, since
files meet only in the claims, and three mishaps, so that three attempts can all
be lost. `PartnerSyncPolls` has three items and a cap of two, so that a response
can exceed the cap and have a bad item on either side of a good one, or two bad
ones of different kinds (`MaxFlaws`).
`FinancePostingPeriods` has one journal of each origin and two sessions: two
sessions race for one journal, for one counter, or for one number from two
counters; only one company's period moves (`Governed`), the other is the bystander, and
the manual journal is of the former (`ManualIsGoverned`). Two lock rows
(`CompanyAndTenant`), the company's of one scope and the tenant's of all, are each
in its own state when a posting checks them.

`JobQueueOverlap` uses symmetry of workers and users and a view that
drops the history; `VehiclePositionReports` and `FinancePostingPeriods` use
symmetry, of the sources and of users and sessions. All three check safety only;
no run with a liveness property has symmetry or a view.

Runs in which the system may really stop (all jobs settled, all bounds spent)
turn the deadlock check off: termination is legal in every module.

### Fairness

* Workers (`JobQueue`, `WebhookDelivery`, `FileScan`, `PartnerSync`): the supervisor's loop polls without
  end and survives the errors of a lane; a handler returns because its HTTP call
  or its scan has a timeout; every RPC returns. Finishing a job is strongly
  fair in `JobQueue` because a heartbeat may be in progress each time, without
  ever being in progress for ever.
* Time: backoffs elapse, and the lease of a worker that is gone lapses. A lease
  under a live worker never has to.
* Gateway: the flush timer ticks, RPCs and file operations end, drains resume.
* Nothing forces an operator, a user, a request, a crash, a failure, an outage, a
  socket event or what a scanner or a partner answers. `VehiclePosition` and
  `FinancePosting` state no fairness: reports and postings are up to their senders.

## 4. Proofs

The theorems hold for every value of the constants; the assumptions are the
named `ASSUME`s of the modules, and those said here.

| Theorem | Statement | Argument |
|---|---|---|
| `JobQueueProofs!TypeCorrect` | `Spec => []TypeOK` | each routine's row operator maps rows to rows; the claim needs `jobs_attempts_check` |
| `JobQueueProofs!Reclaimable` | `Spec => []LeasedRowIsReclaimable` | `RowInv`: every row is a `GoodRow`, which relates status, attempts and lease |
| `JobQueueProofs!AttemptsCorrect` | `Spec => []AttemptsMatchStatus` | the same invariant: a write with a stale count still decides pending or dead letter from the count it writes |
| `JobQueueProofs!Exclusion` | `Spec => []ExclusiveExecution`, if no lease lapses and there is at most one user | `ExclusionInv` |
| `JobQueueProofs!BudgetHonoured` | `Spec /\ [][~LosesAnAttempt]_vars => []RetryBudget` | `AllPaid` |
| `JobQueueProofs!FinalStatus` | `Spec /\ [][~OverwritesSettled]_vars => TerminalIsFinal` | `CallsAreEntitled` |
| `WebhookDeliveryProofs!WebhookTypeCorrect` | `Spec => []TypeOK` | `TypeInv` |
| `WebhookDeliveryProofs!Accepted` | `Spec => []DeliveredWasAccepted` | a worker about to report a success reports on an accepted delivery |
| `WebhookDeliveryProofs!Settled` | `Spec => TerminalIsFinal` | attempts are refused for terminal deliveries; a replay's budget exceeds the attempts used |
| `WebhookDeliveryProofs!OwedHasJob` | `Spec => []PendingHasJobUndisturbed` | `AlignedInv` |
| `WebhookDeliveryProofs!OneDispatcherAtATime` | `Spec => []OneDispatcher` | `AlignedInv` |
| `TelemetryBufferProofs!TypeCorrect` | `Spec => []TypeOK` | with `AtMostOneBusy`: the guard admits one pass |
| `TelemetryBufferProofs!Custodian` | `Spec => []NoAckedBatchLost`, if no append lands in the window | `CustodyInv` |
| `TelemetryBufferProofs!FlushedInOrder` | `Spec => []InEnqueueOrder` | `OrderInv` |
| `TelemetryBufferProofs!IngestedOnce` | `Spec => []DeliveredOnce` | `OnceInv`, on top of `OrderInv` |
| `GpsGatewayProofs!TypeCorrect` | `Spec => []TypeOK` | each conjunct is inductive; a drain only shortens the accumulator |
| `GpsGatewayProofs!OneSession` | `Spec => []OneSessionPerImei` | `SessionInv` |
| `GpsGatewayProofs!NothingDropped` | `Spec => []EveryMessageAccountedFor` | its own induction, with the types |
| `VehiclePositionProofs!VehicleTypeCorrect` | `Spec => []TypeOK` | with the rest of `IInv` |
| `VehiclePositionProofs!VehicleCurrentIsNewest` | `Spec => []CurrentIsNewestCounted` | what counts is newer than the current position (`AppliedIsNewer`) |
| `VehiclePositionProofs!VehicleOnePositionPerTime` | `Spec => []OnePositionPerTime` | from the former, since the newest time is then a new one |
| `VehiclePositionProofs!VehicleSwitchesExplainSource` | `Spec => []SwitchesExplainSource` | `ProjectStep` |
| `VehiclePositionProofs!VehicleDoesNotOscillate` | `Spec => []NoOscillation` | the hysteresis is asked of every earlier switch, by the same clock reading that is recorded |
| `FileScanProofs!ScanTypeCorrect` | `Spec => []TypeOK` | its own induction |
| `FileScanProofs!CompletedScanIsResolved` | `Spec => []CompletedIsResolved` | `IInv` |
| `FileScanProofs!ServedFilesAreHarmless` | `Spec => []ServedIsHarmless` | `IInv` |
| `FileScanProofs!VerdictsStand` | `Spec => VerdictStands` | the trigger, on whatever row an overlapping execution left |
| `PartnerSyncProofs!SyncTypeCorrect` | `Spec => []TypeOK` | `IInv` |
| `PartnerSyncProofs!CompletedSyncIsRecorded` | `Spec => []CompletedIsRecorded` | `WorkersKnow`, and that nothing takes a row back |
| `PartnerSyncProofs!RepeatedSyncRecordsOnce` | `Spec => []RecordedOnce` | `IInv`: a recorded item is recognised, whoever recorded it |
| `PartnerSyncProofs!OnlyThrowsBlock` | `Spec => []BlockedByThrowsOnly` | `Attended` |
| `FinancePostingProofs!LedgerTypeCorrect` | `Spec => []TypeOK` | with `CounterHeld`: what an abort restores is a number |
| `FinancePostingProofs!NumbersAreUnique` | `Spec => []NumbersNameOnePosting` | the index refuses a number that is taken |
| `FinancePostingProofs!NumbersHaveNoOtherGap` | `Spec => []NumbersAreAccountedFor` | `CounterHeld` |
| `FinancePostingProofs!FourEyes` | `Spec => []MakerIsNotChecker` | `RowHeld`, `Hands` |
| `FinancePostingProofs!PostingsAreGuarded` | `Spec => GuardedPostings` | `LetPass` |
| `FinancePostingProofs!PostingsStand` | `Spec => PostedStands`: number and poster of a posted journal stand | `RowHeld`: nobody else has the row of a manual journal |
| `FinancePostingProofs!PostingsAreAtomic` | `Spec => PostsAtOnce`, that is `Books!Spec` | one lemma per action: it is a step of `Ledger` or not seen by it |

Why the invariants had to be strengthened:

* *Exclusion.* That two workers do not share a job is not inductive: a write
  that is under way could make the job claimable. `ExclusionInv` adds that an
  open call of a worker is about the job it executes (`CallsAreOwn`), that an
  executed job's row shows it (`OneWorkerEach`), that nothing happens to a dead
  letter between the halves of its requeue (`RequeueIsFresh`), and that no lease
  has lapsed (`NoLapse`). The two hypotheses are needed: `JobQueueStaleFailure`
  drops the first; without the second, two requeues of one dead letter can
  overlap, and the later write resets a job that is already running.
* *Budget.* Transactions overlap as they may. `AllPaid`: every execution is paid
  for by an attempt of its row, but for the last of a job that is over or running.
  Whatever a write lands on, and however stale what it has read, it keeps this,
  with one exception, `LosesAnAttempt`: `record_job_failure` writes the count it
  has read over one that has grown since. Without that step the budget holds; with
  it, it does not (§5).
* *Final status.* A call that has begun was entitled to its write by the status
  it read (`CallsAreEntitled`), which says nothing of the row it will land on. What
  is shown is that `OverwritesSettled`, a write on a row that another transaction
  has settled between the read and the write, is the only way a settled job
  changes: no claim, no elapsing lease and no call that reads a settled job ever
  moves it, the requeue of a dead letter excepted.
* *Accepted.* `AcceptedInv` adds what a worker carries between its RPCs: a
  worker that is not idle has a job (`WorkersHaveJobs`), and one that will
  report a success has seen the delivery accepted (`ReportsAreTrue`).
* *Types of the webhook delivery.* Neither of the two `CHECK`s on attempts holds
  by itself. A delivery that still takes attempts has one left (`AttemptsLeft`);
  the count of a job, whose writes raise rather than break its `CHECK`, stays
  below a budget that may differ from replay to replay (`JobsType`).
* *OwedHasJob, OneDispatcherAtATime.* Two retry counters, in two tables, written
  by two RPCs, are meant to reach their ends together. `AlignedInv` says how, as
  long as no worker has died or overrun its lease: one worker to a job, whose
  lease is live (`OneHolder`); the latest job has the delivery's budget, and is
  pending with no more attempts than the delivery, or in the hands of a worker
  whose next report keeps it so (`Counted`); up to the first replay the counts
  are equal (`CountedOnce`), which makes the first job fail for good when the
  delivery does (`FirstSpent`), so that no two jobs of a delivery run at a time.
  After a replay equality is lost, and `<=` is all that is left.
* *Custodian.* While a pass is under way the file is about to be replaced, so
  what it will be replaced with has to be part of the invariant: the snapshot
  is still a prefix of the file (`SnapshotIsPrefix`), what the pass left behind
  is answered (`PassedIsAnswered`) or quarantined (`CorruptIsQuarantined`), and
  the new content keeps the rest (`NextKeeps`).
* *FlushedInOrder.* A later line is settled only after the earlier ones, in the
  file and in what a pass will replace it with (`Ordered`, `NextOrdered`). For
  that, the lines a pass has behind it are settled (`PassedSettled`), and those
  appended under it are not (`TailUnsettled`).
* *IngestedOnce.* Until something fails (`Calm`) a batch is on its live path or
  in one line of the file, never both (`BatchOnce`), and what a pass has still to
  read, or will leave behind, has not been settled (`PassOnce`). Every failure
  breaks one of these, and with the first the property promises nothing more.
* *OneSession.* `SessionInv` ties sessions to claims: a drain awaits what its
  phase says, a session has claimed its IMEI, claims are recorded in
  `activeImeis`, and no two connections hold the same one.
* *FileScan.* What a worker carries between RPCs has to be true at the next one
  (`WorkersKnow`): a verdict on its way is one the content allows, and who goes
  to complete the job has seen the file resolved. `Fresh`: nothing precedes the
  request. That a verdict stands needs neither the serialisation of executions nor
  the guard of `record_file_scan_result`: the trigger alone is enough.
* *PartnerSync.* `WorkersKnow`: what the worker has behind it in a response is
  recorded, what it has before it is the rest of what it owes, up to the cap and
  without the malformed. `Attended`: as long as nobody died and no item made a
  loop throw (`Trouble`), a job whose polls have not been answered with null is
  `Tended`: it is leased exactly while its worker is at it, and has an attempt
  left when it may run, so that no claim can raise on it.
* *FinancePosting.* The two row locks are the heart of it. `RowHeld`: a manual
  journal in a posting is in one only, stays approved, and is posted by someone
  who did not submit it. `CounterHeld`: one posting of a company holds its
  counter, and what it took is the last number, so that an abort takes back
  exactly that. `LetPass`: what a posting's checks found is still true unless it
  was overtaken, and a window that ended under it overtook it.

* *PostingsAreAtomic.* The implementation needs nothing that `IInv` does not
  say but that a source has no life before its posting and nobody's hands on it
  (`SourcesKept`). `CounterHeld` is what makes `Committed` a mapping: the number
  under way is the last one counted, so that giving it up moves nothing an
  observer sees (`AbortIsHidden`), and writing it moves the counter by one
  (`NumberRevealed`). `RowHeld` is why the abstract guards, which were read in
  the first statement, still hold in the last.

Every safety property of the runs is stated by a theorem. Checked by TLC only:
liveness (`EveryJobSettles`, `DeliverySettles`, `AckedIsAnswered`,
`DrainsToEmpty`, `EnqueuedIsScanned`, `TriggeredIsSettled`), because TLAPS does
not reason about fairness and `ENABLED` here. The types of `VehiclePosition`,
`FileScan` and `FinancePosting`, and `PostedStands`, are proved and not run.

The inductive invariants were checked by TLC before they were proved, the larger
ones on instances beyond those of the runs (`AlignedInv`: three attempts and
three replays of one delivery without a mishap, two attempts of two deliveries).

## 5. What the models leave out, and what was noticed on the way

* `JobQueue` has the jobs of one type, without the import/export steps that
  share the table; authority checks are taken as passed, audit rows and alerts
  are left out. `WebhookDelivery` has one endpoint, and takes each RPC as one
  step: overlap inside the job routines is `JobQueue`'s subject. The operator's
  cancel and requeue of a delivery's job are left out.
* A message of the listener is a token: partial messages and the codec's
  arithmetic are not modelled. A line of the buffer file is one append.
* `VehiclePosition` takes the tenant's policy as constants and leaves out the
  geofence signals. `FileScan` leaves out versions, legal hold and the access
  rules other than the scan's; files meet only in the claims, which it has.
  `PartnerSync` assumes that a bank names the same lines by the same reference,
  and leaves out that identical lines of a statement fall together by their
  hash. `FinancePosting` leaves out the lines of a journal, the edit of a draft
  and the callers of the system posting; a caller with a stale `record_version`
  is refused and changes nothing.

Where the code and its words disagree, seen in the models and without a run of
their own:

* A lease-expiry re-claim counts an attempt and never dead-letters. Once
  `attempts = max_attempts` the next claim breaks `jobs_attempts_check`
  (`M/20260719170000:275`), and a lone worker never gets past the row: the
  counting at `M/20260907190000:93-98` was added so that such a job would not
  "starve the queue behind it". `FileScan` and `PartnerSync` have the same row in
  their liveness properties (`Exhausted`).
* A worker that dies between claim and report costs the job an attempt that the
  webhook delivery does not count (`process-webhook-delivery-job.server.ts:183`):
  the job is dead-lettered first, and the delivery stays pending with no job and
  no replay. `M/20260804040000:22-23` says the two are kept "numerically"
  "ALIGNED"; `PendingHasJobUndisturbed` is what is left of that.
* After a crash tore the last line of the buffer, the next batch is appended to
  it and acknowledged, and the two are quarantined as one corrupt line
  (`buffer.ts:90`; `:49` has it that a quarantined line was lost "before it was
  ever durable").
* A socket that closes while its handshake is being resolved leaves its IMEI
  claimed: the claim (`server.ts:335`) comes after the only event that would
  release it (`:203` says "never a stuck 'already active' entry").
* A rejected report can seed the baseline of the plausibility check: the first
  report of a source is inserted whatever it was judged (`M/20260901150000:1012`);
  `M/20260730430000:22-25` says it "can no longer". A heartbeat with an event
  time in the future stops the check, and a position up to 24 hours ahead is
  current until its time has come.
* A scan whose uploader has left the tenant raises, uses up its attempts and then
  blocks the claims. A file that was stored and could not be queued stays pending.
* The worker of the external sync says "A malformed/unrecognized individual record
  within a batch is skipped, not fatal to the whole batch"
  (`process-external-sync-job.server.ts:12-13`). A record whose RPC raises
  is fatal, uncaught, and so is a record that is null (`:158`), or an answer that
  is (`:153`; the other two workers do the same): the job stays leased, is tried
  again with the same end, and blocks the claims once its attempts are used up.
  `BlockedByThrowsOnly` says that nothing else does. A poll that is executed again
  appends its snapshots again.
* Journal numbers are counted per company (`M/20260729170000:136-149`) and unique
  per tenant (`:93`): a second company's first posting of a year takes a number
  already in use, fails, and rolls its counter back, so that it can never post
  until the companies' counters differ. A system posting that loses a race for
  its source keeps its number, so numbers have gaps.
* The period lock's header (`M/20260729210000:14-30`) has two callers of the
  check; the import of history is a third way into a period, which asks for
  neither the period nor its locks. The check takes no lock: what was let pass
  is posted behind a lock set meanwhile. The approval of a reopening does not
  ask whether the approver is who requested it.
* Under overlap (`Overlap` TRUE in `JobQueueSerial.cfg`) the two properties of that
  run fail, each for the reason its theorem names. Budget: a worker's failure
  report reads the count, its lease lapses, another worker claims the job, and the
  write takes the attempt of that claim back. Final status: a cancel reads a
  running job, the worker completes it, and the cancel's write follows.
* Two overlapping requeues can put a running job back to the queue;
  `complete_job` checks the lease on an unlocked read, so it can complete a job
  that another worker has claimed in between; `record_job_failure` puts a job in
  `cancelling` back to `pending`; a job in `cancelling` waits for an
  acknowledgement that no worker in the repository sends.
  `record_webhook_delivery_attempt` reads the endpoint's failure counter without
  a lock, so two failures may count as one; the model does not split that read
  from its write.

## 6. Plan

Built, in this order: `JobRow` and `JobQueue` (everything asynchronous goes
through it), `TelemetryBuffer` (custody of data the device forgets),
`GpsGateway`, `WebhookDelivery`; then `VehiclePosition` (what becomes of the
telemetry), `FileScan` and `PartnerSync` (the other clients of the queue) and
`FinancePosting` (the ledger).

What would come next, most important first:

1. `InventoryLedger`: movements, reservations and counts of one balance.
   `LoyaltyRedemption`: holds against redemptions under the advisory lock.
   `Approval`: decisions, delegation, maker and checker.
2. `GpsDevice`: the deduplicating ingest, between `TelemetryBuffer` and
   `VehiclePosition`, so that redelivery is shown to have no effect.
3. `JobBatch`: `run_due_jobs` over `JobRow`, one transaction per batch.
   `EventOutbox`: append, dispatch and retry over the same rows.
4. The endpoint's failure counter with its unlocked read, and the job
   operators' calls on a delivery's job.

Theorems to come: every safety property has its theorem; what is left is that
the detailed modules implement what their callers count on, as `FinancePosting`
implements `Ledger`: a queue that hands out each job under a budget
(`JobQueue`), a delivery that is pending, delivered or given up
(`WebhookDelivery`), a first-in, first-out spool (`TelemetryBuffer`).
