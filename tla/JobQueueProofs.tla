--------------------------- MODULE JobQueueProofs ---------------------------
(***************************************************************************)
(* Safety of the job queue for every set of jobs, workers and users: types *)
(* and rows whatever overlaps; one worker to a job as long as no lease     *)
(* lapses.  The budget and the finality of the last status do not hold     *)
(* whatever overlaps, since the routines read without a lock: the last two *)
(* theorems name, for each, the one kind of write that can break it.       *)
(***************************************************************************)
EXTENDS JobQueue, TLAPS

-----------------------------------------------------------------------------
(* What the routines write is a row again, whatever row they write it to.    *)

LEMMA ClaimedRowType ==
    ASSUME NEW row \in Row, NEW w \in Workers, jobs_attempts_check(ClaimedRow(row, w))
    PROVE  ClaimedRow(row, w) \in Row
BY DEF Row, Status, ClaimedRow, jobs_attempts_check

LEMMA FailedRowType ==
    ASSUME NEW row \in Row, NEW n \in 0 .. MaxAttempts, jobs_attempts_check(FailedRow(row, n))
    PROVE  FailedRow(row, n) \in Row
BY DEF Row, Status, FailedRow, jobs_attempts_check

LEMMA NewRowTypes == AbsentRow \in Row /\ EnqueuedRow \in Row
<1>1. 0 \in 0 .. MaxAttempts
  BY AttemptsAssumption
<1> QED
  BY <1>1 DEF Row, Status, AbsentRow, EnqueuedRow

LEMMA OtherRowTypes ==
    ASSUME NEW row \in Row, NEW status \in Status
    PROVE  /\ CompletedRow(row) \in Row
           /\ HeartbeatRow(row) \in Row
           /\ CancelledRow(row, status) \in Row
           /\ AcknowledgedRow(row) \in Row
           /\ RequeuedRow(row) \in Row
<1>1. CompletedRow(row) \in Row
  BY DEF Row, Status, CompletedRow
<1>2. HeartbeatRow(row) \in Row
  BY DEF Row, Status, HeartbeatRow
<1>3. CancelledRow(row, status) \in Row
  BY DEF Row, Status, CancelledRow
<1>4. AcknowledgedRow(row) \in Row
  BY DEF Row, Status, AcknowledgedRow
<1> QED
  BY <1>1, <1>2, <1>3, <1>4, NewRowTypes DEF RequeuedRow

-----------------------------------------------------------------------------
(* Opening and closing a call.                                               *)

LEMMA BeginType ==
    ASSUME TypeOK, NEW a \in Actors, NEW op \in CallOp, NEW j \in Jobs, Begin(a, op, j)
    PROVE  call' \in [Actors -> Call \cup {NoCall}]
<1>1. jobs[j] \in Row
  BY DEF TypeOK
<1>2. [op |-> op, job |-> j, status |-> jobs[j].status, attempts |-> jobs[j].attempts] \in Call
  BY <1>1 DEF Call, Row
<1> QED
  BY <1>2 DEF TypeOK, Begin

LEMMA EndType ==
    ASSUME TypeOK, NEW a \in Actors, End(a)
    PROVE  call' \in [Actors -> Call \cup {NoCall}]
BY DEF TypeOK, End

\* An open call names a job and carries what it read of it.
LEMMA OpenCall ==
    ASSUME TypeOK, NEW a \in Actors, NEW op, Writing(a, op)
    PROVE  /\ call[a].job \in Jobs
           /\ call[a].status \in Status
           /\ call[a].attempts \in 0 .. MaxAttempts
           /\ jobs[call[a].job] \in Row
<1>1. call[a] \in Call
  BY DEF TypeOK, Writing, InCall
<1> QED
  BY <1>1 DEF TypeOK, Call

\* A worker that executes a job executes one of the queue's.
LEMMA WorkIsAJob ==
    ASSUME TypeOK, NEW w \in Workers, work[w] # NoJob
    PROVE  work[w] \in Jobs /\ jobs[work[w]] \in Row /\ w \in Actors
BY DEF TypeOK, Actors

LEMMA LetGoType ==
    ASSUME TypeOK, NEW w \in Workers, LetGo(w)
    PROVE  /\ work' \in [Workers -> Jobs \cup {NoJob}]
           /\ leaseUp' \in [Workers -> BOOLEAN]
BY DEF TypeOK, LetGo

-----------------------------------------------------------------------------
(* Type correctness.                                                         *)

LEMMA TypeInit == Init => TypeOK
<1> SUFFICES ASSUME Init PROVE TypeOK
  OBVIOUS
<1>1. AbsentRow \in Row /\ 0 \in 0 .. RunsCap
  BY NewRowTypes, AttemptsAssumption DEF RunsCap
<1>2. spent \in [lapses : 0 .. MaxLapses, crashes : 0 .. MaxCrashes, requeues : 0 .. MaxRequeues]
  BY BoundsAssumption DEF Init
<1> QED
  BY <1>1, <1>2 DEF Init, TypeOK

LEMMA TypeWorker ==
    ASSUME TypeOK, NEW w \in Workers, WorkerNext(w)
    PROVE  TypeOK'
<1>a. w \in Actors
  BY DEF Actors
<1>1. ASSUME NEW j \in Jobs, claim_next_job(w, j) PROVE TypeOK'
  <2>1. ClaimedRow(jobs[j], w) \in Row
    BY <1>1, ClaimedRowType DEF claim_next_job, TypeOK
  <2>2. runs' \in [Jobs -> 0 .. RunsCap]
    BY <1>1, AttemptsAssumption DEF claim_next_job, TypeOK, RunsCap
  <2> QED
    BY <1>1, <2>1, <2>2 DEF claim_next_job, TypeOK
<1>2. ASSUME NEW j \in Jobs, claim_next_job_raises(w, j) PROVE TypeOK'
  <2>1. call' \in [Actors -> Call \cup {NoCall}]
    BY <1>2, <1>a, BeginType DEF claim_next_job_raises, CallOp
  <2> QED
    BY <1>2, <2>1 DEF claim_next_job_raises, TypeOK
<1>3. CASE claim_next_job_rolls_back(w)
  BY <1>3, <1>a, EndType DEF claim_next_job_rolls_back, TypeOK
<1>4. ASSUME NEW op \in CallOp, ReadLease(w, op) PROVE TypeOK'
  <2>1. call' \in [Actors -> Call \cup {NoCall}]
    BY <1>4, <1>a, WorkIsAJob, BeginType DEF ReadLease
  <2> QED
    BY <1>4, <2>1 DEF ReadLease, TypeOK
<1>5. CASE complete_job_reads(w)
  BY <1>4, <1>5 DEF complete_job_reads, CallOp
<1>6. CASE complete_job_writes(w)
  <2>1. call[w].job \in Jobs /\ CompletedRow(jobs[call[w].job]) \in Row
    BY <1>6, <1>a, OpenCall, OtherRowTypes DEF complete_job_writes
  <2> QED
    BY <1>6, <2>1, <1>a, EndType, LetGoType DEF complete_job_writes, TypeOK
<1>7. CASE complete_job_raises(w)
  BY <1>7, LetGoType DEF complete_job_raises, TypeOK
<1>8. CASE heartbeat_job_reads(w)
  BY <1>4, <1>8 DEF heartbeat_job_reads, CallOp
<1>9. CASE heartbeat_job_writes(w)
  <2>1. call[w].job \in Jobs /\ HeartbeatRow(jobs[call[w].job]) \in Row
    BY <1>9, <1>a, OpenCall, OtherRowTypes DEF heartbeat_job_writes
  <2> QED
    BY <1>9, <2>1, <1>a, EndType DEF heartbeat_job_writes, TypeOK
<1>10. CASE record_job_failure_reads(w)
  <2>1. call' \in [Actors -> Call \cup {NoCall}]
    BY <1>10, <1>a, WorkIsAJob, BeginType DEF record_job_failure_reads, CallOp
  <2> QED
    BY <1>10, <2>1 DEF record_job_failure_reads, TypeOK
<1>11. CASE record_job_failure_writes(w)
  <2> DEFINE row == FailedRow(jobs[call[w].job], call[w].attempts)
  <2>1. call[w].job \in Jobs /\ (jobs_attempts_check(row) => row \in Row)
    BY <1>11, <1>a, OpenCall, FailedRowType DEF record_job_failure_writes
  <2>2. jobs' \in [Jobs -> Row]
    BY <1>11, <2>1 DEF record_job_failure_writes, TypeOK
  <2> QED
    BY <1>11, <2>2, <1>a, EndType, LetGoType DEF record_job_failure_writes, TypeOK
<1>12. CASE record_job_failure_raises(w)
  BY <1>12, LetGoType DEF record_job_failure_raises, TypeOK
<1>13. CASE WorkerCrashes(w)
  <2>1. spent' \in [lapses : 0 .. MaxLapses, crashes : 0 .. MaxCrashes,
                    requeues : 0 .. MaxRequeues]
    BY <1>13, BoundsAssumption DEF WorkerCrashes, TypeOK
  <2> QED
    BY <1>13, <2>1, <1>a, EndType, LetGoType DEF WorkerCrashes, TypeOK
<1> QED
  BY <1>1, <1>2, <1>3, <1>5, <1>6, <1>7, <1>8, <1>9, <1>10, <1>11, <1>12, <1>13
  DEF WorkerNext

LEMMA TypeUser ==
    ASSUME TypeOK, NEW u \in Users, UserNext(u)
    PROVE  TypeOK'
<1>a. u \in Actors
  BY DEF Actors
<1>1. ASSUME NEW j \in Jobs, enqueue_job(u, j) PROVE TypeOK'
  BY <1>1, NewRowTypes DEF enqueue_job, TypeOK
<1>2. ASSUME NEW j \in Jobs, cancel_import_export_job_reads(u, j) PROVE TypeOK'
  BY <1>2, <1>a, BeginType DEF cancel_import_export_job_reads, CallOp, TypeOK
<1>3. CASE cancel_import_export_job_writes(u)
  <2>1. /\ call[u].job \in Jobs
        /\ CancelledRow(jobs[call[u].job], call[u].status) \in Row
    BY <1>3, <1>a, OpenCall, OtherRowTypes DEF cancel_import_export_job_writes
  <2> QED
    BY <1>3, <2>1, <1>a, EndType DEF cancel_import_export_job_writes, TypeOK
<1>4. ASSUME NEW j \in Jobs, acknowledge_job_cancellation_reads(u, j) PROVE TypeOK'
  BY <1>4, <1>a, BeginType DEF acknowledge_job_cancellation_reads, CallOp, TypeOK
<1>5. CASE acknowledge_job_cancellation_writes(u)
  <2>1. call[u].job \in Jobs /\ AcknowledgedRow(jobs[call[u].job]) \in Row
    BY <1>5, <1>a, OpenCall, OtherRowTypes DEF acknowledge_job_cancellation_writes
  <2> QED
    BY <1>5, <2>1, <1>a, EndType DEF acknowledge_job_cancellation_writes, TypeOK
<1>6. ASSUME NEW j \in Jobs, requeue_dead_letter_job_reads(u, j) PROVE TypeOK'
  <2>1. spent' \in [lapses : 0 .. MaxLapses, crashes : 0 .. MaxCrashes,
                    requeues : 0 .. MaxRequeues]
    BY <1>6, BoundsAssumption DEF requeue_dead_letter_job_reads, TypeOK
  <2> QED
    BY <1>6, <2>1, <1>a, BeginType DEF requeue_dead_letter_job_reads, CallOp, TypeOK
<1>7. CASE requeue_dead_letter_job_writes(u)
  <2>1. call[u].job \in Jobs /\ RequeuedRow(jobs[call[u].job]) \in Row
    BY <1>7, <1>a, OpenCall, OtherRowTypes DEF requeue_dead_letter_job_writes
  <2>2. 0 \in 0 .. RunsCap
    BY AttemptsAssumption DEF RunsCap
  <2> QED
    BY <1>7, <2>1, <2>2, <1>a, EndType DEF requeue_dead_letter_job_writes, TypeOK
<1> QED
  BY <1>1, <1>2, <1>3, <1>4, <1>5, <1>6, <1>7 DEF UserNext

LEMMA TypeTime ==
    ASSUME TypeOK, TimeNext
    PROVE  TypeOK'
<1>1. ASSUME NEW j \in Jobs, LeaseExpires(j) PROVE TypeOK'
  <2>1. [jobs[j] EXCEPT !.lease = "lapsed"] \in Row
    BY DEF TypeOK, Row
  <2>2. leaseUp' \in [Workers -> BOOLEAN]
    BY <1>1 DEF LeaseExpires, TypeOK
  <2>3. spent' \in [lapses : 0 .. MaxLapses, crashes : 0 .. MaxCrashes,
                    requeues : 0 .. MaxRequeues]
    BY <1>1, BoundsAssumption DEF LeaseExpires, TypeOK
  <2> QED
    BY <1>1, <2>1, <2>2, <2>3 DEF LeaseExpires, TypeOK
<1>2. ASSUME NEW j \in Jobs, BackoffElapses(j) PROVE TypeOK'
  <2>1. jobs[j] \in Row
    BY DEF TypeOK
  <2>2. [jobs[j] EXCEPT !.due = TRUE] \in Row
    BY <2>1 DEF Row
  <2> QED
    BY <1>2, <2>2 DEF BackoffElapses, TypeOK
<1> QED
  BY <1>1, <1>2 DEF TimeNext

LEMMA TypeStep == TypeOK /\ [Next]_vars => TypeOK'
<1> SUFFICES ASSUME TypeOK, [Next]_vars PROVE TypeOK'
  OBVIOUS
<1>1. CASE Next
  BY <1>1, TypeWorker, TypeUser, TypeTime DEF Next
<1>2. CASE UNCHANGED vars
  BY <1>2 DEF vars, TypeOK
<1> QED
  BY <1>1, <1>2

\* Every row satisfies the table's constraints in every reachable state: no
\* interleaving writes a count that jobs_attempts_check would reject.
THEOREM TypeCorrect == Spec => []TypeOK
BY TypeInit, TypeStep, PTL DEF Spec

-----------------------------------------------------------------------------
(* The two invariants that hold however the calls interleave.  Each is       *)
(* inductive given TypeOK: the stale values a call writes back never leave   *)
(* in_progress without a deadline, nor pending without an attempt.           *)

RowInv == LeasedRowIsReclaimable /\ AttemptsMatchStatus

\* The same, of one row.
GoodRow(row) ==
    /\ row.status = "in_progress" => row.locked_by # NoWorker /\ row.lease # "none"
    /\ row.status = "pending" => row.attempts < MaxAttempts
    /\ row.status = "dead_letter" => row.attempts = MaxAttempts

LEMMA RowInvIsRowwise == RowInv <=> \A j \in Jobs : GoodRow(jobs[j])
BY DEF RowInv, LeasedRowIsReclaimable, AttemptsMatchStatus, GoodRow

LEMMA WrittenRowsAreGood ==
    ASSUME NEW row \in Row, NEW w \in Workers, NEW n \in 0 .. MaxAttempts, NEW status
    PROVE  /\ GoodRow(EnqueuedRow)
           /\ GoodRow(ClaimedRow(row, w))
           /\ GoodRow(CompletedRow(row))
           /\ GoodRow(row) => GoodRow(HeartbeatRow(row))
           /\ jobs_attempts_check(FailedRow(row, n)) => GoodRow(FailedRow(row, n))
           /\ GoodRow(CancelledRow(row, status))
           /\ GoodRow(AcknowledgedRow(row))
           /\ GoodRow(RequeuedRow(row))
<1>1. GoodRow(EnqueuedRow)
  BY AttemptsAssumption DEF GoodRow, EnqueuedRow, AbsentRow
<1>2. GoodRow(ClaimedRow(row, w))
  BY WorkersAssumption DEF GoodRow, ClaimedRow
<1>3. GoodRow(CompletedRow(row))
  BY DEF GoodRow, CompletedRow, Row
<1>4. GoodRow(row) => GoodRow(HeartbeatRow(row))
  BY DEF GoodRow, HeartbeatRow, Row
<1>5. jobs_attempts_check(FailedRow(row, n)) => GoodRow(FailedRow(row, n))
  BY AttemptsAssumption DEF GoodRow, FailedRow, jobs_attempts_check
<1>6. GoodRow(CancelledRow(row, status))
  BY DEF GoodRow, CancelledRow, Row
<1>7. GoodRow(AcknowledgedRow(row))
  BY DEF GoodRow, AcknowledgedRow, Row
<1> QED
  BY <1>1, <1>2, <1>3, <1>4, <1>5, <1>6, <1>7 DEF RequeuedRow

\* An action that only replaces one row by a good one preserves RowInv.
LEMMA GoodUpdate ==
    ASSUME TypeOK, RowInv, NEW j \in Jobs, NEW row, GoodRow(row),
           jobs' = [jobs EXCEPT ![j] = row]
    PROVE  RowInv'
<1>1. \A k \in Jobs : GoodRow(jobs'[k])
  BY RowInvIsRowwise DEF TypeOK
<1> QED
  BY <1>1 DEF RowInv, LeasedRowIsReclaimable, AttemptsMatchStatus, GoodRow

LEMMA UnchangedJobs ==
    ASSUME RowInv, UNCHANGED jobs
    PROVE  RowInv'
BY DEF RowInv, LeasedRowIsReclaimable, AttemptsMatchStatus

LEMMA RowInvWorker ==
    ASSUME TypeOK, RowInv, NEW w \in Workers, WorkerNext(w)
    PROVE  RowInv'
<1>a. w \in Actors /\ \A j \in Jobs : GoodRow(jobs[j]) /\ jobs[j] \in Row
  BY RowInvIsRowwise DEF Actors, TypeOK
<1>1. ASSUME NEW j \in Jobs, claim_next_job(w, j) PROVE RowInv'
  <2>1. 0 \in 0 .. MaxAttempts
    BY AttemptsAssumption
  <2>2. GoodRow(ClaimedRow(jobs[j], w))
    BY <1>a, <2>1, WrittenRowsAreGood
  <2> QED
    BY <1>1, <2>2, GoodUpdate DEF claim_next_job
<1>2. CASE complete_job_writes(w)
  <2>1. /\ call[w].job \in Jobs /\ call[w].attempts \in 0 .. MaxAttempts
        /\ jobs[call[w].job] \in Row
    BY <1>2, <1>a, OpenCall DEF complete_job_writes
  <2>2. GoodRow(CompletedRow(jobs[call[w].job]))
    BY <2>1, WrittenRowsAreGood
  <2> QED
    BY <1>2, <2>1, <2>2, GoodUpdate DEF complete_job_writes
<1>3. CASE heartbeat_job_writes(w)
  <2>1. /\ call[w].job \in Jobs /\ call[w].attempts \in 0 .. MaxAttempts
        /\ jobs[call[w].job] \in Row
    BY <1>3, <1>a, OpenCall DEF heartbeat_job_writes
  <2>2. GoodRow(HeartbeatRow(jobs[call[w].job]))
    BY <1>a, <2>1, WrittenRowsAreGood
  <2> QED
    BY <1>3, <2>1, <2>2, GoodUpdate DEF heartbeat_job_writes
<1>4. CASE record_job_failure_writes(w)
  <2> DEFINE row == FailedRow(jobs[call[w].job], call[w].attempts)
  <2>1. /\ call[w].job \in Jobs /\ call[w].attempts \in 0 .. MaxAttempts
        /\ jobs[call[w].job] \in Row
    BY <1>4, <1>a, OpenCall DEF record_job_failure_writes
  <2>2. CASE jobs_attempts_check(row)
    <3>1. GoodRow(row)
      BY <2>1, <2>2, WrittenRowsAreGood
    <3>2. jobs' = [jobs EXCEPT ![call[w].job] = row]
      BY <1>4, <2>2 DEF record_job_failure_writes
    <3> QED
      BY <2>1, <3>1, <3>2, GoodUpdate
  <2>3. CASE ~jobs_attempts_check(row)
    BY <1>4, <2>3, UnchangedJobs DEF record_job_failure_writes
  <2> QED
    BY <2>2, <2>3
<1>5. CASE UNCHANGED jobs
  BY <1>5, UnchangedJobs
<1>6. \/ \E j \in Jobs : claim_next_job(w, j)
      \/ complete_job_writes(w)
      \/ heartbeat_job_writes(w)
      \/ record_job_failure_writes(w)
      \/ UNCHANGED jobs
  BY DEF WorkerNext, claim_next_job_raises, claim_next_job_rolls_back, complete_job_reads,
         complete_job_raises, heartbeat_job_reads, ReadLease, record_job_failure_reads,
         record_job_failure_raises, WorkerCrashes
<1> QED
  BY <1>1, <1>2, <1>3, <1>4, <1>5, <1>6

LEMMA RowInvUser ==
    ASSUME TypeOK, RowInv, NEW u \in Users, UserNext(u)
    PROVE  RowInv'
<1>a. u \in Actors
  BY DEF Actors
<1>1. ASSUME NEW j \in Jobs, enqueue_job(u, j) PROVE RowInv'
  <2>1. GoodRow(EnqueuedRow)
    BY AttemptsAssumption DEF GoodRow, EnqueuedRow, AbsentRow
  <2> QED
    BY <1>1, <2>1, GoodUpdate DEF enqueue_job
<1>2. CASE cancel_import_export_job_writes(u)
  <2>1. call[u].job \in Jobs /\ jobs[call[u].job] \in Row
    BY <1>2, <1>a, OpenCall DEF cancel_import_export_job_writes
  <2>2. GoodRow(CancelledRow(jobs[call[u].job], call[u].status))
    BY <2>1 DEF GoodRow, CancelledRow, Row
  <2> QED
    BY <1>2, <2>1, <2>2, GoodUpdate DEF cancel_import_export_job_writes
<1>3. CASE acknowledge_job_cancellation_writes(u)
  <2>1. call[u].job \in Jobs /\ jobs[call[u].job] \in Row
    BY <1>3, <1>a, OpenCall DEF acknowledge_job_cancellation_writes
  <2>2. GoodRow(AcknowledgedRow(jobs[call[u].job]))
    BY <2>1 DEF GoodRow, AcknowledgedRow, Row
  <2> QED
    BY <1>3, <2>1, <2>2, GoodUpdate DEF acknowledge_job_cancellation_writes
<1>4. CASE requeue_dead_letter_job_writes(u)
  <2>1. call[u].job \in Jobs
    BY <1>4, <1>a, OpenCall DEF requeue_dead_letter_job_writes
  <2>2. GoodRow(RequeuedRow(jobs[call[u].job]))
    BY AttemptsAssumption DEF GoodRow, RequeuedRow, EnqueuedRow, AbsentRow
  <2> QED
    BY <1>4, <2>1, <2>2, GoodUpdate DEF requeue_dead_letter_job_writes
<1>5. CASE UNCHANGED jobs
  BY <1>5, UnchangedJobs
<1>6. \/ \E j \in Jobs : enqueue_job(u, j)
      \/ cancel_import_export_job_writes(u)
      \/ acknowledge_job_cancellation_writes(u)
      \/ requeue_dead_letter_job_writes(u)
      \/ UNCHANGED jobs
  BY DEF UserNext, cancel_import_export_job_reads, acknowledge_job_cancellation_reads,
         requeue_dead_letter_job_reads
<1> QED
  BY <1>1, <1>2, <1>3, <1>4, <1>5, <1>6

LEMMA RowInvTime ==
    ASSUME TypeOK, RowInv, TimeNext
    PROVE  RowInv'
<1>a. \A j \in Jobs : GoodRow(jobs[j]) /\ jobs[j] \in Row
  BY RowInvIsRowwise DEF TypeOK
<1>1. ASSUME NEW j \in Jobs, LeaseExpires(j) PROVE RowInv'
  <2>1. GoodRow([jobs[j] EXCEPT !.lease = "lapsed"])
    BY <1>a DEF GoodRow, Row
  <2> QED
    BY <1>1, <2>1, GoodUpdate DEF LeaseExpires
<1>2. ASSUME NEW j \in Jobs, BackoffElapses(j) PROVE RowInv'
  <2>1. GoodRow([jobs[j] EXCEPT !.due = TRUE])
    BY <1>a DEF GoodRow, Row
  <2> QED
    BY <1>2, <2>1, GoodUpdate DEF BackoffElapses
<1> QED
  BY <1>1, <1>2 DEF TimeNext

LEMMA RowInvCorrect == Spec => []RowInv
<1>1. Init => RowInv
  BY DEF Init, RowInv, LeasedRowIsReclaimable, AttemptsMatchStatus, AbsentRow
<1>2. TypeOK /\ RowInv /\ [Next]_vars => RowInv'
  <2> SUFFICES ASSUME TypeOK, RowInv, [Next]_vars PROVE RowInv'
    OBVIOUS
  <2>1. CASE Next
    BY <2>1, RowInvWorker, RowInvUser, RowInvTime DEF Next
  <2>2. CASE UNCHANGED vars
    BY <2>2, UnchangedJobs DEF vars
  <2> QED
    BY <2>1, <2>2
<1> QED
  BY <1>1, <1>2, TypeCorrect, PTL DEF Spec

\* A job in progress always has an owner and a deadline, so claim_next_job finds it
\* again once its worker is gone, whatever calls were open on it.
THEOREM Reclaimable == Spec => []LeasedRowIsReclaimable
<1>1. RowInv => LeasedRowIsReclaimable
  BY DEF RowInv
<1> QED
  BY <1>1, RowInvCorrect, PTL

\* The count and the status of a job never disagree about whether it may run again,
\* although record_job_failure writes back a count it read before.
THEOREM AttemptsCorrect == Spec => []AttemptsMatchStatus
<1>1. RowInv => AttemptsMatchStatus
  BY DEF RowInv
<1> QED
  BY <1>1, RowInvCorrect, PTL

-----------------------------------------------------------------------------
(***************************************************************************)
(* Two workers never execute one job, provided every lease is long enough  *)
(* for the work done under it (MaxLapses = 0) and one operator session     *)
(* issues the requeues and cancellations (at most one user).  Transactions *)
(* interleave freely and workers crash.  Both hypotheses are needed: run   *)
(* StaleFailure of JobQueueMC drops the first and finds two executions;    *)
(* two requeues that overlap can put a job back after it was claimed.      *)
(***************************************************************************)

TimelyAssumption == MaxLapses = 0 /\ \A u, v \in Users : u = v

\* No lease has lapsed.
NoLapse == \A j \in Jobs : jobs[j].status = "in_progress" => jobs[j].lease # "lapsed"

\* A worker that executes a job is the only one, and the row shows that it was
\* claimed: nobody but that worker can make it claimable again.
OneWorkerEach ==
    \A w \in Workers : work[w] # NoJob =>
        /\ jobs[work[w]].status \in {"in_progress", "cancelling", "cancelled"}
        /\ \A v \in Workers : work[v] = work[w] => v = w

\* The open call of a worker is about the job it executes.
CallsAreOwn ==
    \A w \in Workers : InCall(w) /\ call[w].op \in {"complete", "heartbeat", "fail"} =>
        work[w] # NoJob /\ call[w].job = work[w]

\* Nothing happens to a dead letter between the two halves of its requeue.
RequeueIsFresh ==
    \A u \in Users : InCall(u) /\ call[u].op = "requeue" =>
        jobs[call[u].job].status = "dead_letter"

\* Operators do not do what workers do, nor workers what operators do.
CallsByRole ==
    /\ \A w \in Workers : InCall(w) =>
        call[w].op \in {"complete", "heartbeat", "fail", "refused_claim"}
    /\ \A u \in Users : InCall(u) => call[u].op \in {"cancel", "acknowledge", "requeue"}

ExclusionInv == /\ TypeOK /\ NoLapse /\ OneWorkerEach
                /\ CallsAreOwn /\ RequeueIsFresh /\ CallsByRole

LEMMA NoCallIsNoOp == NoCall \notin Call
BY DEF NoCall, Call, CallOp

LEMMA Roles == \A w \in Workers : w \in Actors /\ w \notin Users
BY ActorsAssumption DEF Actors

-----------------------------------------------------------------------------
(* Opening a call, closing one, letting go of a job.                         *)

\* Opening call op on job j leaves every other call as it was.
LEMMA BeginFrame ==
    ASSUME TypeOK, NEW a \in Actors, NEW op \in CallOp, NEW j \in Jobs, Begin(a, op, j)
    PROVE  /\ call'[a].op = op /\ call'[a].job = j
           /\ \A b \in Actors : b # a => call'[b] = call[b]
BY DEF TypeOK, Begin

LEMMA EndFrame ==
    ASSUME TypeOK, NEW a \in Actors, End(a)
    PROVE  /\ ~InCall(a)'
           /\ \A b \in Actors : b # a => call'[b] = call[b]
BY DEF TypeOK, End, InCall

LEMMA LetGoFrame ==
    ASSUME TypeOK, NEW w \in Workers, LetGo(w)
    PROVE  /\ work'[w] = NoJob
           /\ \A v \in Workers : v # w => work'[v] = work[v]
BY DEF TypeOK, LetGo

-----------------------------------------------------------------------------
(* Workers.                                                                  *)

\* A call that a worker opens is about its own job.
LEMMA WorkerBegins ==
    ASSUME ExclusionInv, NEW w \in Workers, work[w] # NoJob,
           NEW op \in {"complete", "heartbeat", "fail"}, Begin(w, op, work[w]),
           UNCHANGED <<jobs, work>>
    PROVE  NoLapse' /\ OneWorkerEach' /\ CallsAreOwn' /\ RequeueIsFresh' /\ CallsByRole'
<1>1. op \in CallOp /\ work[w] \in Jobs /\ w \in Actors /\ w \notin Users
  BY WorkIsAJob, Roles DEF ExclusionInv, CallOp
<1>2. /\ call'[w].op = op /\ call'[w].job = work[w]
      /\ \A b \in Actors : b # w => call'[b] = call[b]
  BY <1>1, BeginFrame DEF ExclusionInv
<1>3. \A b \in Actors : b # w => InCall(b)' = InCall(b)
  BY <1>2 DEF InCall
<1>4. NoLapse' /\ OneWorkerEach'
  BY DEF ExclusionInv, NoLapse, OneWorkerEach
<1>5. CallsAreOwn'
  BY <1>1, <1>2, <1>3, Roles DEF ExclusionInv, CallsAreOwn
<1>6. RequeueIsFresh' /\ CallsByRole'
  BY <1>1, <1>2, <1>3, Roles DEF ExclusionInv, RequeueIsFresh, CallsByRole, Actors
<1> QED
  BY <1>4, <1>5, <1>6

\* A worker that lets go of its job, having changed nothing but perhaps the row of
\* that very job, leaves the others as they were.
LEMMA WorkerLetsGo ==
    ASSUME ExclusionInv, NEW w \in Workers, work[w] # NoJob, LetGo(w),
           End(w) \/ (~InCall(w) /\ UNCHANGED call),
           NEW row \in Row, row.lease # "lapsed",
           jobs' = jobs \/ jobs' = [jobs EXCEPT ![work[w]] = row]
    PROVE  NoLapse' /\ OneWorkerEach' /\ CallsAreOwn' /\ RequeueIsFresh' /\ CallsByRole'
<1> DEFINE j == work[w]
<1>1. j \in Jobs /\ w \in Actors /\ w \notin Users /\ jobs \in [Jobs -> Row]
  BY WorkIsAJob, Roles DEF ExclusionInv, TypeOK
<1>2. /\ work'[w] = NoJob
      /\ \A v \in Workers : v # w => work'[v] = work[v] /\ work[v] # j
  BY LetGoFrame, Roles DEF ExclusionInv, OneWorkerEach
<1>3. /\ ~InCall(w)'
      /\ \A b \in Actors : b # w => call'[b] = call[b]
  BY <1>1, EndFrame DEF ExclusionInv, InCall
<1>4. \A b \in Actors : b # w => InCall(b)' = InCall(b)
  BY <1>3 DEF InCall
<1>5. \A k \in Jobs : k # j => jobs'[k] = jobs[k]
  BY <1>1
<1>6. NoLapse'
  BY <1>1 DEF ExclusionInv, NoLapse
<1>7. \A v \in Workers : work'[v] # NoJob =>
        v # w /\ work'[v] = work[v] /\ work[v] \in Jobs /\ jobs'[work[v]] = jobs[work[v]]
  BY <1>2, <1>5, WorkIsAJob DEF ExclusionInv
<1>8. OneWorkerEach'
  BY <1>2, <1>7 DEF ExclusionInv, OneWorkerEach
<1>9. CallsAreOwn'
  BY <1>1, <1>2, <1>3, <1>4, Roles DEF ExclusionInv, CallsAreOwn
<1>10. CallsByRole'
  BY <1>1, <1>3, <1>4, Roles DEF ExclusionInv, CallsByRole, Actors
<1>11. RequeueIsFresh'
  <2> SUFFICES ASSUME NEW u \in Users, InCall(u)', call'[u].op = "requeue"
               PROVE  jobs'[call'[u].job].status = "dead_letter"
    BY DEF RequeueIsFresh
  <2>1. u \in Actors /\ u # w
    BY <1>1 DEF Actors
  <2>2. call'[u] = call[u] /\ InCall(u)
    BY <2>1, <1>3, <1>4
  <2>3. jobs[call[u].job].status = "dead_letter"
    BY <2>2 DEF ExclusionInv, RequeueIsFresh
  <2>4. call[u].job \in Jobs
    BY <2>1, <2>2, NoCallIsNoOp DEF ExclusionInv, TypeOK, InCall, Call
  <2>5. call[u].job # j
    BY <2>3 DEF ExclusionInv, OneWorkerEach
  <2> QED
    BY <2>2, <2>3, <2>4, <2>5, <1>5
<1> QED
  BY <1>6, <1>8, <1>9, <1>10, <1>11

LEMMA ExclusionClaim ==
    ASSUME ExclusionInv, NEW w \in Workers, NEW j \in Jobs, claim_next_job(w, j)
    PROVE  NoLapse' /\ OneWorkerEach' /\ CallsAreOwn' /\ RequeueIsFresh' /\ CallsByRole'
<1>1. /\ w \in Actors /\ ~InCall(w) /\ work[w] = NoJob /\ call' = call
      /\ jobs' = [jobs EXCEPT ![j] = ClaimedRow(jobs[j], w)]
      /\ work' = [work EXCEPT ![w] = j]
      /\ jobs \in [Jobs -> Row] /\ work \in [Workers -> Jobs \cup {NoJob}]
  BY Roles DEF claim_next_job, MayStart, ExclusionInv, TypeOK
<1>2. jobs[j].status = "pending"
  BY DEF claim_next_job, Selected, Claimable, ExclusionInv, NoLapse
<1>3. \A v \in Workers : work[v] # j
  BY <1>2, JobsAssumption DEF ExclusionInv, OneWorkerEach
<1>4. \A a \in Actors : InCall(a)' = InCall(a)
  BY <1>1 DEF InCall
<1>5. NoLapse'
  BY <1>1 DEF ExclusionInv, NoLapse, ClaimedRow
<1>6. OneWorkerEach'
  BY <1>1, <1>3, JobsAssumption DEF ExclusionInv, OneWorkerEach, ClaimedRow
<1>7. CallsAreOwn'
  BY <1>1, <1>4, Roles DEF ExclusionInv, CallsAreOwn
<1>8. CallsByRole'
  BY <1>1, <1>4 DEF ExclusionInv, CallsByRole, Actors
<1>9. RequeueIsFresh'
  BY <1>1, <1>2, <1>4 DEF ExclusionInv, RequeueIsFresh, Actors
<1> QED
  BY <1>5, <1>6, <1>7, <1>8, <1>9

LEMMA ExclusionWorker ==
    ASSUME ExclusionInv, NEW w \in Workers, WorkerNext(w)
    PROVE  NoLapse' /\ OneWorkerEach' /\ CallsAreOwn' /\ RequeueIsFresh' /\ CallsByRole'
<1>a. w \in Actors /\ w \notin Users /\ TypeOK
  BY Roles DEF ExclusionInv
<1>1. ASSUME NEW j \in Jobs, claim_next_job(w, j)
      PROVE NoLapse' /\ OneWorkerEach' /\ CallsAreOwn' /\ RequeueIsFresh' /\ CallsByRole'
  BY <1>1, ExclusionClaim
<1>2. ASSUME NEW j \in Jobs, claim_next_job_raises(w, j)
      PROVE NoLapse' /\ OneWorkerEach' /\ CallsAreOwn' /\ RequeueIsFresh' /\ CallsByRole'
  <2>1. /\ call'[w].op = "refused_claim"
        /\ \A b \in Actors : b # w => call'[b] = call[b]
        /\ UNCHANGED <<jobs, work>>
    BY <1>2, <1>a, BeginFrame DEF claim_next_job_raises, CallOp
  <2>2. \A b \in Actors : b # w => InCall(b)' = InCall(b)
    BY <2>1 DEF InCall
  <2>3. NoLapse' /\ OneWorkerEach'
    BY <2>1 DEF ExclusionInv, NoLapse, OneWorkerEach
  <2>4. CallsAreOwn' /\ CallsByRole' /\ RequeueIsFresh'
    BY <1>a, <2>1, <2>2, Roles DEF ExclusionInv, CallsAreOwn, CallsByRole, RequeueIsFresh, Actors
  <2> QED
    BY <2>3, <2>4
<1>3. CASE claim_next_job_rolls_back(w)
  <2>1. /\ ~InCall(w)'
        /\ \A b \in Actors : b # w => call'[b] = call[b]
        /\ UNCHANGED <<jobs, work>>
    BY <1>3, <1>a, EndFrame DEF claim_next_job_rolls_back
  <2>2. \A b \in Actors : b # w => InCall(b)' = InCall(b)
    BY <2>1 DEF InCall
  <2>3. NoLapse' /\ OneWorkerEach'
    BY <2>1 DEF ExclusionInv, NoLapse, OneWorkerEach
  <2>4. CallsAreOwn' /\ CallsByRole' /\ RequeueIsFresh'
    BY <1>a, <2>1, <2>2, Roles DEF ExclusionInv, CallsAreOwn, CallsByRole, RequeueIsFresh, Actors
  <2> QED
    BY <2>3, <2>4
<1>4. CASE complete_job_reads(w) \/ heartbeat_job_reads(w) \/ record_job_failure_reads(w)
  BY <1>4, WorkerBegins
  DEF complete_job_reads, heartbeat_job_reads, ReadLease, record_job_failure_reads
<1>5. CASE complete_job_writes(w)
  <2> DEFINE row == CompletedRow(jobs[call[w].job])
  <2>1. call[w].job = work[w] /\ work[w] # NoJob
    BY <1>5 DEF complete_job_writes, Writing, ExclusionInv, CallsAreOwn
  <2>2. row \in Row /\ row.lease # "lapsed"
    <3>1. call[w].job \in Jobs /\ jobs[call[w].job] \in Row
      BY <1>a, <2>1, WorkIsAJob
    <3>2. row \in Row
      BY <3>1, OtherRowTypes DEF Row
    <3> QED
      BY <3>1, <3>2 DEF CompletedRow, Row
  <2> HIDE DEF row
  <2>3. jobs' = [jobs EXCEPT ![work[w]] = row] /\ LetGo(w) /\ End(w)
    BY <1>5, <2>1 DEF complete_job_writes, row
  <2> QED
    BY <2>1, <2>2, <2>3, WorkerLetsGo
<1>6. CASE record_job_failure_writes(w)
  <2> DEFINE row == FailedRow(jobs[call[w].job], call[w].attempts)
  <2>1. call[w].job = work[w] /\ work[w] # NoJob /\ LetGo(w) /\ End(w)
    BY <1>6 DEF record_job_failure_writes, Writing, ExclusionInv, CallsAreOwn
  <2>2. CASE jobs_attempts_check(row)
    <3>1. row \in Row /\ row.lease # "lapsed"
      <4>1. row \in Row
        BY <1>6, <1>a, <2>2, OpenCall, FailedRowType DEF record_job_failure_writes
      <4> QED
        BY <4>1 DEF FailedRow
    <3>2. jobs' = [jobs EXCEPT ![work[w]] = row]
      BY <1>6, <2>1, <2>2 DEF record_job_failure_writes
    <3> HIDE DEF row
    <3> QED
      BY <2>1, <3>1, <3>2, WorkerLetsGo
  <2>3. CASE ~jobs_attempts_check(row)
    <3>1. jobs' = jobs
      BY <1>6, <2>3 DEF record_job_failure_writes
    <3>2. AbsentRow \in Row /\ AbsentRow.lease # "lapsed"
      BY NewRowTypes DEF AbsentRow
    <3> QED
      BY <2>1, <3>1, <3>2, WorkerLetsGo
  <2> QED
    BY <2>2, <2>3
<1>7. CASE complete_job_raises(w) \/ record_job_failure_raises(w) \/ WorkerCrashes(w)
  <2>1. AbsentRow \in Row /\ AbsentRow.lease # "lapsed"
    BY NewRowTypes DEF AbsentRow
  <2>2. work[w] # NoJob /\ LetGo(w) /\ (End(w) \/ (~InCall(w) /\ UNCHANGED call)) /\ jobs' = jobs
    BY <1>7 DEF complete_job_raises, record_job_failure_raises, WorkerCrashes, MayStart
  <2> QED
    BY <2>1, <2>2, WorkerLetsGo
<1>8. CASE heartbeat_job_writes(w)
  <2>1. /\ call[w].job \in Jobs /\ jobs[call[w].job] \in Row /\ jobs \in [Jobs -> Row]
        /\ work' = work
        /\ jobs' = [jobs EXCEPT ![call[w].job] = HeartbeatRow(@)]
    BY <1>8, <1>a, OpenCall DEF heartbeat_job_writes, TypeOK
  <2>2. /\ ~InCall(w)'
        /\ \A b \in Actors : b # w => call'[b] = call[b]
    BY <1>8, <1>a, EndFrame DEF heartbeat_job_writes
  <2>3. \A b \in Actors : b # w => InCall(b)' = InCall(b)
    BY <2>2 DEF InCall
  <2>4. \A k \in Jobs : /\ jobs'[k].status = jobs[k].status
                        /\ jobs'[k].lease = "lapsed" => jobs[k].lease = "lapsed"
    BY <2>1 DEF HeartbeatRow, Row
  <2>5. NoLapse'
    BY <2>4 DEF ExclusionInv, NoLapse
  <2>6. OneWorkerEach'
    BY <1>a, <2>1, <2>4, WorkIsAJob DEF ExclusionInv, OneWorkerEach
  <2>7. CallsAreOwn' /\ CallsByRole'
    BY <1>a, <2>1, <2>2, <2>3, Roles DEF ExclusionInv, CallsAreOwn, CallsByRole, Actors
  <2>8. RequeueIsFresh'
    <3> SUFFICES ASSUME NEW u \in Users, InCall(u)', call'[u].op = "requeue"
                 PROVE  jobs'[call'[u].job].status = "dead_letter"
      BY DEF RequeueIsFresh
    <3>1. u \in Actors /\ call'[u] = call[u] /\ InCall(u)
      BY <1>a, <2>2, <2>3 DEF Actors
    <3>2. call[u].job \in Jobs
      BY <3>1, NoCallIsNoOp DEF ExclusionInv, TypeOK, InCall, Call
    <3> QED
      BY <3>1, <3>2, <2>4 DEF ExclusionInv, RequeueIsFresh
  <2> QED
    BY <2>5, <2>6, <2>7, <2>8
<1> QED
  BY <1>1, <1>2, <1>3, <1>4, <1>5, <1>6, <1>7, <1>8 DEF WorkerNext

-----------------------------------------------------------------------------
(* Operators.  The only session is the one that acts.                        *)

LEMMA UserBegins ==
    ASSUME ExclusionInv, NEW u \in Users, NEW op \in {"cancel", "acknowledge", "requeue"},
           NEW j \in Jobs, Begin(u, op, j), UNCHANGED <<jobs, work>>,
           op = "requeue" => jobs[j].status = "dead_letter"
    PROVE  NoLapse' /\ OneWorkerEach' /\ CallsAreOwn' /\ RequeueIsFresh' /\ CallsByRole'
<1>1. op \in CallOp /\ u \in Actors /\ u \notin Workers
  BY ActorsAssumption DEF CallOp, Actors
<1>2. /\ call'[u].op = op /\ call'[u].job = j
      /\ \A b \in Actors : b # u => call'[b] = call[b]
  BY <1>1, BeginFrame DEF ExclusionInv
<1>3. \A b \in Actors : b # u => InCall(b)' = InCall(b)
  BY <1>2 DEF InCall
<1>4. NoLapse' /\ OneWorkerEach'
  BY DEF ExclusionInv, NoLapse, OneWorkerEach
<1>5. CallsAreOwn' /\ CallsByRole' /\ RequeueIsFresh'
  BY <1>1, <1>2, <1>3, Roles DEF ExclusionInv, CallsAreOwn, CallsByRole, RequeueIsFresh, Actors
<1> QED
  BY <1>4, <1>5

LEMMA UserWrites ==
    ASSUME TimelyAssumption, ExclusionInv, NEW u \in Users, NEW j \in Jobs, NEW row \in Row,
           End(u) \/ (~InCall(u) /\ UNCHANGED call),
           jobs' = [jobs EXCEPT ![j] = row], UNCHANGED work,
           row.status # "in_progress",
           \A w \in Workers : work[w] = j => row.status \in {"cancelling", "cancelled"}
    PROVE  NoLapse' /\ OneWorkerEach' /\ CallsAreOwn' /\ RequeueIsFresh' /\ CallsByRole'
<1>1. u \in Actors /\ u \notin Workers /\ jobs \in [Jobs -> Row]
  BY ActorsAssumption DEF Actors, ExclusionInv, TypeOK
<1>2. /\ ~InCall(u)'
      /\ \A b \in Actors : b # u => call'[b] = call[b]
  BY <1>1, EndFrame DEF ExclusionInv, InCall
<1>3. \A b \in Actors : b # u => InCall(b)' = InCall(b)
  BY <1>2 DEF InCall
<1>4. NoLapse'
  BY <1>1 DEF ExclusionInv, NoLapse
<1>5. OneWorkerEach'
  <2>1. \A w \in Workers : work[w] # NoJob => work[w] \in Jobs
    BY WorkIsAJob DEF ExclusionInv
  <2> QED
    BY <1>1, <2>1 DEF ExclusionInv, OneWorkerEach
<1>6. CallsAreOwn' /\ CallsByRole'
  BY <1>1, <1>2, <1>3, Roles DEF ExclusionInv, CallsAreOwn, CallsByRole, Actors
<1>7. RequeueIsFresh'
  BY <1>2 DEF RequeueIsFresh, TimelyAssumption
<1> QED
  BY <1>4, <1>5, <1>6, <1>7

LEMMA ExclusionUser ==
    ASSUME TimelyAssumption, ExclusionInv, NEW u \in Users, UserNext(u)
    PROVE  NoLapse' /\ OneWorkerEach' /\ CallsAreOwn' /\ RequeueIsFresh' /\ CallsByRole'
<1>a. u \in Actors /\ TypeOK
  BY DEF Actors, ExclusionInv
<1>1. ASSUME NEW j \in Jobs, enqueue_job(u, j)
      PROVE NoLapse' /\ OneWorkerEach' /\ CallsAreOwn' /\ RequeueIsFresh' /\ CallsByRole'
  <2>1. EnqueuedRow \in Row /\ EnqueuedRow.status # "in_progress"
    BY NewRowTypes DEF EnqueuedRow, AbsentRow
  <2>2. \A w \in Workers : work[w] # j
    BY <1>1, JobsAssumption DEF enqueue_job, ExclusionInv, OneWorkerEach
  <2> QED
    BY <1>1, <2>1, <2>2, UserWrites DEF enqueue_job, MayStart
<1>2. ASSUME NEW j \in Jobs, \/ cancel_import_export_job_reads(u, j)
                             \/ acknowledge_job_cancellation_reads(u, j)
                             \/ requeue_dead_letter_job_reads(u, j)
      PROVE NoLapse' /\ OneWorkerEach' /\ CallsAreOwn' /\ RequeueIsFresh' /\ CallsByRole'
  BY <1>2, UserBegins
  DEF cancel_import_export_job_reads, acknowledge_job_cancellation_reads,
      requeue_dead_letter_job_reads
<1>3. CASE cancel_import_export_job_writes(u)
  <2> DEFINE j == call[u].job  row == CancelledRow(jobs[j], call[u].status)
  <2>1. j \in Jobs /\ jobs[j] \in Row /\ row \in Row
    BY <1>3, <1>a, OpenCall, OtherRowTypes DEF cancel_import_export_job_writes
  <2>2. row.status \in {"cancelling", "cancelled"}
    BY <2>1 DEF CancelledRow, Row
  <2>3. jobs' = [jobs EXCEPT ![j] = row] /\ End(u) /\ UNCHANGED work
    BY <1>3 DEF cancel_import_export_job_writes
  <2> HIDE DEF row
  <2> QED
    BY <2>1, <2>2, <2>3, UserWrites
<1>4. CASE acknowledge_job_cancellation_writes(u)
  <2> DEFINE j == call[u].job  row == AcknowledgedRow(jobs[j])
  <2>1. j \in Jobs /\ jobs[j] \in Row /\ row \in Row
    BY <1>4, <1>a, OpenCall, OtherRowTypes DEF acknowledge_job_cancellation_writes
  <2>2. row.status = "cancelled"
    BY <2>1 DEF AcknowledgedRow, Row
  <2>3. jobs' = [jobs EXCEPT ![j] = row] /\ End(u) /\ UNCHANGED work
    BY <1>4 DEF acknowledge_job_cancellation_writes
  <2> HIDE DEF row
  <2> QED
    BY <2>1, <2>2, <2>3, UserWrites
<1>5. CASE requeue_dead_letter_job_writes(u)
  <2> DEFINE j == call[u].job  row == RequeuedRow(jobs[j])
  <2>1. j \in Jobs /\ row \in Row /\ row.status = "pending"
    BY <1>5, <1>a, OpenCall, NewRowTypes
    DEF requeue_dead_letter_job_writes, RequeuedRow, EnqueuedRow, AbsentRow
  <2>2. jobs[j].status = "dead_letter"
    BY <1>5 DEF requeue_dead_letter_job_writes, Writing, ExclusionInv, RequeueIsFresh
  <2>3. \A w \in Workers : work[w] # j
    BY <2>1, <2>2, JobsAssumption DEF ExclusionInv, OneWorkerEach
  <2>4. jobs' = [jobs EXCEPT ![j] = row] /\ End(u) /\ UNCHANGED work
    BY <1>5 DEF requeue_dead_letter_job_writes
  <2> HIDE DEF row
  <2> QED
    BY <2>1, <2>3, <2>4, UserWrites
<1> QED
  BY <1>1, <1>2, <1>3, <1>4, <1>5 DEF UserNext

-----------------------------------------------------------------------------

LEMMA ExclusionTime ==
    ASSUME TimelyAssumption, ExclusionInv, TimeNext
    PROVE  NoLapse' /\ OneWorkerEach' /\ CallsAreOwn' /\ RequeueIsFresh' /\ CallsByRole'
<1>1. PICK j \in Jobs : BackoffElapses(j)
  <2>1. ~(spent.lapses < MaxLapses)
    BY DEF TimelyAssumption, ExclusionInv, TypeOK
  <2> QED
    BY <2>1 DEF TimeNext, LeaseExpires
<1>2. /\ jobs \in [Jobs -> Row] /\ UNCHANGED <<call, work>>
      /\ jobs' = [jobs EXCEPT ![j].due = TRUE]
  BY <1>1 DEF BackoffElapses, ExclusionInv, TypeOK
<1>3. \A k \in Jobs : jobs'[k].status = jobs[k].status /\ jobs'[k].lease = jobs[k].lease
  BY <1>2 DEF Row
<1>4. \A a \in Actors : InCall(a)' = InCall(a) /\ (InCall(a) => call[a].job \in Jobs)
  BY <1>2, NoCallIsNoOp DEF InCall, ExclusionInv, TypeOK, Call
<1>5. NoLapse' /\ OneWorkerEach'
  BY <1>2, <1>3, WorkIsAJob DEF ExclusionInv, NoLapse, OneWorkerEach
<1>6. CallsAreOwn' /\ RequeueIsFresh' /\ CallsByRole'
  BY <1>2, <1>3, <1>4 DEF ExclusionInv, CallsAreOwn, RequeueIsFresh, CallsByRole, Actors
<1> QED
  BY <1>5, <1>6

\* With leases long enough for the work and one operator session, no job is executed
\* by two workers at once, although every routine but the claim reads without a lock.
THEOREM Exclusion == TimelyAssumption /\ Spec => []ExclusiveExecution
<1> SUFFICES ASSUME TimelyAssumption PROVE Spec => []ExclusiveExecution
  OBVIOUS
<1>1. Init => NoLapse /\ OneWorkerEach /\ CallsAreOwn /\ RequeueIsFresh /\ CallsByRole
  BY DEF Init, NoLapse, OneWorkerEach, CallsAreOwn, RequeueIsFresh, CallsByRole, InCall,
         AbsentRow, Actors
<1>2. ExclusionInv /\ [Next]_vars => ExclusionInv'
  <2> SUFFICES ASSUME ExclusionInv, [Next]_vars PROVE ExclusionInv'
    OBVIOUS
  <2>1. TypeOK'
    BY TypeStep DEF ExclusionInv
  <2>2. CASE Next
    BY <2>1, <2>2, ExclusionWorker, ExclusionUser, ExclusionTime DEF Next, ExclusionInv
  <2>3. CASE UNCHANGED vars
    BY <2>1, <2>3 DEF vars, ExclusionInv, NoLapse, OneWorkerEach, CallsAreOwn, RequeueIsFresh,
                      CallsByRole, InCall
  <2> QED
    BY <2>2, <2>3
<1>3. Init => ExclusionInv
  BY <1>1, TypeInit DEF ExclusionInv
<1>4. ExclusionInv => ExclusiveExecution
  BY DEF ExclusionInv, OneWorkerEach, ExclusiveExecution
<1> QED
  BY <1>2, <1>3, <1>4, PTL DEF Spec

-----------------------------------------------------------------------------
(* The budget, transactions overlapping as they may.                         *)

\* n executions are paid for; a row that was never inserted was never executed.
Paid(row, n) == /\ n <= row.attempts + 1
                /\ row.status = "pending" => n <= row.attempts
                /\ row.status = "absent" => n = 0

AllPaid == \A j \in Jobs : Paid(jobs[j], runs[j])

\* A failure is recorded with the count it has read, over one that has grown
\* since: the attempt that was counted in between is lost.
LosesAnAttempt ==
    \E w \in Workers : /\ record_job_failure_writes(w)
                       /\ call[w].attempts < jobs[call[w].job].attempts

LEMMA ClaimedPays ==
    ASSUME NEW row \in Row, NEW w \in Workers, NEW n \in 0 .. RunsCap, Claimable(row),
           Paid(row, n)
    PROVE  Paid(ClaimedRow(row, w), n + 1) /\ Paid(ClaimedRow(row, w), n)
BY DEF Claimable, ClaimedRow, Paid, Row, RunsCap

\* Whatever row a write lands on, only that of a failure can cost an attempt.
LEMMA WrittenPays ==
    ASSUME NEW row \in Row, NEW n \in 0 .. RunsCap, Paid(row, n)
    PROVE  /\ row.status = "absent" => Paid(EnqueuedRow, n)
           /\ Paid(CompletedRow(row), n) /\ Paid(HeartbeatRow(row), n)
           /\ \A status \in Status : Paid(CancelledRow(row, status), n)
           /\ Paid(AcknowledgedRow(row), n) /\ Paid(RequeuedRow(row), 0)
           /\ \A read \in 0 .. MaxAttempts :
                  row.attempts <= read => Paid(FailedRow(row, read), n)
<1>1. row.status = "absent" => Paid(EnqueuedRow, n)
  BY DEF Paid, EnqueuedRow, AbsentRow, Row, RunsCap
<1>2. Paid(CompletedRow(row), n) /\ Paid(HeartbeatRow(row), n)
  BY DEF Paid, CompletedRow, HeartbeatRow, Row
<1>3. \A status \in Status : Paid(CancelledRow(row, status), n)
  BY DEF Paid, CancelledRow, Row
<1>4. Paid(AcknowledgedRow(row), n) /\ Paid(RequeuedRow(row), 0)
  BY DEF Paid, AcknowledgedRow, RequeuedRow, EnqueuedRow, AbsentRow, Row
<1>5. \A read \in 0 .. MaxAttempts : row.attempts <= read => Paid(FailedRow(row, read), n)
  BY AttemptsAssumption DEF Paid, FailedRow, Row, RunsCap
<1> QED
  BY <1>1, <1>2, <1>3, <1>4, <1>5

LEMMA PaysUnchanged ==
    ASSUME AllPaid, UNCHANGED <<jobs, runs>>
    PROVE  AllPaid'
BY DEF AllPaid

LEMMA PaysOneRow ==
    ASSUME TypeOK, AllPaid, NEW j \in Jobs, NEW row, NEW n, Paid(row, n),
           jobs' = [jobs EXCEPT ![j] = row], runs' = [runs EXCEPT ![j] = n]
    PROVE  AllPaid'
BY DEF TypeOK, AllPaid

LEMMA PaysOneRowOnly ==
    ASSUME TypeOK, AllPaid, NEW j \in Jobs, NEW row, Paid(row, runs[j]),
           jobs' = [jobs EXCEPT ![j] = row], UNCHANGED runs
    PROVE  AllPaid'
BY DEF TypeOK, AllPaid

\* The row that the write of a call lands on is a row that is paid for.
LEMMA LandsOnPaidRow ==
    ASSUME TypeOK, AllPaid, NEW a \in Actors, NEW op, Writing(a, op)
    PROVE  /\ call[a].job \in Jobs /\ jobs[call[a].job] \in Row
           /\ call[a].status \in Status /\ call[a].attempts \in 0 .. MaxAttempts
           /\ runs[call[a].job] \in 0 .. RunsCap
           /\ Paid(jobs[call[a].job], runs[call[a].job])
<1>1. /\ call[a].job \in Jobs /\ jobs[call[a].job] \in Row
      /\ call[a].status \in Status /\ call[a].attempts \in 0 .. MaxAttempts
  BY OpenCall
<1> QED
  BY <1>1 DEF TypeOK, AllPaid

LEMMA PaysWorker ==
    ASSUME TypeOK, AllPaid, NEW w \in Workers, WorkerNext(w), ~LosesAnAttempt
    PROVE  AllPaid'
<1>a. w \in Actors
  BY DEF Actors
<1>1. ASSUME NEW j \in Jobs, claim_next_job(w, j) PROVE AllPaid'
  <2> DEFINE row == ClaimedRow(jobs[j], w)
             n == IF runs[j] < RunsCap THEN runs[j] + 1 ELSE runs[j]
  <2>1. jobs[j] \in Row /\ runs[j] \in 0 .. RunsCap /\ Paid(jobs[j], runs[j])
    BY DEF TypeOK, AllPaid
  <2>2. Paid(row, n)
    BY <1>1, <2>1, ClaimedPays DEF claim_next_job, Selected
  <2>3. jobs' = [jobs EXCEPT ![j] = row] /\ runs' = [runs EXCEPT ![j] = n]
    BY <1>1 DEF claim_next_job
  <2> HIDE DEF row, n
  <2> QED
    BY <2>2, <2>3, PaysOneRow
<1>2. CASE complete_job_writes(w)
  BY <1>2, <1>a, LandsOnPaidRow, WrittenPays, PaysOneRowOnly DEF complete_job_writes
<1>3. CASE heartbeat_job_writes(w)
  BY <1>3, <1>a, LandsOnPaidRow, WrittenPays, PaysOneRowOnly DEF heartbeat_job_writes
<1>4. CASE record_job_failure_writes(w)
  <2> DEFINE j == call[w].job  row == FailedRow(jobs[j], call[w].attempts)
  <2>1. /\ j \in Jobs /\ jobs[j] \in Row /\ runs[j] \in 0 .. RunsCap
        /\ call[w].attempts \in 0 .. MaxAttempts /\ Paid(jobs[j], runs[j])
    BY <1>4, <1>a, LandsOnPaidRow DEF record_job_failure_writes
  <2>2. jobs[j].attempts <= call[w].attempts
    BY <1>4, <2>1 DEF LosesAnAttempt, Row
  <2>3. Paid(row, runs[j])
    BY <2>1, <2>2, WrittenPays
  <2>4. jobs' = [jobs EXCEPT ![j] = row] \/ jobs' = jobs
    BY <1>4 DEF record_job_failure_writes
  <2>5. UNCHANGED runs
    BY <1>4 DEF record_job_failure_writes
  <2> HIDE DEF row
  <2> QED
    BY <2>1, <2>3, <2>4, <2>5, PaysOneRowOnly, PaysUnchanged
<1>5. CASE UNCHANGED <<jobs, runs>>
  BY <1>5, PaysUnchanged
<1> QED
  BY <1>1, <1>2, <1>3, <1>4, <1>5
  DEF WorkerNext, claim_next_job_raises, claim_next_job_rolls_back, complete_job_reads,
      complete_job_raises, heartbeat_job_reads, ReadLease, record_job_failure_reads,
      record_job_failure_raises, WorkerCrashes

LEMMA PaysUser ==
    ASSUME TypeOK, AllPaid, NEW u \in Users, UserNext(u)
    PROVE  AllPaid'
<1>a. u \in Actors
  BY DEF Actors
<1>1. ASSUME NEW j \in Jobs, enqueue_job(u, j) PROVE AllPaid'
  <2>1. jobs[j] \in Row /\ runs[j] \in 0 .. RunsCap /\ Paid(jobs[j], runs[j])
    BY DEF TypeOK, AllPaid
  <2> QED
    BY <1>1, <2>1, WrittenPays, PaysOneRowOnly DEF enqueue_job
<1>2. CASE cancel_import_export_job_writes(u)
  <2> DEFINE j == call[u].job  row == CancelledRow(jobs[j], call[u].status)
  <2>1. j \in Jobs /\ Paid(row, runs[j])
    BY <1>2, <1>a, LandsOnPaidRow, WrittenPays DEF cancel_import_export_job_writes
  <2>2. jobs' = [jobs EXCEPT ![j] = row] /\ UNCHANGED runs
    BY <1>2 DEF cancel_import_export_job_writes
  <2> HIDE DEF row
  <2> QED
    BY <2>1, <2>2, PaysOneRowOnly
<1>3. CASE acknowledge_job_cancellation_writes(u)
  BY <1>3, <1>a, LandsOnPaidRow, WrittenPays, PaysOneRowOnly
  DEF acknowledge_job_cancellation_writes
<1>4. CASE requeue_dead_letter_job_writes(u)
  <2> DEFINE j == call[u].job  row == RequeuedRow(jobs[j])
  <2>1. j \in Jobs /\ Paid(row, 0)
    BY <1>4, <1>a, LandsOnPaidRow, WrittenPays DEF requeue_dead_letter_job_writes
  <2>2. jobs' = [jobs EXCEPT ![j] = row] /\ runs' = [runs EXCEPT ![j] = 0]
    BY <1>4 DEF requeue_dead_letter_job_writes
  <2> HIDE DEF row
  <2> QED
    BY <2>1, <2>2, PaysOneRow
<1>5. CASE UNCHANGED <<jobs, runs>>
  BY <1>5, PaysUnchanged
<1> QED
  BY <1>1, <1>2, <1>3, <1>4, <1>5
  DEF UserNext, cancel_import_export_job_reads, acknowledge_job_cancellation_reads,
      requeue_dead_letter_job_reads

LEMMA PaysTime ==
    ASSUME TypeOK, AllPaid, TimeNext
    PROVE  AllPaid'
<1>1. ASSUME NEW j \in Jobs, NEW row, jobs' = [jobs EXCEPT ![j] = row], UNCHANGED runs,
             row.status = jobs[j].status, row.attempts = jobs[j].attempts
      PROVE  AllPaid'
  <2>1. Paid(row, runs[j])
    BY <1>1 DEF AllPaid, Paid
  <2> QED
    BY <1>1, <2>1, PaysOneRowOnly
<1>2. ASSUME NEW j \in Jobs, LeaseExpires(j) PROVE AllPaid'
  <2>1. jobs[j] \in Row
    BY DEF TypeOK
  <2> DEFINE row == [jobs[j] EXCEPT !.lease = "lapsed"]
  <2>2. row.status = jobs[j].status /\ row.attempts = jobs[j].attempts
    BY <2>1 DEF Row
  <2>3. jobs' = [jobs EXCEPT ![j] = row] /\ UNCHANGED runs
    BY <1>2 DEF LeaseExpires
  <2> HIDE DEF row
  <2> QED
    BY <1>1, <2>2, <2>3
<1>3. ASSUME NEW j \in Jobs, BackoffElapses(j) PROVE AllPaid'
  <2>1. jobs[j] \in Row
    BY DEF TypeOK
  <2> DEFINE row == [jobs[j] EXCEPT !.due = TRUE]
  <2>2. row.status = jobs[j].status /\ row.attempts = jobs[j].attempts
    BY <2>1 DEF Row
  <2>3. jobs' = [jobs EXCEPT ![j] = row] /\ UNCHANGED runs
    BY <1>3 DEF BackoffElapses
  <2> HIDE DEF row
  <2> QED
    BY <1>1, <2>2, <2>3
<1> QED
  BY <1>2, <1>3 DEF TimeNext

\* The retry budget is honoured whatever lapses, crashes, overlaps and is requeued,
\* unless a failure overwrites a count that has grown since it was read: no other
\* order of the unlocked reads and the writes of app.jobs exceeds it.
THEOREM BudgetHonoured == Spec /\ [][~LosesAnAttempt]_vars => []RetryBudget
<1>1. Init => TypeOK /\ AllPaid
  BY TypeInit DEF Init, AllPaid, Paid, AbsentRow
<1>2. TypeOK /\ AllPaid /\ [Next]_vars /\ [~LosesAnAttempt]_vars => (TypeOK /\ AllPaid)'
  <2> SUFFICES ASSUME TypeOK, AllPaid, [Next]_vars, [~LosesAnAttempt]_vars
               PROVE  TypeOK' /\ AllPaid'
    OBVIOUS
  <2>1. CASE UNCHANGED vars
    BY <2>1, PaysUnchanged, TypeStep DEF vars
  <2>2. CASE Next /\ ~LosesAnAttempt
    BY <2>2, PaysWorker, PaysUser, PaysTime, TypeStep DEF Next
  <2> QED
    BY <2>1, <2>2
<1>3. TypeOK /\ AllPaid => RetryBudget
  BY DEF AllPaid, Paid, RetryBudget
<1> QED
  BY <1>1, <1>2, <1>3, PTL DEF Spec

-----------------------------------------------------------------------------
(* The last status, transactions overlapping as they may.                    *)

Settled == {"completed", "cancelled", "dead_letter"}

\* A write lands on a row that has been settled since it was read.
OverwritesSettled ==
    \E a \in Actors : /\ InCall(a) /\ End(a) /\ jobs' # jobs
                      /\ jobs[call[a].job].status \in Settled
                      /\ jobs[call[a].job].status # call[a].status

\* What the read of a call has established about its row.
Entitled(op, status) ==
    /\ op \in {"complete", "heartbeat"} => status = "in_progress"
    /\ op = "fail" => ~FailureRefused(status)
    /\ op = "cancel" => ~CancelRefused(status)
    /\ op = "acknowledge" => status = "cancelling"
    /\ op = "requeue" => status = "dead_letter"

CallsAreEntitled == \A a \in Actors : InCall(a) => Entitled(call[a].op, call[a].status)

\* The row's status is final, but for the requeue of a dead letter.
StaysFinal(row, next) ==
    /\ row.status \in {"completed", "cancelled"} => next.status = row.status
    /\ row.status = "dead_letter" => \/ next.status = "dead_letter"
                                     \/ next.status = "pending" /\ next.attempts = 0

AllStayFinal == \A j \in Jobs : StaysFinal(jobs[j], jobs'[j])

\* A step opens a call on what it has read, or opens none.
EntitledKind ==
    \/ \E a \in Actors, op \in CallOp, j \in Jobs : Begin(a, op, j) /\ Entitled(op, jobs[j].status)
    \/ \A a \in Actors : call'[a] \in {call[a], NoCall}

LEMMA EntitledKindKeeps ==
    ASSUME TypeOK, CallsAreEntitled, EntitledKind
    PROVE  CallsAreEntitled'
<1>1. ASSUME NEW a \in Actors, NEW op \in CallOp, NEW j \in Jobs, Begin(a, op, j),
             Entitled(op, jobs[j].status)
      PROVE  CallsAreEntitled'
  <2>1. /\ call'[a].op = op /\ call'[a].status = jobs[j].status
        /\ \A b \in Actors : b # a => call'[b] = call[b]
    BY <1>1 DEF Begin, TypeOK
  <2> QED
    BY <1>1, <2>1 DEF CallsAreEntitled, InCall
<1>2. CASE \A a \in Actors : call'[a] \in {call[a], NoCall}
  BY <1>2 DEF CallsAreEntitled, InCall
<1> QED
  BY <1>1, <1>2 DEF EntitledKind

LEMMA EndOpensNone ==
    ASSUME TypeOK, NEW a \in Actors, End(a)
    PROVE  EntitledKind
BY DEF TypeOK, End, EntitledKind

LEMMA EntitledWorker ==
    ASSUME TypeOK, NEW w \in Workers, WorkerNext(w)
    PROVE  EntitledKind
<1>a. w \in Actors
  BY DEF Actors
<1>1. CASE UNCHANGED call
  BY <1>1 DEF EntitledKind
<1>2. ASSUME NEW j \in Jobs, claim_next_job_raises(w, j) PROVE EntitledKind
  BY <1>2, <1>a DEF claim_next_job_raises, Entitled, EntitledKind, CallOp
<1>3. ASSUME NEW op \in {"complete", "heartbeat"}, ReadLease(w, op) PROVE EntitledKind
  <2>1. work[w] \in Jobs /\ jobs[work[w]].status = "in_progress" /\ Begin(w, op, work[w])
    BY <1>3, WorkIsAJob DEF ReadLease, LeaseHeldBy
  <2>2. op \in CallOp /\ Entitled(op, jobs[work[w]].status)
    BY <1>3, <2>1 DEF CallOp, Entitled
  <2> QED
    BY <1>a, <2>1, <2>2 DEF EntitledKind
<1>4. CASE record_job_failure_reads(w)
  <2>1. work[w] \in Jobs /\ Begin(w, "fail", work[w]) /\ Entitled("fail", jobs[work[w]].status)
    BY <1>4, WorkIsAJob DEF record_job_failure_reads, Entitled
  <2> QED
    BY <1>a, <2>1 DEF EntitledKind, CallOp
<1>5. CASE End(w)
  BY <1>5, <1>a, EndOpensNone
<1> QED
  BY <1>1, <1>2, <1>3, <1>4, <1>5
  DEF WorkerNext, claim_next_job, claim_next_job_rolls_back, complete_job_reads,
      complete_job_writes, complete_job_raises, heartbeat_job_reads, heartbeat_job_writes,
      record_job_failure_writes, record_job_failure_raises, WorkerCrashes

LEMMA EntitledUser ==
    ASSUME TypeOK, NEW u \in Users, UserNext(u)
    PROVE  EntitledKind
<1>a. u \in Actors
  BY DEF Actors
<1>1. ASSUME NEW j \in Jobs, enqueue_job(u, j) PROVE EntitledKind
  BY <1>1 DEF enqueue_job, EntitledKind
<1>2. ASSUME NEW j \in Jobs, cancel_import_export_job_reads(u, j) PROVE EntitledKind
  BY <1>2, <1>a DEF cancel_import_export_job_reads, Entitled, EntitledKind, CallOp
<1>3. ASSUME NEW j \in Jobs, acknowledge_job_cancellation_reads(u, j) PROVE EntitledKind
  BY <1>3, <1>a DEF acknowledge_job_cancellation_reads, Entitled, EntitledKind, CallOp
<1>4. ASSUME NEW j \in Jobs, requeue_dead_letter_job_reads(u, j) PROVE EntitledKind
  BY <1>4, <1>a DEF requeue_dead_letter_job_reads, Entitled, EntitledKind, CallOp
<1>5. CASE End(u)
  BY <1>5, <1>a, EndOpensNone
<1> QED
  BY <1>1, <1>2, <1>3, <1>4, <1>5
  DEF UserNext, cancel_import_export_job_writes, acknowledge_job_cancellation_writes,
      requeue_dead_letter_job_writes

LEMMA EntitledStep ==
    ASSUME TypeOK, CallsAreEntitled, [Next]_vars
    PROVE  CallsAreEntitled'
<1>1. CASE TimeNext \/ UNCHANGED vars
  <2>1. UNCHANGED call
    BY <1>1 DEF TimeNext, LeaseExpires, BackoffElapses, vars
  <2> QED
    BY <2>1, EntitledKindKeeps DEF EntitledKind
<1> QED
  BY <1>1, EntitledWorker, EntitledUser, EntitledKindKeeps DEF Next

\* Changing one row, it is enough that this one stays final.
LEMMA OneStaysFinal ==
    ASSUME TypeOK, NEW j \in Jobs, NEW row, jobs' = [jobs EXCEPT ![j] = row],
           StaysFinal(jobs[j], row)
    PROVE  AllStayFinal
BY DEF TypeOK, AllStayFinal, StaysFinal

LEMMA NoneChanges ==
    ASSUME UNCHANGED jobs
    PROVE  AllStayFinal
BY DEF AllStayFinal, StaysFinal

\* A write that changes a row changes one that is as final as when it was read.
LEMMA WritesUnsettled ==
    ASSUME TypeOK, CallsAreEntitled, ~OverwritesSettled, NEW a \in Actors, NEW op,
           Writing(a, op), End(a), jobs' # jobs
    PROVE  /\ call[a].job \in Jobs
           /\ op \in {"complete", "fail", "cancel", "acknowledge"} =>
                  jobs[call[a].job].status \notin Settled
           /\ op = "requeue" => jobs[call[a].job].status \notin {"completed", "cancelled"}
<1>1. InCall(a) /\ call[a].op = op /\ Entitled(op, call[a].status) /\ call[a].job \in Jobs
  BY OpenCall DEF CallsAreEntitled, Writing
<1>2. jobs[call[a].job].status \in Settled => jobs[call[a].job].status = call[a].status
  BY <1>1 DEF OverwritesSettled
<1> QED
  BY <1>1, <1>2 DEF Entitled, FailureRefused, CancelRefused, Settled

LEMMA FinalWorker ==
    ASSUME TypeOK, CallsAreEntitled, ~OverwritesSettled, NEW w \in Workers, WorkerNext(w)
    PROVE  AllStayFinal
<1>a. w \in Actors
  BY DEF Actors
<1>0. CASE UNCHANGED jobs
  BY <1>0, NoneChanges
<1>1. ASSUME NEW j \in Jobs, claim_next_job(w, j) PROVE AllStayFinal
  BY <1>1, OneStaysFinal DEF claim_next_job, Selected, Claimable, StaysFinal
<1>2. CASE complete_job_writes(w) /\ jobs' # jobs
  BY <1>2, <1>a, WritesUnsettled, OneStaysFinal DEF complete_job_writes, StaysFinal, Settled
<1>3. CASE heartbeat_job_writes(w)
  <2> DEFINE j == call[w].job  row == HeartbeatRow(jobs[j])
  <2>1. j \in Jobs /\ jobs[j] \in Row
    BY <1>3, <1>a, OpenCall DEF heartbeat_job_writes
  <2>2. StaysFinal(jobs[j], row)
    BY <2>1 DEF StaysFinal, HeartbeatRow, Row
  <2>3. jobs' = [jobs EXCEPT ![j] = row]
    BY <1>3 DEF heartbeat_job_writes
  <2> HIDE DEF row
  <2> QED
    BY <2>1, <2>2, <2>3, OneStaysFinal
<1>4. CASE record_job_failure_writes(w) /\ jobs' # jobs
  <2> DEFINE j == call[w].job  row == FailedRow(jobs[j], call[w].attempts)
  <2>1. j \in Jobs /\ jobs[j].status \notin Settled
    BY <1>4, <1>a, WritesUnsettled DEF record_job_failure_writes
  <2>2. jobs' = [jobs EXCEPT ![j] = row]
    BY <1>4 DEF record_job_failure_writes
  <2> HIDE DEF row
  <2> QED
    BY <2>1, <2>2, OneStaysFinal DEF StaysFinal, Settled
<1> QED
  BY <1>0, <1>1, <1>2, <1>3, <1>4
  DEF WorkerNext, claim_next_job_raises, claim_next_job_rolls_back, complete_job_reads,
      complete_job_raises, heartbeat_job_reads, ReadLease, record_job_failure_reads,
      record_job_failure_raises, WorkerCrashes

LEMMA FinalUser ==
    ASSUME TypeOK, CallsAreEntitled, ~OverwritesSettled, NEW u \in Users, UserNext(u)
    PROVE  AllStayFinal
<1>a. u \in Actors
  BY DEF Actors
<1>0. CASE UNCHANGED jobs
  BY <1>0, NoneChanges
<1>1. ASSUME NEW j \in Jobs, enqueue_job(u, j) PROVE AllStayFinal
  BY <1>1, OneStaysFinal DEF enqueue_job, StaysFinal
<1>2. CASE cancel_import_export_job_writes(u) /\ jobs' # jobs
  BY <1>2, <1>a, WritesUnsettled, OneStaysFinal
  DEF cancel_import_export_job_writes, StaysFinal, Settled
<1>3. CASE acknowledge_job_cancellation_writes(u) /\ jobs' # jobs
  BY <1>3, <1>a, WritesUnsettled, OneStaysFinal
  DEF acknowledge_job_cancellation_writes, StaysFinal, Settled
<1>4. CASE requeue_dead_letter_job_writes(u) /\ jobs' # jobs
  <2> DEFINE j == call[u].job
  <2>1. j \in Jobs /\ jobs[j].status \notin {"completed", "cancelled"}
    BY <1>4, <1>a, WritesUnsettled DEF requeue_dead_letter_job_writes
  <2>2. StaysFinal(jobs[j], EnqueuedRow)
    BY <2>1 DEF StaysFinal, EnqueuedRow, AbsentRow
  <2> QED
    BY <1>4, <2>1, <2>2, OneStaysFinal DEF requeue_dead_letter_job_writes, RequeuedRow
<1> QED
  BY <1>0, <1>1, <1>2, <1>3, <1>4
  DEF UserNext, cancel_import_export_job_reads, acknowledge_job_cancellation_reads,
      requeue_dead_letter_job_reads

LEMMA FinalTime ==
    ASSUME TypeOK, TimeNext
    PROVE  AllStayFinal
<1>1. PICK j \in Jobs : LeaseExpires(j) \/ BackoffElapses(j)
  BY DEF TimeNext
<1>2. jobs[j].status \in {"in_progress", "pending"}
  BY <1>1 DEF LeaseExpires, BackoffElapses
<1>3. PICK row : jobs' = [jobs EXCEPT ![j] = row]
  BY <1>1 DEF LeaseExpires, BackoffElapses
<1> QED
  BY <1>2, <1>3, OneStaysFinal DEF StaysFinal

\* A completed or cancelled job is final, and a dead letter only goes back to the
\* queue with its attempts reset, whatever lapses, crashes and overlaps, unless a
\* write lands on a row that was settled after it was read.
THEOREM FinalStatus == Spec /\ [][~OverwritesSettled]_vars => TerminalIsFinal
<1>1. Init => TypeOK /\ CallsAreEntitled
  BY TypeInit DEF Init, CallsAreEntitled, InCall
<1>2. TypeOK /\ CallsAreEntitled /\ [Next]_vars => (TypeOK /\ CallsAreEntitled)'
  BY TypeStep, EntitledStep
<1>3. TypeOK /\ CallsAreEntitled /\ [Next]_vars /\ [~OverwritesSettled]_vars =>
        [\A j \in Jobs :
            /\ jobs[j].status \in {"completed", "cancelled"} => jobs'[j].status = jobs[j].status
            /\ jobs[j].status = "dead_letter" =>
                 \/ jobs'[j].status = "dead_letter"
                 \/ jobs'[j].status = "pending" /\ jobs'[j].attempts = 0]_vars
  <2>1. ASSUME TypeOK, CallsAreEntitled, Next, ~OverwritesSettled PROVE AllStayFinal
    BY <2>1, FinalWorker, FinalUser, FinalTime DEF Next
  <2> QED
    BY <2>1 DEF AllStayFinal, StaysFinal
<1> QED
  BY <1>1, <1>2, <1>3, PTL DEF Spec, TerminalIsFinal
=============================================================================
