------------------------------ MODULE JobQueue ------------------------------
(***************************************************************************)
(* The background job queue: the table app.jobs, the workers that lease    *)
(* rows of it from other processes, and the operators who cancel,          *)
(* acknowledge and requeue jobs.                                           *)
(*                                                                         *)
(* Each routine runs as one READ COMMITTED transaction of its own.         *)
(* claim_next_job selects its row FOR UPDATE and is a single step.  Every  *)
(* other routine SELECTs the row without a lock, decides, and then UPDATEs *)
(* it by job_id alone: those are two steps, a read that keeps what it saw  *)
(* in call[a] and a write that trusts it, and other transactions may       *)
(* commit in between.                                                      *)
(***************************************************************************)
EXTENDS JobRow

CONSTANTS
    Jobs,           \* the rows of one job type
    NoJob,
    Rank,           \* claim order: priority desc, created_at asc, first is least
    Users,          \* sessions of operators and requesters
    Overlap,        \* may transactions interleave?
    MaxLapses,      \* bound: leases that lapse while the job is in progress
    MaxCrashes,     \* bound: workers that die or forget their job
    MaxRequeues     \* bound: dead letters that operators requeue

ASSUME JobsAssumption == NoJob \notin Jobs
ASSUME RankAssumption == /\ Rank \in [Jobs -> Nat]
                         /\ \A j, k \in Jobs : Rank[j] = Rank[k] => j = k
ASSUME ActorsAssumption == Workers \cap Users = {}
ASSUME BoundsAssumption == /\ Overlap \in BOOLEAN
                           /\ MaxLapses \in Nat
                           /\ MaxCrashes \in Nat
                           /\ MaxRequeues \in Nat

VARIABLES
    jobs,       \* jobs[j]: the committed row of job j
    call,       \* call[a]: the transaction actor a is in the middle of
    work,       \* work[w]: the job worker w is executing
    leaseUp,    \* leaseUp[w]: the time w was promised for it has not passed
    runs,       \* runs[j]: executions of j since it was last queued (history)
    spent       \* how much of the three bounds is used up

vars == <<jobs, call, work, leaseUp, runs, spent>>

Actors == Workers \cup Users

\* runs is history: past this value it stops counting.
RunsCap == MaxAttempts + 2

CallOp == {"complete", "heartbeat", "fail", "cancel", "acknowledge", "requeue", "refused_claim"}

NoCall == [op |-> "none"]

\* What a call has read of its row and carries to its write.
Call == [op : CallOp, job : Jobs, status : Status, attempts : 0 .. MaxAttempts]

TypeOK ==
    /\ jobs \in [Jobs -> Row]
    /\ call \in [Actors -> Call \cup {NoCall}]
    /\ work \in [Workers -> Jobs \cup {NoJob}]
    /\ leaseUp \in [Workers -> BOOLEAN]
    /\ runs \in [Jobs -> 0 .. RunsCap]
    /\ spent \in [lapses : 0 .. MaxLapses, crashes : 0 .. MaxCrashes, requeues : 0 .. MaxRequeues]

Init ==
    /\ jobs = [j \in Jobs |-> AbsentRow]
    /\ call = [a \in Actors |-> NoCall]
    /\ work = [w \in Workers |-> NoJob]
    /\ leaseUp = [w \in Workers |-> FALSE]
    /\ runs = [j \in Jobs |-> 0]
    /\ spent = [lapses |-> 0, crashes |-> 0, requeues |-> 0]

-----------------------------------------------------------------------------

InCall(a) == call[a] # NoCall

\* Without Overlap, a transaction starts only when no other one is open.
MayStart(a) == /\ ~InCall(a)
               /\ Overlap \/ \A b \in Actors : ~InCall(b)

\* An open transaction may already hold the lock of the row it updates, and a
\* claim that is about to raise certainly does.
RowMayBeLocked(j) == \E a \in Actors : InCall(a) /\ call[a].job = j
RowIsLocked(j) == \E a \in Actors : InCall(a) /\ call[a].op = "refused_claim" /\ call[a].job = j

Begin(a, op, j) ==
    call' = [call EXCEPT ![a] = [op |-> op, job |-> j, status |-> jobs[j].status,
                                 attempts |-> jobs[j].attempts]]

End(a) == call' = [call EXCEPT ![a] = NoCall]

\* The worker's call returned or threw: it lets go of the job either way.
LetGo(w) == /\ work' = [work EXCEPT ![w] = NoJob]
            /\ leaseUp' = [leaseUp EXCEPT ![w] = FALSE]

\* The UPDATE of an open call, which waits while the row is locked.
Writing(a, op) == InCall(a) /\ call[a].op = op /\ ~RowIsLocked(call[a].job)

-----------------------------------------------------------------------------
(* Enqueueing.                                                              *)

enqueue_job(u, j) ==
    /\ MayStart(u)
    /\ jobs[j].status = "absent"
    /\ jobs' = [jobs EXCEPT ![j] = EnqueuedRow]
    /\ UNCHANGED <<call, work, leaseUp, runs, spent>>

-----------------------------------------------------------------------------
(* Workers.                                                                 *)

\* SELECT ... ORDER BY priority DESC, created_at ... FOR UPDATE SKIP LOCKED LIMIT 1
Selected(j) ==
    /\ Claimable(jobs[j])
    /\ ~RowIsLocked(j)
    /\ \A k \in Jobs : Claimable(jobs[k]) /\ Rank[k] < Rank[j] => RowMayBeLocked(k)

claim_next_job(w, j) ==
    /\ MayStart(w) /\ work[w] = NoJob
    /\ Selected(j)
    /\ jobs_attempts_check(ClaimedRow(jobs[j], w))
    /\ jobs' = [jobs EXCEPT ![j] = ClaimedRow(jobs[j], w)]
    /\ work' = [work EXCEPT ![w] = j]
    /\ leaseUp' = [leaseUp EXCEPT ![w] = TRUE]
    /\ runs' = [runs EXCEPT ![j] = IF @ < RunsCap THEN @ + 1 ELSE @]
    /\ UNCHANGED <<call, spent>>

\* The UPDATE breaks jobs_attempts_check: the claim raises, having locked the
\* row while it ran, and the caller gets no job at all.
claim_next_job_raises(w, j) ==
    /\ MayStart(w) /\ work[w] = NoJob
    /\ Selected(j)
    /\ ~jobs_attempts_check(ClaimedRow(jobs[j], w))
    /\ Begin(w, "refused_claim", j)
    /\ UNCHANGED <<jobs, work, leaseUp, runs, spent>>

claim_next_job_rolls_back(w) ==
    /\ InCall(w) /\ call[w].op = "refused_claim"
    /\ End(w)
    /\ UNCHANGED <<jobs, work, leaseUp, runs, spent>>

\* A routine that requires the lease: it goes on only if the row it read is
\* leased to its caller, and raises job_lease_not_held otherwise.
ReadLease(w, op) ==
    /\ MayStart(w) /\ work[w] # NoJob
    /\ LeaseHeldBy(jobs[work[w]], w)
    /\ Begin(w, op, work[w])
    /\ UNCHANGED <<jobs, work, leaseUp, runs, spent>>

complete_job_reads(w) == ReadLease(w, "complete")

complete_job_writes(w) ==
    /\ Writing(w, "complete")
    /\ jobs' = [jobs EXCEPT ![call[w].job] = CompletedRow(@)]
    /\ End(w) /\ LetGo(w)
    /\ UNCHANGED <<runs, spent>>

complete_job_raises(w) ==
    /\ MayStart(w) /\ work[w] # NoJob
    /\ ~LeaseHeldBy(jobs[work[w]], w)
    /\ LetGo(w)
    /\ UNCHANGED <<jobs, call, runs, spent>>

heartbeat_job_reads(w) == ReadLease(w, "heartbeat")

heartbeat_job_writes(w) ==
    /\ Writing(w, "heartbeat")
    /\ jobs' = [jobs EXCEPT ![call[w].job] = HeartbeatRow(@)]
    /\ leaseUp' = [leaseUp EXCEPT ![w] = TRUE]
    /\ End(w)
    /\ UNCHANGED <<work, runs, spent>>

record_job_failure_reads(w) ==
    /\ MayStart(w) /\ work[w] # NoJob
    /\ ~FailureRefused(jobs[work[w]].status)
    /\ Begin(w, "fail", work[w])
    /\ UNCHANGED <<jobs, work, leaseUp, runs, spent>>

\* Past max_attempts the UPDATE breaks jobs_attempts_check and the call raises.
record_job_failure_writes(w) ==
    /\ Writing(w, "fail")
    /\ LET j == call[w].job
           row == FailedRow(jobs[j], call[w].attempts)
       IN  jobs' = IF jobs_attempts_check(row) THEN [jobs EXCEPT ![j] = row] ELSE jobs
    /\ End(w) /\ LetGo(w)
    /\ UNCHANGED <<runs, spent>>

record_job_failure_raises(w) ==
    /\ MayStart(w) /\ work[w] # NoJob
    /\ FailureRefused(jobs[work[w]].status)
    /\ LetGo(w)
    /\ UNCHANGED <<jobs, call, runs, spent>>

-----------------------------------------------------------------------------
(* Operators and requesters.                                                *)

cancel_import_export_job_reads(u, j) ==
    /\ MayStart(u)
    /\ jobs[j].status # "absent"
    /\ ~CancelRefused(jobs[j].status)
    /\ Begin(u, "cancel", j)
    /\ UNCHANGED <<jobs, work, leaseUp, runs, spent>>

cancel_import_export_job_writes(u) ==
    /\ Writing(u, "cancel")
    /\ jobs' = [jobs EXCEPT ![call[u].job] = CancelledRow(@, call[u].status)]
    /\ End(u)
    /\ UNCHANGED <<work, leaseUp, runs, spent>>

acknowledge_job_cancellation_reads(u, j) ==
    /\ MayStart(u)
    /\ jobs[j].status = "cancelling"
    /\ Begin(u, "acknowledge", j)
    /\ UNCHANGED <<jobs, work, leaseUp, runs, spent>>

acknowledge_job_cancellation_writes(u) ==
    /\ Writing(u, "acknowledge")
    /\ jobs' = [jobs EXCEPT ![call[u].job] = AcknowledgedRow(@)]
    /\ End(u)
    /\ UNCHANGED <<work, leaseUp, runs, spent>>

requeue_dead_letter_job_reads(u, j) ==
    /\ MayStart(u)
    /\ spent.requeues < MaxRequeues
    /\ jobs[j].status = "dead_letter"
    /\ Begin(u, "requeue", j)
    /\ spent' = [spent EXCEPT !.requeues = @ + 1]
    /\ UNCHANGED <<jobs, work, leaseUp, runs>>

requeue_dead_letter_job_writes(u) ==
    /\ Writing(u, "requeue")
    /\ jobs' = [jobs EXCEPT ![call[u].job] = RequeuedRow(@)]
    /\ runs' = [runs EXCEPT ![call[u].job] = 0]
    /\ End(u)
    /\ UNCHANGED <<work, leaseUp, spent>>

-----------------------------------------------------------------------------
(* Time and faults.                                                         *)

\* locked_until passes.  Only a lease that claim_next_job would look at matters.
LeaseExpires(j) ==
    /\ spent.lapses < MaxLapses
    /\ jobs[j].status = "in_progress" /\ jobs[j].lease = "live"
    /\ Overlap \/ \A a \in Actors : ~InCall(a)
    /\ jobs' = [jobs EXCEPT ![j].lease = "lapsed"]
    /\ leaseUp' = [w \in Workers |-> leaseUp[w] /\ ~(w = jobs[j].locked_by /\ work[w] = j)]
    /\ spent' = [spent EXCEPT !.lapses = @ + 1]
    /\ UNCHANGED <<call, work, runs>>

\* next_attempt_at passes.
BackoffElapses(j) ==
    /\ jobs[j].status = "pending" /\ ~jobs[j].due
    /\ Overlap \/ \A a \in Actors : ~InCall(a)
    /\ jobs' = [jobs EXCEPT ![j].due = TRUE]
    /\ UNCHANGED <<call, work, leaseUp, runs, spent>>

\* The worker process dies: an open transaction rolls back.
WorkerCrashes(w) ==
    /\ spent.crashes < MaxCrashes
    /\ work[w] # NoJob
    /\ End(w) /\ LetGo(w)
    /\ spent' = [spent EXCEPT !.crashes = @ + 1]
    /\ UNCHANGED <<jobs, runs>>

-----------------------------------------------------------------------------

WorkerNext(w) ==
    \/ \E j \in Jobs : claim_next_job(w, j)
    \/ \E j \in Jobs : claim_next_job_raises(w, j)
    \/ claim_next_job_rolls_back(w)
    \/ complete_job_reads(w)
    \/ complete_job_writes(w)
    \/ complete_job_raises(w)
    \/ heartbeat_job_reads(w)
    \/ heartbeat_job_writes(w)
    \/ record_job_failure_reads(w)
    \/ record_job_failure_writes(w)
    \/ record_job_failure_raises(w)
    \/ WorkerCrashes(w)

UserNext(u) ==
    \/ \E j \in Jobs : enqueue_job(u, j)
    \/ \E j \in Jobs : cancel_import_export_job_reads(u, j)
    \/ cancel_import_export_job_writes(u)
    \/ \E j \in Jobs : acknowledge_job_cancellation_reads(u, j)
    \/ acknowledge_job_cancellation_writes(u)
    \/ \E j \in Jobs : requeue_dead_letter_job_reads(u, j)
    \/ requeue_dead_letter_job_writes(u)

TimeNext == \E j \in Jobs : LeaseExpires(j) \/ BackoffElapses(j)

Next == \/ \E w \in Workers : WorkerNext(w)
        \/ \E u \in Users : UserNext(u)
        \/ TimeNext

Spec == Init /\ [][Next]_vars

(* What the scheduling of the workers justifies.  The supervisor polls      *)
(* without end, a handler always returns (its HTTP call has a 10 second     *)
(* timeout) even if it heartbeats meanwhile, a statement that waits for a   *)
(* row lock gets it, and time passes.  Nothing makes a lease lapse, a       *)
(* worker crash, or an operator act.                                        *)

Finishes(w) == \/ complete_job_reads(w) \/ complete_job_raises(w)
               \/ record_job_failure_reads(w) \/ record_job_failure_raises(w)

Writes(w) == \/ complete_job_writes(w) \/ heartbeat_job_writes(w)
             \/ record_job_failure_writes(w) \/ claim_next_job_rolls_back(w)

Fairness ==
    /\ \A w \in Workers :
        /\ WF_vars(\E j \in Jobs : claim_next_job(w, j) \/ claim_next_job_raises(w, j))
        /\ SF_vars(Finishes(w))
        /\ WF_vars(Writes(w))
    /\ \A u \in Users : WF_vars(\/ cancel_import_export_job_writes(u)
                                 \/ acknowledge_job_cancellation_writes(u)
                                 \/ requeue_dead_letter_job_writes(u))
    /\ \A j \in Jobs : WF_vars(BackoffElapses(j))

FairSpec == Spec /\ Fairness

-----------------------------------------------------------------------------
(* Safety.                                                                  *)

\* However the calls interleave, a job in progress has an owner and a deadline:
\* the WHERE clause of claim_next_job will find it again once its worker is gone.
\* (No routine may leave in_progress behind with a null locked_until.)
LeasedRowIsReclaimable ==
    \A j \in Jobs : jobs[j].status = "in_progress" =>
        jobs[j].locked_by # NoWorker /\ jobs[j].lease # "none"

\* A pending job always has an attempt left and a dead letter never has, even
\* though record_job_failure writes a count that may be stale by the time it lands.
AttemptsMatchStatus ==
    \A j \in Jobs :
        /\ jobs[j].status = "pending" => jobs[j].attempts < MaxAttempts
        /\ jobs[j].status = "dead_letter" => jobs[j].attempts = MaxAttempts

\* Two workers execute one job at once only if the lease of one of them ran out:
\* "no two live workers own the same lease".
ExclusiveExecution ==
    \A v, w \in Workers :
        v # w /\ work[v] = work[w] /\ work[v] # NoJob => ~(leaseUp[v] /\ leaseUp[w])

\* The retry budget is honoured: every execution beyond the first since a job was
\* queued has been paid for with an attempt, by record_job_failure or by the
\* re-claim of a lapsed lease.
RetryBudget ==
    \A j \in Jobs :
        /\ runs[j] <= jobs[j].attempts + 1
        /\ jobs[j].status = "pending" => runs[j] <= jobs[j].attempts

-----------------------------------------------------------------------------
(* Action properties.                                                       *)

\* A completed or cancelled job is final, and a dead letter only ever goes back
\* to the queue, with its attempts reset.
TerminalIsFinal ==
    [][\A j \in Jobs :
        /\ jobs[j].status \in {"completed", "cancelled"} => jobs'[j].status = jobs[j].status
        /\ jobs[j].status = "dead_letter" =>
             \/ jobs'[j].status = "dead_letter"
             \/ jobs'[j].status = "pending" /\ jobs'[j].attempts = 0]_vars

-----------------------------------------------------------------------------
(* Liveness, under FairSpec.                                                *)

\* While no lease lapses, every queued job is executed until it is settled.
EveryJobSettles ==
    \A j \in Jobs :
        jobs[j].status = "pending" ~>
            jobs[j].status \in {"completed", "dead_letter", "cancelling", "cancelled"}
=============================================================================
