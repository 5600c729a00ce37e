------------------------------- MODULE JobRow -------------------------------
(***************************************************************************)
(* One row of app.jobs and what each routine of the job framework writes   *)
(* into it.  Every operator here is a pure function of a row: who calls    *)
(* it, when, and on which reading of the row is the business of the        *)
(* modules that use it (JobQueue, WebhookDelivery).                        *)
(*                                                                         *)
(* Time is abstracted to the two comparisons with now() that the code      *)
(* makes: whether locked_until has passed, and whether next_attempt_at is  *)
(* null or has passed.                                                     *)
(***************************************************************************)
EXTENDS Integers

CONSTANTS
    Workers,        \* worker ids, the values locked_by can take
    NoWorker,       \* locked_by is null
    MaxAttempts     \* max_attempts, the same for every row

ASSUME WorkersAssumption == NoWorker \notin Workers
ASSUME AttemptsAssumption == MaxAttempts \in Nat \ {0}

\* "absent" is a row that has not been inserted yet; the other values are those
\* of the CHECK constraint on status that the framework itself ever writes.
Status == {"absent", "pending", "in_progress", "cancelling",
           "cancelled", "completed", "dead_letter"}

Row == [status : Status,
        attempts : 0 .. MaxAttempts,
        locked_by : Workers \cup {NoWorker},
        lease : {"none", "live", "lapsed"},     \* locked_until: null, future, past
        due : BOOLEAN]                          \* next_attempt_at is null or <= now()

\* Mutant: the table without its upper bound.
jobs_attempts_check_unbounded(row) == row.attempts >= 0

\* The table's CHECK on attempts: an UPDATE that breaks it raises and changes nothing.
jobs_attempts_check(row) == row.attempts \in 0 .. MaxAttempts

AbsentRow == [status |-> "absent", attempts |-> 0, locked_by |-> NoWorker,
              lease |-> "none", due |-> TRUE]

EnqueuedRow == [AbsentRow EXCEPT !.status = "pending"]

-----------------------------------------------------------------------------
(* The WHERE clause of claim_next_job, and its UPDATE: a lease-expiry       *)
(* re-claim counts as an attempt, the claim of a pending job does not.      *)

\* Mutants: a lease that is honoured by nobody; the last attempt never taken.
Claimable_ignores_lease(row) ==
    \/ row.status = "pending" /\ row.due
    \/ row.status = "in_progress"

Claimable_keeps_last_attempt(row) ==
    \/ row.status = "pending" /\ row.due /\ row.attempts + 1 < MaxAttempts
    \/ row.status = "in_progress" /\ row.lease = "lapsed"

Claimable(row) ==
    \/ row.status = "pending" /\ row.due
    \/ row.status = "in_progress" /\ row.lease = "lapsed"

\* Mutants: locked_until forgotten; a re-claim that costs nothing.
ClaimedRow_without_deadline(row, w) ==
    [row EXCEPT !.status = "in_progress", !.locked_by = w, !.due = TRUE]

ClaimedRow_free_reclaim(row, w) ==
    [row EXCEPT !.status = "in_progress", !.locked_by = w, !.lease = "live", !.due = TRUE]

ClaimedRow(row, w) ==
    [status |-> "in_progress",
     attempts |-> IF row.status = "in_progress" THEN row.attempts + 1 ELSE row.attempts,
     locked_by |-> w,
     lease |-> "live",
     due |-> TRUE]

-----------------------------------------------------------------------------
(* complete_job and heartbeat_job share one guard.                          *)

LeaseHeldBy(row, w) == row.status = "in_progress" /\ row.locked_by = w

CompletedRow(row) ==
    [row EXCEPT !.status = "completed", !.locked_by = NoWorker,
                !.lease = "none", !.due = TRUE]

HeartbeatRow(row) == [row EXCEPT !.lease = "live"]

-----------------------------------------------------------------------------
(* record_job_failure takes no worker id, so its guard is about the status  *)
(* alone; its UPDATE writes the attempts it READ plus one.                  *)

\* Mutant: a completed job can fail.
FailureRefused_misses_completed(status) == status \in {"cancelled", "dead_letter"}

FailureRefused(status) == status \in {"completed", "cancelled", "dead_letter"}

\* Mutant: dead-lettered one failure too late.
FailedRow_off_by_one(row, attemptsRead) ==
    LET deadLetter == attemptsRead + 1 > MaxAttempts
    IN  [status |-> IF deadLetter THEN "dead_letter" ELSE "pending",
         attempts |-> attemptsRead + 1,
         locked_by |-> NoWorker, lease |-> "none", due |-> deadLetter]

FailedRow(row, attemptsRead) ==
    LET deadLetter == attemptsRead + 1 >= MaxAttempts
    IN  [status |-> IF deadLetter THEN "dead_letter" ELSE "pending",
         attempts |-> attemptsRead + 1,
         locked_by |-> NoWorker,
         lease |-> "none",
         due |-> deadLetter]        \* a retry waits for its backoff

-----------------------------------------------------------------------------
(* The operator's calls: cancel, acknowledge the cancellation, requeue.     *)

CancelRefused(status) == status \in {"completed", "cancelled", "failed", "dead_letter"}

\* The status written depends on the status READ; the lease is left as it is.
CancelledRow(row, statusRead) ==
    [row EXCEPT !.status = IF statusRead = "pending" THEN "cancelled" ELSE "cancelling"]

AcknowledgedRow(row) ==
    [row EXCEPT !.status = "cancelled", !.locked_by = NoWorker,
                !.lease = "none", !.due = TRUE]

RequeuedRow(row) == EnqueuedRow
=============================================================================
