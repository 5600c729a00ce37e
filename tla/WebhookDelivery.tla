-------------------------- MODULE WebhookDelivery --------------------------
(***************************************************************************)
(* Deliveries of events to one webhook endpoint.  Two records of one retry *)
(* are kept apart: the row of app.webhook_deliveries, which counts the     *)
(* recorded attempts, and the row of app.jobs that a worker claims to make *)
(* the next one (JobRow).  A worker goes from one RPC to the next, each a  *)
(* transaction of its own and a single step here; in between, it may die,  *)
(* its lease may lapse, and operators act on the delivery and the endpoint.*)
(***************************************************************************)
EXTENDS Integers, FiniteSets

CONSTANTS
    Deliveries,
    Workers,
    NoWorker,
    MaxAttempts,    \* max_attempts of a queued delivery
    DisableAfter,   \* consecutive failures that disable the endpoint: 10
    MaxReplays,     \* bound: replays of each delivery
    MaxMishaps      \* bound: workers that die, and leases that lapse under a live one

ASSUME WorkersAssumption == NoWorker \notin Workers
ASSUME AttemptsAssumption == /\ MaxAttempts \in Nat \ {0, 1}    \* 5: more than a test's one
                             /\ DisableAfter \in Nat \ {0}
ASSUME BoundsAssumption == /\ MaxReplays \in Nat
                           /\ MaxMishaps \in Nat

VARIABLES
    deliveries,     \* app.webhook_deliveries
    endpoint,       \* app.webhook_endpoints, one row
    jobs,           \* app.jobs: <<d, n>> is the job of the n-th replay of d
    budget,         \* budget[j]: max_attempts of job j
    worker,         \* what each worker is about to do, and for which job
    accepted,       \* deliveries the endpoint answered with a 2xx (history)
    spent           \* how much of the bounds is used up

vars == <<deliveries, endpoint, jobs, budget, worker, accepted, spent>>

Jobs == Deliveries \X (0 .. MaxReplays)

\* The job framework, for a row whose max_attempts is n.
Framework(n) == INSTANCE JobRow WITH MaxAttempts <- n

Step == {"idle", "read", "post", "report_success", "report_failure", "complete", "fail"}

Idle == [step |-> "idle"]

DeliveryRow == [status : {"absent", "pending", "delivered", "dead_letter"},
                attempts : Nat, max_attempts : Nat \ {0}]

\* The types, with the CHECKs of both tables (attempts never exceed the budget
\* of their row) and the endpoint's: it is not active past DisableAfter failures.
TypeOK ==
    /\ deliveries \in [Deliveries -> DeliveryRow]
    /\ \A d \in Deliveries : deliveries[d].attempts <= deliveries[d].max_attempts
    /\ endpoint \in [status : {"active", "disabled"}, failures : Nat]
    /\ endpoint.failures >= DisableAfter => endpoint.status = "disabled"
    /\ budget \in [Jobs -> Nat \ {0}]
    /\ DOMAIN jobs = Jobs
    /\ \A j \in Jobs : jobs[j] \in Framework(budget[j])!Row
    /\ worker \in [Workers -> {Idle} \cup [step : Step \ {"idle"}, job : Jobs]]
    /\ accepted \in SUBSET Deliveries
    /\ spent \in [replays : [Deliveries -> 0 .. MaxReplays], mishaps : 0 .. MaxMishaps]

Init ==
    /\ deliveries = [d \in Deliveries |->
                        [status |-> "absent", attempts |-> 0, max_attempts |-> MaxAttempts]]
    /\ endpoint = [status |-> "active", failures |-> 0]
    /\ jobs = [j \in Jobs |-> Framework(MaxAttempts)!AbsentRow]
    /\ budget = [j \in Jobs |-> MaxAttempts]
    /\ worker = [w \in Workers |-> Idle]
    /\ accepted = {}
    /\ spent = [replays |-> [d \in Deliveries |-> 0], mishaps |-> 0]

-----------------------------------------------------------------------------
(* Queueing, and the operators.                                             *)

enqueue_job(j, max_attempts) ==
    /\ jobs' = [jobs EXCEPT ![j] = Framework(max_attempts)!EnqueuedRow]
    /\ budget' = [budget EXCEPT ![j] = max_attempts]

Queue(d, max_attempts) ==
    /\ deliveries[d].status = "absent"
    /\ deliveries' = [deliveries EXCEPT ![d] =
                         [status |-> "pending", attempts |-> 0, max_attempts |-> max_attempts]]
    /\ enqueue_job(<<d, 0>>, max_attempts)
    /\ UNCHANGED <<endpoint, worker, accepted, spent>>

\* For an endpoint that subscribes to the event and is active.
queue_webhook_delivery(d) == endpoint.status = "active" /\ Queue(d, MaxAttempts)

send_test_webhook_delivery(d) == Queue(d, 1)

\* A fresh budget on top of what was used: attempts are never reset.
ReplayBudget_not_extended(d) == deliveries[d].max_attempts
ReplayBudget(d) == deliveries[d].attempts + deliveries[d].max_attempts

replay_webhook_delivery(d) ==
    LET n == spent.replays[d] + 1
    IN  /\ deliveries[d].status = "dead_letter"
        /\ n <= MaxReplays
        /\ deliveries' = [deliveries EXCEPT ![d].status = "pending", ![d].max_attempts = ReplayBudget(d)]
        /\ enqueue_job(<<d, n>>, ReplayBudget(d))
        /\ spent' = [spent EXCEPT !.replays[d] = n]
        /\ UNCHANGED <<endpoint, worker, accepted>>

SetEndpoint(status, failures) ==
    /\ endpoint' = [status |-> status, failures |-> failures]
    /\ UNCHANGED <<deliveries, jobs, budget, worker, accepted, spent>>

disable_webhook_endpoint == endpoint.status = "active" /\ SetEndpoint("disabled", endpoint.failures)

reenable_webhook_endpoint == SetEndpoint("active", 0)

-----------------------------------------------------------------------------
(* A worker: claim, read, POST, report to the delivery, report to the job.  *)

Doing(w, step) == worker[w].step = step
JobOf(w) == worker[w].job
DeliveryOf(w) == worker[w].job[1]

GoesTo(w, step) == worker' = [worker EXCEPT ![w].step = step]
LetGo(w) == worker' = [worker EXCEPT ![w] = Idle]

Claimable(j) == Framework(budget[j])!Claimable(jobs[j])

\* A replay is enqueued with a higher priority, and a test, whose one attempt tells
\* it apart, with the highest; the order by age is left open.
Priority(j) == IF j[2] > 0 THEN 5 ELSE IF budget[j] = 1 THEN 10 ELSE 0

\* The claim that would break jobs_attempts_check raises and changes nothing.
claim_next_job(w, j) ==
    /\ Doing(w, "idle")
    /\ Claimable(j)
    /\ \A k \in Jobs : Claimable(k) => Priority(k) <= Priority(j)
    /\ LET row == Framework(budget[j])!ClaimedRow(jobs[j], w)
       IN  /\ Framework(budget[j])!jobs_attempts_check(row)
           /\ jobs' = [jobs EXCEPT ![j] = row]
    /\ worker' = [worker EXCEPT ![w] = [step |-> "read", job |-> j]]
    /\ UNCHANGED <<deliveries, endpoint, budget, accepted, spent>>

Terminal(d) == deliveries[d].status \in {"delivered", "dead_letter"}

\* The delivery and its endpoint are read in one statement, and trusted from here on.
get_webhook_delivery_dispatch_info(w) ==
    /\ Doing(w, "read")
    /\ CASE Terminal(DeliveryOf(w)) -> GoesTo(w, "complete")
         [] ~Terminal(DeliveryOf(w)) /\ endpoint.status = "disabled" -> GoesTo(w, "report_failure")
         [] OTHER -> GoesTo(w, "post") \/ GoesTo(w, "report_failure")    \* checkUrlSafety
    /\ UNCHANGED <<deliveries, endpoint, jobs, budget, accepted, spent>>

\* The endpoint answers with a 2xx, or with anything else, or not in time; an
\* answer that is not a 2xx says nothing of what the endpoint did.
Success_if_answered(answer) == answer # "none"
Success(answer) == answer = "2xx"

POST(w) ==
    /\ Doing(w, "post")
    /\ \E answer \in {"2xx", "other", "none"} :
          /\ accepted' = IF answer = "2xx" THEN accepted \cup {DeliveryOf(w)} ELSE accepted
          /\ GoesTo(w, IF Success(answer) THEN "report_success" ELSE "report_failure")
    /\ UNCHANGED <<deliveries, endpoint, jobs, budget, spent>>

\* record_webhook_delivery_attempt takes no attempt of a terminal delivery: it
\* raises, the error ends the worker's run, and the job stays leased.
AttemptRefused_misses_dead_letter(d) == deliveries[d].status = "delivered"
AttemptRefused(d) == Terminal(d)

Exhausted_off_by_one(attempts, max_attempts) == attempts > max_attempts
Exhausted(attempts, max_attempts) == attempts >= max_attempts

record_webhook_delivery_attempt_raises(w) ==
    /\ worker[w].step \in {"report_success", "report_failure"}
    /\ AttemptRefused(DeliveryOf(w))
    /\ LetGo(w)
    /\ UNCHANGED <<deliveries, endpoint, jobs, budget, accepted, spent>>

record_webhook_delivery_attempt_success(w) ==
    LET d == DeliveryOf(w) IN
    /\ Doing(w, "report_success") /\ ~AttemptRefused(d)
    /\ deliveries' = [deliveries EXCEPT ![d].attempts = @ + 1, ![d].status = "delivered"]
    /\ endpoint' = [endpoint EXCEPT !.failures = 0]
    /\ GoesTo(w, "complete")
    /\ UNCHANGED <<jobs, budget, accepted, spent>>

record_webhook_delivery_attempt_failed(w) ==
    LET d == DeliveryOf(w)
        attempts == deliveries[d].attempts + 1
        failures == endpoint.failures + 1
    IN  /\ Doing(w, "report_failure") /\ ~AttemptRefused(d)
        /\ deliveries' = [deliveries EXCEPT ![d].attempts = attempts,
              ![d].status = IF Exhausted(attempts, deliveries[d].max_attempts)
                            THEN "dead_letter" ELSE @]
        /\ endpoint' = [failures |-> failures,
              status |-> IF failures >= DisableAfter THEN "disabled" ELSE endpoint.status]
        /\ GoesTo(w, "fail")
        /\ UNCHANGED <<jobs, budget, accepted, spent>>

\* Both reports to the job leave the worker idle; one that is refused, or that
\* would break jobs_attempts_check, raises, which ends the worker's run and
\* changes nothing.
complete_job(w) ==
    /\ Doing(w, "complete")
    /\ LET j == JobOf(w) IN
       jobs' = IF Framework(budget[j])!LeaseHeldBy(jobs[j], w)
               THEN [jobs EXCEPT ![j] = Framework(budget[j])!CompletedRow(@)] ELSE jobs
    /\ LetGo(w)
    /\ UNCHANGED <<deliveries, endpoint, budget, accepted, spent>>

record_job_failure(w) ==
    /\ Doing(w, "fail")
    /\ LET j == JobOf(w)
           row == Framework(budget[j])!FailedRow(jobs[j], jobs[j].attempts)
       IN  jobs' = IF ~Framework(budget[j])!FailureRefused(jobs[j].status)
                      /\ Framework(budget[j])!jobs_attempts_check(row)
                   THEN [jobs EXCEPT ![j] = row] ELSE jobs
    /\ LetGo(w)
    /\ UNCHANGED <<deliveries, endpoint, budget, accepted, spent>>

-----------------------------------------------------------------------------
(* Time, and workers that die.                                              *)

Mishap == /\ spent.mishaps < MaxMishaps
          /\ spent' = [spent EXCEPT !.mishaps = @ + 1]

Held(j) == \E w \in Workers : ~Doing(w, "idle") /\ JobOf(w) = j

\* A lease is 300 seconds, a POST at most 10: a lease lapses once its worker has
\* gone, and under a live worker only if that worker is suspended.
LeaseExpires(j) ==
    /\ jobs[j].status = "in_progress" /\ jobs[j].lease = "live"
    /\ jobs' = [jobs EXCEPT ![j].lease = "lapsed"]
    /\ IF Held(j) THEN Mishap ELSE UNCHANGED spent
    /\ UNCHANGED <<deliveries, endpoint, budget, worker, accepted>>

BackoffElapses(j) ==
    /\ jobs[j].status = "pending" /\ ~jobs[j].due
    /\ jobs' = [jobs EXCEPT ![j].due = TRUE]
    /\ UNCHANGED <<deliveries, endpoint, budget, worker, accepted, spent>>

WorkerCrashes(w) ==
    /\ ~Doing(w, "idle")
    /\ Mishap
    /\ LetGo(w)
    /\ UNCHANGED <<deliveries, endpoint, jobs, budget, accepted>>

Proceeds(w) == \/ \E j \in Jobs : claim_next_job(w, j)
               \/ get_webhook_delivery_dispatch_info(w)
               \/ POST(w)
               \/ record_webhook_delivery_attempt_raises(w)
               \/ record_webhook_delivery_attempt_success(w)
               \/ record_webhook_delivery_attempt_failed(w)
               \/ complete_job(w)
               \/ record_job_failure(w)

Operator == \/ \E d \in Deliveries : \/ queue_webhook_delivery(d)
                                     \/ send_test_webhook_delivery(d)
                                     \/ replay_webhook_delivery(d)
            \/ disable_webhook_endpoint
            \/ reenable_webhook_endpoint

Next == \/ \E w \in Workers : Proceeds(w) \/ WorkerCrashes(w)
        \/ Operator
        \/ \E j \in Jobs : LeaseExpires(j) \/ BackoffElapses(j)

Spec == Init /\ [][Next]_vars

\* The supervisor polls without end, every RPC and POST returns, and time passes.
FairSpec == /\ Spec
            /\ \A w \in Workers : WF_vars(Proceeds(w))
            /\ \A j \in Jobs : WF_vars(BackoffElapses(j)) /\ WF_vars(LeaseExpires(j) /\ ~Held(j))

-----------------------------------------------------------------------------
(* Properties.                                                              *)

Undisturbed == spent.mishaps = 0

\* A job that will still be claimed, or is being worked on.
Unsettled(j) == jobs[j].status \in {"pending", "in_progress"}

\* The two retry records are "kept numerically aligned": a delivery that is
\* still owed has a job that will make the next attempt.
PendingHasJob ==
    \A d \in Deliveries : deliveries[d].status = "pending" =>
        \E n \in 0 .. MaxReplays : Unsettled(<<d, n>>)

\* As long as no worker dies or overruns its lease, they are: no interleaving of
\* failures, replays and endpoint changes strands a delivery.
PendingHasJobUndisturbed == Undisturbed => PendingHasJob

\* A delivery recorded as delivered was accepted by the endpoint, whoever of its
\* workers reported it and whatever became of the others.
DeliveredWasAccepted ==
    \A d \in Deliveries : deliveries[d].status = "delivered" => d \in accepted

\* One worker at a time dispatches a delivery, unless one of them died or
\* overran its lease, or the delivery was replayed more than once.
OneDispatcher ==
    Undisturbed => \A v, w \in Workers :
        v # w /\ Doing(v, "post") /\ Doing(w, "post") /\ DeliveryOf(v) = DeliveryOf(w) =>
            spent.replays[DeliveryOf(w)] > 1

\* A delivered event is settled for good; a dead letter leaves that state only
\* for a replay, with attempts to spend and its history kept.
TerminalIsFinal ==
    [][\A d \in Deliveries :
        /\ deliveries[d].status = "delivered" => deliveries'[d] = deliveries[d]
        /\ deliveries[d].status = "dead_letter" =>
             \/ deliveries'[d] = deliveries[d]
             \/ /\ deliveries'[d].status = "pending"
                /\ deliveries'[d].attempts = deliveries[d].attempts
                /\ deliveries'[d].max_attempts > deliveries[d].attempts]_vars

\* A delivery that is owed is delivered or dead-lettered in the end, unless a
\* worker died or overran its lease on the way.
DeliverySettles ==
    \A d \in Deliveries :
        deliveries[d].status = "pending" ~> Terminal(d) \/ ~Undisturbed
=============================================================================
