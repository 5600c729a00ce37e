----------------------- MODULE WebhookDeliveryProofs -----------------------
(***************************************************************************)
(* For any deliveries, workers, budgets, replays, crashes and lapsed       *)
(* leases: what a delivery's status says of the endpoint, whatever becomes *)
(* of its jobs; the types, with the attempts a delivery has left; and, as  *)
(* long as nobody dies or overruns, that the two retry records of a        *)
(* delivery, its own and its job's, never drift apart.                     *)
(***************************************************************************)
EXTENDS WebhookDelivery, TLAPS

\* A worker that is not idle has a job.
WorkersHaveJobs == worker \in [Workers -> {Idle} \cup [step : Step \ {"idle"}, job : Jobs]]

\* A worker about to report a success has seen the endpoint accept the delivery.
ReportsAreTrue == \A w \in Workers : Doing(w, "report_success") => DeliveryOf(w) \in accepted

DeliveryRows == deliveries \in [Deliveries -> DeliveryRow]

AcceptedInv == WorkersHaveJobs /\ ReportsAreTrue /\ DeliveryRows /\ DeliveredWasAccepted

-----------------------------------------------------------------------------
(* What a step does to the workers.                                         *)

LEMMA BusyWorker ==
    ASSUME WorkersHaveJobs, NEW w \in Workers, ~Doing(w, "idle")
    PROVE  /\ worker[w] \in [step : Step \ {"idle"}, job : Jobs]
           /\ DeliveryOf(w) \in Deliveries
<1>1. worker[w] \in [step : Step \ {"idle"}, job : Jobs]
  BY DEF WorkersHaveJobs, Doing, Idle
<1> QED BY <1>1 DEF DeliveryOf, Jobs

LEMMA StepTaken ==
    ASSUME WorkersHaveJobs, NEW w \in Workers, ~Doing(w, "idle"),
           NEW step \in Step \ {"idle"}, GoesTo(w, step)
    PROVE  /\ WorkersHaveJobs'
           /\ worker'[w].step = step
           /\ JobOf(w)' = JobOf(w) /\ DeliveryOf(w)' = DeliveryOf(w)
           /\ \A v \in Workers \ {w} : worker'[v] = worker[v]
<1>1. worker[w] \in [step : Step \ {"idle"}, job : Jobs]
  BY BusyWorker
<1>2. worker' = [worker EXCEPT ![w].step = step]
  BY DEF GoesTo
<1>3. worker'[w] = [worker[w] EXCEPT !.step = step]
  BY <1>2 DEF WorkersHaveJobs
<1>4. /\ worker'[w] \in [step : Step \ {"idle"}, job : Jobs]
      /\ worker'[w].step = step /\ worker'[w].job = worker[w].job
  BY <1>1, <1>3
<1>5. \A v \in Workers \ {w} : worker'[v] = worker[v]
  BY <1>2 DEF WorkersHaveJobs
<1>6. WorkersHaveJobs'
  BY <1>2, <1>4, <1>5 DEF WorkersHaveJobs
<1> QED BY <1>4, <1>5, <1>6 DEF DeliveryOf, JobOf

LEMMA WorkerGone ==
    ASSUME WorkersHaveJobs, NEW w \in Workers, LetGo(w)
    PROVE  /\ WorkersHaveJobs'
           /\ worker'[w].step = "idle"
           /\ \A v \in Workers \ {w} : worker'[v] = worker[v]
BY DEF WorkersHaveJobs, LetGo, Idle

\* A step by which no worker starts to report a success keeps the reports true.
LEMMA NoNewReport ==
    ASSUME AcceptedInv, NEW w \in Workers, accepted \subseteq accepted',
           worker'[w].step # "report_success",
           \A v \in Workers \ {w} : worker'[v] = worker[v]
    PROVE  ReportsAreTrue'
BY DEF AcceptedInv, ReportsAreTrue, Doing, DeliveryOf

\* Deliveries that nobody touches stay as true as they were.
LEMMA DeliveriesUntouched ==
    ASSUME AcceptedInv, UNCHANGED deliveries, accepted \subseteq accepted'
    PROVE  DeliveryRows' /\ DeliveredWasAccepted'
BY DEF AcceptedInv, DeliveryRows, DeliveredWasAccepted

\* One delivery is written, and not recorded as delivered.
LEMMA DeliveryWritten ==
    ASSUME AcceptedInv, UNCHANGED accepted, NEW d \in Deliveries,
           NEW row \in DeliveryRow,
           row.status = "delivered" => d \in accepted,
           deliveries' = [deliveries EXCEPT ![d] = row]
    PROVE  DeliveryRows' /\ DeliveredWasAccepted'
BY DEF AcceptedInv, DeliveryRows, DeliveredWasAccepted

-----------------------------------------------------------------------------

LEMMA WorkerStep ==
    ASSUME AcceptedInv, NEW w \in Workers, Proceeds(w)
    PROVE  AcceptedInv'
<1> USE DEF AcceptedInv
<1>1. ASSUME NEW j \in Jobs, claim_next_job(w, j) PROVE AcceptedInv'
  <2>1. worker' = [worker EXCEPT ![w] = [step |-> "read", job |-> j]] /\ UNCHANGED <<deliveries, accepted>>
    BY <1>1 DEF claim_next_job
  <2>2. WorkersHaveJobs' /\ worker'[w].step = "read" /\ \A v \in Workers \ {w} : worker'[v] = worker[v]
    BY <2>1 DEF WorkersHaveJobs, Step
  <2>3. ReportsAreTrue'
    BY <2>1, <2>2, NoNewReport
  <2> QED BY <2>1, <2>2, <2>3, DeliveriesUntouched
<1>2. CASE get_webhook_delivery_dispatch_info(w)
  <2>1. ~Doing(w, "idle") /\ UNCHANGED <<deliveries, accepted>>
    BY <1>2 DEF get_webhook_delivery_dispatch_info, Doing
  <2>2. PICK step \in {"complete", "report_failure", "post"} : GoesTo(w, step)
    BY <1>2 DEF get_webhook_delivery_dispatch_info
  <2>3. WorkersHaveJobs' /\ worker'[w].step = step /\ \A v \in Workers \ {w} : worker'[v] = worker[v]
    BY <2>1, <2>2, StepTaken DEF Step
  <2>4. ReportsAreTrue'
    BY <2>1, <2>3, NoNewReport
  <2> QED BY <2>1, <2>3, <2>4, DeliveriesUntouched
<1>3. CASE POST(w)
  <2>1. ~Doing(w, "idle") /\ UNCHANGED deliveries
    BY <1>3 DEF POST, Doing
  <2>2. PICK answer \in {"2xx", "other", "none"} :
          /\ accepted' = IF answer = "2xx" THEN accepted \cup {DeliveryOf(w)} ELSE accepted
          /\ GoesTo(w, IF Success(answer) THEN "report_success" ELSE "report_failure")
    BY <1>3 DEF POST
  <2>3. accepted \subseteq accepted'
    BY <2>2
  <2>4. CASE answer = "2xx"
    <3>1. GoesTo(w, "report_success") /\ DeliveryOf(w) \in accepted'
      BY <2>2, <2>4 DEF Success
    <3>2. /\ WorkersHaveJobs' /\ DeliveryOf(w)' = DeliveryOf(w)
          /\ \A v \in Workers \ {w} : worker'[v] = worker[v]
      BY <2>1, <3>1, StepTaken DEF Step
    <3>3. ReportsAreTrue'
      BY <2>3, <3>1, <3>2 DEF ReportsAreTrue, Doing, DeliveryOf
    <3> QED BY <2>1, <2>3, <3>2, <3>3, DeliveriesUntouched
  <2>5. CASE answer # "2xx"
    <3>1. GoesTo(w, "report_failure")
      BY <2>2, <2>5 DEF Success
    <3>2. /\ WorkersHaveJobs' /\ worker'[w].step = "report_failure"
          /\ \A v \in Workers \ {w} : worker'[v] = worker[v]
      BY <2>1, <3>1, StepTaken DEF Step
    <3>3. ReportsAreTrue'
      BY <2>3, <3>2, NoNewReport
    <3> QED BY <2>1, <2>3, <3>2, <3>3, DeliveriesUntouched
  <2> QED BY <2>4, <2>5
<1>4. CASE record_webhook_delivery_attempt_raises(w) \/ complete_job(w) \/ record_job_failure(w)
  <2>1. LetGo(w) /\ UNCHANGED <<deliveries, accepted>>
    BY <1>4 DEF record_webhook_delivery_attempt_raises, complete_job, record_job_failure
  <2>2. /\ WorkersHaveJobs' /\ worker'[w].step = "idle"
        /\ \A v \in Workers \ {w} : worker'[v] = worker[v]
    BY <2>1, WorkerGone
  <2>3. ReportsAreTrue'
    BY <2>1, <2>2, NoNewReport
  <2> QED BY <2>1, <2>2, <2>3, DeliveriesUntouched
<1>5. CASE record_webhook_delivery_attempt_success(w)
  <2> DEFINE d == DeliveryOf(w)
             attempts == deliveries[d].attempts + 1
             row == [deliveries[d] EXCEPT !.attempts = attempts, !.status = "delivered"]
  <2>1. /\ Doing(w, "report_success") /\ GoesTo(w, "complete") /\ UNCHANGED accepted
        /\ deliveries' = [deliveries EXCEPT ![d] = row]
    BY <1>5 DEF record_webhook_delivery_attempt_success
  <2>2. ~Doing(w, "idle")
    BY <2>1 DEF Doing
  <2>3. d \in Deliveries /\ d \in accepted
    BY <2>1, <2>2, BusyWorker DEF ReportsAreTrue
  <2>4. deliveries[d] \in DeliveryRow
    BY <2>3 DEF DeliveryRows
  <2>5. attempts \in Nat
    BY <2>4 DEF DeliveryRow
  <2> HIDE DEF d, attempts
  <2>6. row \in DeliveryRow
    BY <2>4, <2>5 DEF DeliveryRow
  <2>7. DeliveryRows' /\ DeliveredWasAccepted'
    BY <2>1, <2>3, <2>6, DeliveryWritten
  <2>8. /\ WorkersHaveJobs' /\ worker'[w].step = "complete"
        /\ \A v \in Workers \ {w} : worker'[v] = worker[v]
    BY <2>1, <2>2, StepTaken DEF Step
  <2> QED BY <2>1, <2>8, <2>7, NoNewReport
<1>6. CASE record_webhook_delivery_attempt_failed(w)
  <2> DEFINE d == DeliveryOf(w)
             attempts == deliveries[d].attempts + 1
             status == IF Exhausted(attempts, deliveries[d].max_attempts)
                       THEN "dead_letter" ELSE deliveries[d].status
             row == [deliveries[d] EXCEPT !.attempts = attempts, !.status = status]
  <2>1. /\ Doing(w, "report_failure") /\ GoesTo(w, "fail") /\ UNCHANGED accepted
        /\ deliveries' = [deliveries EXCEPT ![d] = row]
    BY <1>6 DEF record_webhook_delivery_attempt_failed
  <2>2. ~Doing(w, "idle")
    BY <2>1 DEF Doing
  <2>3. d \in Deliveries
    BY <2>2, BusyWorker
  <2>4. deliveries[d] \in DeliveryRow
    BY <2>3 DEF DeliveryRows
  <2>5. attempts \in Nat /\ status \in {"absent", "pending", "delivered", "dead_letter"}
    BY <2>4 DEF DeliveryRow
  <2>6. status = "delivered" => d \in accepted
    BY <2>3 DEF DeliveredWasAccepted
  <2> HIDE DEF d, attempts, status
  <2>7. row \in DeliveryRow /\ row.status = status
    BY <2>4, <2>5 DEF DeliveryRow
  <2>8. row.status = "delivered" => d \in accepted
    BY <2>7, <2>6
  <2>9. DeliveryRows' /\ DeliveredWasAccepted'
    BY <2>1, <2>3, <2>7, <2>8, DeliveryWritten
  <2>10. /\ WorkersHaveJobs' /\ worker'[w].step = "fail"
        /\ \A v \in Workers \ {w} : worker'[v] = worker[v]
    BY <2>1, <2>2, StepTaken DEF Step
  <2> QED BY <2>1, <2>9, <2>10, NoNewReport
<1> QED BY <1>1, <1>2, <1>3, <1>4, <1>5, <1>6 DEF Proceeds

LEMMA OperatorStep ==
    ASSUME AcceptedInv, Operator
    PROVE  AcceptedInv'
<1> USE DEF AcceptedInv
<1>1. UNCHANGED <<worker, accepted>>
  BY DEF Operator, queue_webhook_delivery, send_test_webhook_delivery, Queue, replay_webhook_delivery,
         disable_webhook_endpoint, reenable_webhook_endpoint, SetEndpoint
<1>2. WorkersHaveJobs' /\ ReportsAreTrue'
  BY <1>1 DEF WorkersHaveJobs, ReportsAreTrue, Doing, DeliveryOf
<1>3. ASSUME NEW d \in Deliveries, NEW n \in Nat \ {0}, Queue(d, n) PROVE DeliveryRows' /\ DeliveredWasAccepted'
  <2> DEFINE row == [status |-> "pending", attempts |-> 0, max_attempts |-> n]
  <2>1. deliveries' = [deliveries EXCEPT ![d] = row]
    BY <1>3 DEF Queue
  <2>2. row \in DeliveryRow /\ row.status = "pending"
    BY DEF DeliveryRow
  <2> QED BY <1>1, <2>1, <2>2, DeliveryWritten
<1>4. ASSUME NEW d \in Deliveries, replay_webhook_delivery(d) PROVE DeliveryRows' /\ DeliveredWasAccepted'
  <2> DEFINE row == [deliveries[d] EXCEPT !.status = "pending", !.max_attempts = ReplayBudget(d)]
  <2>1. deliveries' = [deliveries EXCEPT ![d] = row]
    BY <1>4 DEF replay_webhook_delivery
  <2>2. deliveries[d] \in DeliveryRow
    BY DEF DeliveryRows
  <2>3. ReplayBudget(d) \in Nat \ {0}
    BY <2>2 DEF ReplayBudget, DeliveryRow
  <2>4. row \in DeliveryRow /\ row.status = "pending"
    BY <2>2, <2>3 DEF DeliveryRow
  <2> QED BY <1>1, <2>1, <2>4, DeliveryWritten
<1>5. CASE disable_webhook_endpoint \/ reenable_webhook_endpoint
  <2>1. UNCHANGED deliveries
    BY <1>5 DEF disable_webhook_endpoint, reenable_webhook_endpoint, SetEndpoint
  <2> QED BY <1>1, <1>2, <2>1, DeliveriesUntouched
<1>6. MaxAttempts \in Nat \ {0} /\ 1 \in Nat \ {0}
  BY AttemptsAssumption
<1> QED BY <1>2, <1>3, <1>4, <1>5, <1>6 DEF Operator, queue_webhook_delivery, send_test_webhook_delivery

LEMMA AcceptedStep ==
    ASSUME AcceptedInv, [Next]_vars
    PROVE  AcceptedInv'
<1>1. ASSUME NEW w \in Workers, WorkerCrashes(w) PROVE AcceptedInv'
  <2>1. LetGo(w) /\ UNCHANGED <<deliveries, accepted>>
    BY <1>1 DEF WorkerCrashes
  <2>2. /\ WorkersHaveJobs' /\ worker'[w].step = "idle"
        /\ \A v \in Workers \ {w} : worker'[v] = worker[v]
    BY <2>1, WorkerGone DEF AcceptedInv
  <2> QED BY <2>1, <2>2, NoNewReport, DeliveriesUntouched DEF AcceptedInv
<1>2. CASE UNCHANGED <<deliveries, worker, accepted>>
  BY <1>2 DEF AcceptedInv, WorkersHaveJobs, ReportsAreTrue, DeliveryRows, DeliveredWasAccepted, Doing, DeliveryOf
<1>3. ASSUME NEW j \in Jobs, LeaseExpires(j) \/ BackoffElapses(j) PROVE AcceptedInv'
  BY <1>2, <1>3 DEF LeaseExpires, BackoffElapses
<1> QED BY <1>1, <1>2, <1>3, WorkerStep, OperatorStep DEF Next, vars

LEMMA InitAccepted == Init => AcceptedInv
<1> SUFFICES ASSUME Init PROVE AcceptedInv
  OBVIOUS
<1>1. WorkersHaveJobs /\ ReportsAreTrue
  BY DEF Init, WorkersHaveJobs, ReportsAreTrue, Doing, Idle
<1>2. [status |-> "absent", attempts |-> 0, max_attempts |-> MaxAttempts] \in DeliveryRow
  BY AttemptsAssumption DEF DeliveryRow
<1>3. DeliveryRows /\ DeliveredWasAccepted
  BY <1>2 DEF Init, DeliveryRows, DeliveredWasAccepted
<1> QED BY <1>1, <1>3 DEF AcceptedInv

\* A delivery recorded as delivered was accepted by its endpoint, for any number
\* of deliveries, workers, replays, crashes and lapsed leases.
THEOREM Accepted == Spec => []DeliveredWasAccepted
<1>1. Init => AcceptedInv
  BY InitAccepted
<1>2. AcceptedInv /\ [Next]_vars => AcceptedInv'
  BY AcceptedStep
<1>3. AcceptedInv => DeliveredWasAccepted
  BY DEF AcceptedInv
<1> QED BY <1>1, <1>2, <1>3, PTL DEF Spec

-----------------------------------------------------------------------------
(* Final statuses.                                                          *)

\* What TerminalIsFinal asks of one step and one delivery.
KeepsTerminal(d) ==
    /\ deliveries[d].status = "delivered" => deliveries'[d] = deliveries[d]
    /\ deliveries[d].status = "dead_letter" =>
         \/ deliveries'[d] = deliveries[d]
         \/ /\ deliveries'[d].status = "pending"
            /\ deliveries'[d].attempts = deliveries[d].attempts
            /\ deliveries'[d].max_attempts > deliveries[d].attempts

LEMMA KeepsTerminalStep ==
    ASSUME AcceptedInv, [Next]_vars, NEW d \in Deliveries
    PROVE  KeepsTerminal(d)
<1>1. CASE UNCHANGED deliveries
  BY <1>1 DEF KeepsTerminal
<1>2. ASSUME NEW w \in Workers,
             record_webhook_delivery_attempt_success(w) \/ record_webhook_delivery_attempt_failed(w)
      PROVE  KeepsTerminal(d)
  <2>1. ~Terminal(DeliveryOf(w)) /\ \A e \in Deliveries \ {DeliveryOf(w)} : deliveries'[e] = deliveries[e]
    BY <1>2 DEF AcceptedInv, DeliveryRows, AttemptRefused,
       record_webhook_delivery_attempt_success, record_webhook_delivery_attempt_failed
  <2>2. CASE d = DeliveryOf(w)
    BY <2>1, <2>2 DEF KeepsTerminal, Terminal
  <2>3. CASE d # DeliveryOf(w)
    BY <2>1, <2>3 DEF KeepsTerminal
  <2> QED BY <2>2, <2>3
<1>3. ASSUME NEW e \in Deliveries, NEW n, Queue(e, n) PROVE KeepsTerminal(d)
  <2>1. deliveries[e].status = "absent" /\ (d # e => deliveries'[d] = deliveries[d])
    BY <1>3 DEF Queue, AcceptedInv, DeliveryRows
  <2> QED BY <2>1 DEF KeepsTerminal
<1>4. ASSUME NEW e \in Deliveries, replay_webhook_delivery(e) PROVE KeepsTerminal(d)
  <2>1. CASE d # e
    BY <1>4, <2>1 DEF replay_webhook_delivery, AcceptedInv, DeliveryRows, KeepsTerminal
  <2>2. CASE d = e
    <3>1. deliveries[d] \in DeliveryRow
      BY DEF AcceptedInv, DeliveryRows
    <3>2. deliveries'[d] = [deliveries[d] EXCEPT !.status = "pending", !.max_attempts = ReplayBudget(d)]
      BY <1>4, <2>2 DEF replay_webhook_delivery, AcceptedInv, DeliveryRows
    <3>3. /\ deliveries'[d].status = "pending"
          /\ deliveries'[d].attempts = deliveries[d].attempts
          /\ deliveries'[d].max_attempts = ReplayBudget(d)
      BY <3>1, <3>2 DEF DeliveryRow
    <3>4. ReplayBudget(d) > deliveries[d].attempts
      BY <3>1 DEF ReplayBudget, DeliveryRow
    <3>5. deliveries[d].status = "dead_letter"
      BY <1>4, <2>2 DEF replay_webhook_delivery
    <3> QED BY <3>3, <3>4, <3>5 DEF KeepsTerminal
  <2> QED BY <2>1, <2>2
<1>5. ASSUME NEW w \in Workers, Proceeds(w) PROVE KeepsTerminal(d)
  BY <1>1, <1>2, <1>5 DEF Proceeds, claim_next_job, get_webhook_delivery_dispatch_info, POST,
     record_webhook_delivery_attempt_raises, complete_job, record_job_failure
<1>6. CASE Operator
  BY <1>1, <1>3, <1>4, <1>6 DEF Operator, queue_webhook_delivery, send_test_webhook_delivery,
     disable_webhook_endpoint, reenable_webhook_endpoint, SetEndpoint
<1>7. ASSUME NEW w \in Workers, WorkerCrashes(w) PROVE KeepsTerminal(d)
  BY <1>1, <1>7 DEF WorkerCrashes
<1>8. ASSUME NEW j \in Jobs, LeaseExpires(j) \/ BackoffElapses(j) PROVE KeepsTerminal(d)
  BY <1>1, <1>8 DEF LeaseExpires, BackoffElapses
<1>9. CASE UNCHANGED vars
  BY <1>1, <1>9 DEF vars
<1> QED BY <1>5, <1>6, <1>7, <1>8, <1>9 DEF Next

\* A delivered event is settled for good, and a dead letter leaves that state
\* only by a replay that grants attempts and keeps the history, whichever stale
\* workers report late.
THEOREM Settled == Spec => TerminalIsFinal
<1>1. Init => AcceptedInv
  BY InitAccepted
<1>2. AcceptedInv /\ [Next]_vars => AcceptedInv'
  BY AcceptedStep
<1>3. AcceptedInv /\ [Next]_vars => [\A d \in Deliveries : KeepsTerminal(d)]_vars
  BY KeepsTerminalStep
<1>4. AcceptedInv /\ [Next]_vars =>
        [\A d \in Deliveries :
          /\ deliveries[d].status = "delivered" => deliveries'[d] = deliveries[d]
          /\ deliveries[d].status = "dead_letter" =>
               \/ deliveries'[d] = deliveries[d]
               \/ /\ deliveries'[d].status = "pending"
                  /\ deliveries'[d].attempts = deliveries[d].attempts
                  /\ deliveries'[d].max_attempts > deliveries[d].attempts]_vars
  BY <1>3 DEF KeepsTerminal
<1> QED BY <1>1, <1>2, <1>4, PTL DEF Spec, TerminalIsFinal

-----------------------------------------------------------------------------
(* Types.  The CHECK on a delivery's attempts is kept because a delivery    *)
(* that still takes attempts has one left (AttemptsLeft); the one on a      *)
(* job's attempts, because a write that would break it raises.              *)

AttemptsWithin == \A d \in Deliveries : deliveries[d].attempts <= deliveries[d].max_attempts

AttemptsLeft == \A d \in Deliveries : ~Terminal(d) => deliveries[d].attempts < deliveries[d].max_attempts

EndpointType == /\ endpoint \in [status : {"active", "disabled"}, failures : Nat]
                /\ endpoint.failures >= DisableAfter => endpoint.status = "disabled"

JobsType == /\ budget \in [Jobs -> Nat \ {0}]
            /\ DOMAIN jobs = Jobs
            /\ \A j \in Jobs : jobs[j] \in Framework(budget[j])!Row

RestType == /\ accepted \in SUBSET Deliveries
            /\ spent \in [replays : [Deliveries -> 0 .. MaxReplays], mishaps : 0 .. MaxMishaps]

TypeInv == /\ AcceptedInv
           /\ AttemptsWithin /\ AttemptsLeft /\ EndpointType /\ JobsType /\ RestType

-----------------------------------------------------------------------------
(* What the routines of the framework write, for any max_attempts.          *)

LEMMA NewRows ==
    ASSUME NEW n \in Nat \ {0}
    PROVE  /\ Framework(n)!AbsentRow \in Framework(n)!Row
           /\ Framework(n)!AbsentRow.status = "absent"
           /\ Framework(n)!EnqueuedRow \in Framework(n)!Row
           /\ Framework(n)!EnqueuedRow.status = "pending"
           /\ Framework(n)!EnqueuedRow.attempts = 0
<1>1. 0 \in 0 .. n
  OBVIOUS
<1>2. /\ Framework(n)!AbsentRow \in Framework(n)!Row
      /\ Framework(n)!AbsentRow.status = "absent"
  BY <1>1 DEF Framework!AbsentRow, Framework!Row, Framework!Status
<1>3. \A row \in Framework(n)!Row :
          LET new == [row EXCEPT !.status = "pending"]
          IN  new \in Framework(n)!Row /\ new.status = "pending" /\ new.attempts = row.attempts
  BY DEF Framework!Row, Framework!Status
<1>4. Framework(n)!AbsentRow.attempts = 0
  BY DEF Framework!AbsentRow
<1>5. /\ Framework(n)!EnqueuedRow \in Framework(n)!Row
      /\ Framework(n)!EnqueuedRow.status = "pending"
      /\ Framework(n)!EnqueuedRow.attempts = 0
  BY <1>2, <1>3, <1>4 DEF Framework!EnqueuedRow
<1> QED BY <1>2, <1>5

LEMMA RowTypes ==
    ASSUME NEW n \in Nat \ {0}, NEW row \in Framework(n)!Row
    PROVE  row.attempts \in Nat /\ row.attempts <= n
BY DEF Framework!Row

LEMMA Claimed ==
    ASSUME NEW n \in Nat \ {0}, NEW row \in Framework(n)!Row, NEW w \in Workers,
           Framework(n)!jobs_attempts_check(Framework(n)!ClaimedRow(row, w))
    PROVE  LET new == Framework(n)!ClaimedRow(row, w)
           IN  /\ new \in Framework(n)!Row
               /\ new.status = "in_progress" /\ new.lease = "live" /\ new.locked_by = w
               /\ row.status = "pending" => new.attempts = row.attempts
BY DEF Framework!Row, Framework!Status, Framework!ClaimedRow, Framework!jobs_attempts_check

LEMMA Completed ==
    ASSUME NEW n \in Nat \ {0}, NEW row \in Framework(n)!Row
    PROVE  LET new == Framework(n)!CompletedRow(row)
           IN  new \in Framework(n)!Row /\ new.status = "completed"
BY DEF Framework!Row, Framework!Status, Framework!CompletedRow

LEMMA Failed ==
    ASSUME NEW n \in Nat \ {0}, NEW row \in Framework(n)!Row
    PROVE  LET new == Framework(n)!FailedRow(row, row.attempts)
           IN  /\ Framework(n)!jobs_attempts_check(new) => new \in Framework(n)!Row
               /\ Framework(n)!jobs_attempts_check(new) <=> row.attempts + 1 <= n
               /\ new.attempts = row.attempts + 1
               /\ row.attempts + 1 < n => new.status = "pending"
               /\ row.attempts + 1 >= n => new.status = "dead_letter"
               /\ new.status \in {"pending", "dead_letter"}
BY DEF Framework!Row, Framework!Status, Framework!FailedRow, Framework!jobs_attempts_check

LEMMA TimedRows ==
    ASSUME NEW n \in Nat \ {0}, NEW row \in Framework(n)!Row
    PROVE  /\ [row EXCEPT !.lease = "lapsed"] \in Framework(n)!Row
           /\ [row EXCEPT !.lease = "lapsed"].status = row.status
           /\ [row EXCEPT !.due = TRUE] \in Framework(n)!Row
           /\ [row EXCEPT !.due = TRUE].status = row.status
           /\ [row EXCEPT !.due = TRUE].attempts = row.attempts
           /\ [row EXCEPT !.due = TRUE].lease = row.lease
BY DEF Framework!Row, Framework!Status

\* The job of a worker that is not idle.
LEMMA JobHeld ==
    ASSUME TypeInv, NEW w \in Workers, ~Doing(w, "idle")
    PROVE  /\ JobOf(w) \in Jobs /\ DeliveryOf(w) \in Deliveries
           /\ JobOf(w)[1] = DeliveryOf(w)
           /\ budget[JobOf(w)] \in Nat \ {0}
           /\ jobs[JobOf(w)] \in Framework(budget[JobOf(w)])!Row
<1>1. JobOf(w) \in Jobs /\ DeliveryOf(w) \in Deliveries
  BY BusyWorker DEF TypeInv, AcceptedInv, JobOf
<1> QED BY <1>1 DEF TypeInv, JobsType, JobOf, DeliveryOf

LEMMA JobWritten ==
    ASSUME JobsType, UNCHANGED budget, NEW j \in Jobs, NEW row \in Framework(budget[j])!Row,
           jobs' = [jobs EXCEPT ![j] = row]
    PROVE  JobsType' /\ jobs'[j] = row /\ \A k \in Jobs \ {j} : jobs'[k] = jobs[k]
BY DEF JobsType

LEMMA JobEnqueued ==
    ASSUME JobsType, NEW j \in Jobs, NEW n \in Nat \ {0}, enqueue_job(j, n)
    PROVE  /\ JobsType'
           /\ jobs'[j].status = "pending" /\ jobs'[j].attempts = 0 /\ budget'[j] = n
           /\ \A k \in Jobs \ {j} : jobs'[k] = jobs[k] /\ budget'[k] = budget[k]
<1> DEFINE row == Framework(n)!EnqueuedRow
<1>1. row \in Framework(n)!Row /\ row.status = "pending" /\ row.attempts = 0
  BY NewRows
<1>2. jobs' = [jobs EXCEPT ![j] = row] /\ budget' = [budget EXCEPT ![j] = n]
  BY DEF enqueue_job
<1> HIDE DEF row
<1>3. /\ jobs'[j] = row /\ budget'[j] = n
      /\ \A k \in Jobs \ {j} : jobs'[k] = jobs[k] /\ budget'[k] = budget[k]
  BY <1>2 DEF JobsType
<1>4. JobsType'
  BY <1>1, <1>2, <1>3 DEF JobsType
<1> QED BY <1>1, <1>3, <1>4

\* What the delivery's budget is after a replay, and the job a replay makes.
LEMMA ReplayTypes ==
    ASSUME TypeInv, NEW d \in Deliveries, replay_webhook_delivery(d)
    PROVE  /\ ReplayBudget(d) \in Nat \ {0} /\ ReplayBudget(d) > deliveries[d].attempts
           /\ spent.replays[d] \in 0 .. MaxReplays /\ spent.replays[d] + 1 \in 0 .. MaxReplays
           /\ <<d, spent.replays[d] + 1>> \in Jobs
<1>1. deliveries[d] \in DeliveryRow /\ spent.replays[d] \in 0 .. MaxReplays
  BY DEF TypeInv, AcceptedInv, DeliveryRows, RestType
<1>2. ReplayBudget(d) \in Nat \ {0} /\ ReplayBudget(d) > deliveries[d].attempts
  BY <1>1 DEF ReplayBudget, DeliveryRow
<1>3. spent.replays[d] + 1 \in 0 .. MaxReplays
  BY <1>1, BoundsAssumption DEF replay_webhook_delivery
<1> QED BY <1>1, <1>2, <1>3 DEF Jobs

LEMMA QueueCases ==
    ASSUME NEW d \in Deliveries, queue_webhook_delivery(d) \/ send_test_webhook_delivery(d)
    PROVE  \E n \in Nat \ {0} : Queue(d, n)
BY AttemptsAssumption DEF queue_webhook_delivery, send_test_webhook_delivery

-----------------------------------------------------------------------------

\* What a recorded attempt writes into its delivery.
LEMMA SuccessRecorded ==
    ASSUME TypeInv, NEW w \in Workers, record_webhook_delivery_attempt_success(w)
    PROVE  /\ DeliveryOf(w) \in Deliveries /\ ~Terminal(DeliveryOf(w))
           /\ \E row \in DeliveryRow :
                 /\ deliveries' = [deliveries EXCEPT ![DeliveryOf(w)] = row]
                 /\ row.status = "delivered"
                 /\ row.attempts = deliveries[DeliveryOf(w)].attempts + 1
                 /\ row.max_attempts = deliveries[DeliveryOf(w)].max_attempts
<1> DEFINE d == DeliveryOf(w)
           attempts == deliveries[d].attempts + 1
           row == [deliveries[d] EXCEPT !.attempts = attempts, !.status = "delivered"]
<1>1. d \in Deliveries
  BY JobHeld DEF record_webhook_delivery_attempt_success, Doing
<1>2. ~Terminal(d) /\ deliveries' = [deliveries EXCEPT ![d] = row]
  BY DEF record_webhook_delivery_attempt_success, AttemptRefused
<1>3. deliveries[d] \in DeliveryRow
  BY <1>1 DEF TypeInv, AcceptedInv, DeliveryRows
<1>4. attempts \in Nat
  BY <1>3 DEF DeliveryRow
<1> HIDE DEF attempts, d
<1>5. /\ row \in DeliveryRow /\ row.status = "delivered"
      /\ row.attempts = attempts /\ row.max_attempts = deliveries[d].max_attempts
  BY <1>3, <1>4 DEF DeliveryRow
<1> HIDE DEF row
<1> QED BY <1>1, <1>2, <1>5 DEF d, attempts

LEMMA FailureRecorded ==
    ASSUME TypeInv, NEW w \in Workers, record_webhook_delivery_attempt_failed(w)
    PROVE  /\ DeliveryOf(w) \in Deliveries /\ ~Terminal(DeliveryOf(w))
           /\ \E row \in DeliveryRow :
                 /\ deliveries' = [deliveries EXCEPT ![DeliveryOf(w)] = row]
                 /\ row.attempts = deliveries[DeliveryOf(w)].attempts + 1
                 /\ row.max_attempts = deliveries[DeliveryOf(w)].max_attempts
                 /\ IF row.attempts >= row.max_attempts THEN row.status = "dead_letter"
                    ELSE row.status = deliveries[DeliveryOf(w)].status
<1> DEFINE d == DeliveryOf(w)
           attempts == deliveries[d].attempts + 1
           status == IF Exhausted(attempts, deliveries[d].max_attempts)
                     THEN "dead_letter" ELSE deliveries[d].status
           row == [deliveries[d] EXCEPT !.attempts = attempts, !.status = status]
<1>1. d \in Deliveries
  BY JobHeld DEF record_webhook_delivery_attempt_failed, Doing
<1>2. ~Terminal(d) /\ deliveries' = [deliveries EXCEPT ![d] = row]
  BY DEF record_webhook_delivery_attempt_failed, AttemptRefused
<1>3. deliveries[d] \in DeliveryRow
  BY <1>1 DEF TypeInv, AcceptedInv, DeliveryRows
<1>4. attempts \in Nat /\ status \in {"absent", "pending", "delivered", "dead_letter"}
  BY <1>3 DEF DeliveryRow
<1>5. IF attempts >= deliveries[d].max_attempts THEN status = "dead_letter"
      ELSE status = deliveries[d].status
  BY DEF Exhausted
<1> HIDE DEF attempts, status, d
<1>6. /\ row \in DeliveryRow /\ row.status = status
      /\ row.attempts = attempts /\ row.max_attempts = deliveries[d].max_attempts
  BY <1>3, <1>4 DEF DeliveryRow
<1> HIDE DEF row
<1> QED BY <1>1, <1>2, <1>5, <1>6 DEF d, attempts

\* One delivery is written: its own attempts are all that is to be looked at.
LEMMA BudgetKept ==
    ASSUME TypeInv, NEW mine \in Deliveries, NEW row \in DeliveryRow,
           deliveries' = [deliveries EXCEPT ![mine] = row],
           row.attempts <= row.max_attempts,
           row.status \in {"absent", "pending"} => row.attempts < row.max_attempts
    PROVE  AttemptsWithin' /\ AttemptsLeft'
<1>1. deliveries'[mine] = row /\ \A e \in Deliveries \ {mine} : deliveries'[e] = deliveries[e]
  BY DEF TypeInv, AcceptedInv, DeliveryRows
<1>2. row.status \notin {"delivered", "dead_letter"} => row.status \in {"absent", "pending"}
  BY DEF DeliveryRow
<1>3. AttemptsWithin'
  BY <1>1 DEF TypeInv, AttemptsWithin
<1>4. AttemptsLeft'
  BY <1>1, <1>2 DEF TypeInv, AttemptsLeft, Terminal
<1> QED BY <1>3, <1>4

LEMMA DeliveriesType ==
    ASSUME TypeInv, [Next]_vars
    PROVE  AttemptsWithin' /\ AttemptsLeft'
<1>0. \A d \in Deliveries : /\ deliveries[d] \in DeliveryRow
                            /\ deliveries[d].attempts \in Nat
                            /\ deliveries[d].max_attempts \in Nat \ {0}
  BY DEF TypeInv, AcceptedInv, DeliveryRows, DeliveryRow
<1>1. CASE UNCHANGED deliveries
  BY <1>1 DEF TypeInv, AttemptsWithin, AttemptsLeft, Terminal
<1>2. ASSUME NEW w \in Workers, record_webhook_delivery_attempt_success(w)
      PROVE  AttemptsWithin' /\ AttemptsLeft'
  <2>1. PICK row \in DeliveryRow :
           /\ deliveries' = [deliveries EXCEPT ![DeliveryOf(w)] = row]
           /\ row.status = "delivered"
           /\ row.attempts = deliveries[DeliveryOf(w)].attempts + 1
           /\ row.max_attempts = deliveries[DeliveryOf(w)].max_attempts
    BY <1>2, SuccessRecorded
  <2>2. DeliveryOf(w) \in Deliveries /\ ~Terminal(DeliveryOf(w))
    BY <1>2, SuccessRecorded
  <2>3. row.attempts <= row.max_attempts
    BY <1>0, <2>1, <2>2 DEF TypeInv, AttemptsLeft
  <2> QED BY <2>1, <2>2, <2>3, BudgetKept
<1>3. ASSUME NEW w \in Workers, record_webhook_delivery_attempt_failed(w)
      PROVE  AttemptsWithin' /\ AttemptsLeft'
  <2>1. PICK row \in DeliveryRow :
           /\ deliveries' = [deliveries EXCEPT ![DeliveryOf(w)] = row]
           /\ row.attempts = deliveries[DeliveryOf(w)].attempts + 1
           /\ row.max_attempts = deliveries[DeliveryOf(w)].max_attempts
           /\ IF row.attempts >= row.max_attempts THEN row.status = "dead_letter"
              ELSE row.status = deliveries[DeliveryOf(w)].status
    BY <1>3, FailureRecorded
  <2>2. DeliveryOf(w) \in Deliveries /\ ~Terminal(DeliveryOf(w))
    BY <1>3, FailureRecorded
  <2>3. row.attempts <= row.max_attempts /\ row.attempts \in Nat /\ row.max_attempts \in Nat
    BY <1>0, <2>1, <2>2 DEF TypeInv, AttemptsLeft
  <2>4. row.status \in {"absent", "pending"} => row.attempts < row.max_attempts
    BY <2>1, <2>3
  <2> QED BY <2>1, <2>2, <2>3, <2>4, BudgetKept
<1>4. ASSUME NEW d \in Deliveries, NEW n \in Nat \ {0}, Queue(d, n)
      PROVE  AttemptsWithin' /\ AttemptsLeft'
  <2> DEFINE row == [status |-> "pending", attempts |-> 0, max_attempts |-> n]
  <2>1. deliveries' = [deliveries EXCEPT ![d] = row]
    BY <1>4 DEF Queue
  <2>2. row \in DeliveryRow /\ row.attempts = 0 /\ row.max_attempts = n
    BY DEF DeliveryRow
  <2>3. row.attempts <= row.max_attempts /\ row.attempts < row.max_attempts
    BY <1>4, <2>2
  <2> HIDE DEF row
  <2> QED BY <1>4, <2>1, <2>2, <2>3, BudgetKept
<1>5. ASSUME NEW d \in Deliveries, replay_webhook_delivery(d)
      PROVE  AttemptsWithin' /\ AttemptsLeft'
  <2> DEFINE row == [deliveries[d] EXCEPT !.status = "pending", !.max_attempts = ReplayBudget(d)]
  <2>1. deliveries' = [deliveries EXCEPT ![d] = row]
    BY <1>5 DEF replay_webhook_delivery
  <2>2. ReplayBudget(d) \in Nat \ {0} /\ ReplayBudget(d) > deliveries[d].attempts
    BY <1>5, ReplayTypes
  <2>3. row \in DeliveryRow /\ row.attempts = deliveries[d].attempts /\ row.max_attempts = ReplayBudget(d)
    BY <1>0, <2>2 DEF DeliveryRow
  <2>4. row.attempts <= row.max_attempts /\ row.attempts < row.max_attempts
    BY <1>0, <1>5, <2>2, <2>3
  <2> HIDE DEF row
  <2> QED BY <1>5, <2>1, <2>3, <2>4, BudgetKept
<1>6. ASSUME NEW w \in Workers, Proceeds(w) PROVE AttemptsWithin' /\ AttemptsLeft'
  BY <1>1, <1>2, <1>3, <1>6 DEF Proceeds, claim_next_job, get_webhook_delivery_dispatch_info, POST,
     record_webhook_delivery_attempt_raises, complete_job, record_job_failure
<1>7. CASE Operator
  BY <1>1, <1>4, <1>5, <1>7, QueueCases
  DEF Operator, disable_webhook_endpoint, reenable_webhook_endpoint, SetEndpoint
<1>8. CASE \/ \E w \in Workers : WorkerCrashes(w)
           \/ \E j \in Jobs : LeaseExpires(j) \/ BackoffElapses(j)
           \/ UNCHANGED vars
  BY <1>1, <1>8 DEF WorkerCrashes, LeaseExpires, BackoffElapses, vars
<1> QED BY <1>6, <1>7, <1>8 DEF Next

\* The endpoint is disabled by the failure that reaches the limit.
LEMMA EndpointStep ==
    ASSUME TypeInv, [Next]_vars
    PROVE  EndpointType'
<1>1. CASE UNCHANGED endpoint
  BY <1>1 DEF TypeInv, EndpointType
<1>2. ASSUME NEW w \in Workers, record_webhook_delivery_attempt_success(w) PROVE EndpointType'
  BY <1>2, AttemptsAssumption DEF TypeInv, EndpointType, record_webhook_delivery_attempt_success
<1>3. ASSUME NEW w \in Workers, record_webhook_delivery_attempt_failed(w) PROVE EndpointType'
  BY <1>3, AttemptsAssumption DEF TypeInv, EndpointType, record_webhook_delivery_attempt_failed
<1>4. ASSUME NEW w \in Workers, Proceeds(w) PROVE EndpointType'
  BY <1>1, <1>2, <1>3, <1>4 DEF Proceeds, claim_next_job, get_webhook_delivery_dispatch_info, POST,
     record_webhook_delivery_attempt_raises, complete_job, record_job_failure
<1>5. CASE Operator
  <2>1. CASE disable_webhook_endpoint \/ reenable_webhook_endpoint
    BY <2>1, AttemptsAssumption
    DEF TypeInv, EndpointType, disable_webhook_endpoint, reenable_webhook_endpoint, SetEndpoint
  <2>2. ASSUME NEW d \in Deliveries, NEW n \in Nat \ {0}, Queue(d, n) PROVE EndpointType'
    BY <1>1, <2>2 DEF Queue
  <2>3. ASSUME NEW d \in Deliveries, replay_webhook_delivery(d) PROVE EndpointType'
    BY <1>1, <2>3 DEF replay_webhook_delivery
  <2> QED BY <1>5, <2>1, <2>2, <2>3, QueueCases DEF Operator
<1>6. CASE \/ \E w \in Workers : WorkerCrashes(w)
           \/ \E j \in Jobs : LeaseExpires(j) \/ BackoffElapses(j)
           \/ UNCHANGED vars
  BY <1>1, <1>6 DEF WorkerCrashes, LeaseExpires, BackoffElapses, vars
<1> QED BY <1>4, <1>5, <1>6 DEF Next

\* What a report to the job writes: at most its own row.
LEMMA JobReported ==
    ASSUME TypeInv, NEW w \in Workers, complete_job(w) \/ record_job_failure(w)
    PROVE  /\ JobOf(w) \in Jobs /\ UNCHANGED budget
           /\ \/ UNCHANGED jobs
              \/ \E row \in Framework(budget[JobOf(w)])!Row : jobs' = [jobs EXCEPT ![JobOf(w)] = row]
<1>1. /\ JobOf(w) \in Jobs
      /\ budget[JobOf(w)] \in Nat \ {0}
      /\ jobs[JobOf(w)] \in Framework(budget[JobOf(w)])!Row
  BY JobHeld DEF complete_job, record_job_failure, Doing
<1> DEFINE j == JobOf(w)
<1>2. CASE complete_job(w)
  <2> DEFINE row == Framework(budget[j])!CompletedRow(jobs[j])
  <2>1. UNCHANGED budget /\ (UNCHANGED jobs \/ jobs' = [jobs EXCEPT ![j] = row])
    BY <1>2 DEF complete_job
  <2>2. row \in Framework(budget[j])!Row
    BY <1>1, Completed
  <2> HIDE DEF row
  <2> QED BY <1>1, <2>1, <2>2
<1>3. CASE record_job_failure(w)
  <2> DEFINE row == Framework(budget[j])!FailedRow(jobs[j], jobs[j].attempts)
  <2>1. /\ UNCHANGED budget
        /\ \/ UNCHANGED jobs
           \/ Framework(budget[j])!jobs_attempts_check(row) /\ jobs' = [jobs EXCEPT ![j] = row]
    BY <1>3 DEF record_job_failure
  <2>2. Framework(budget[j])!jobs_attempts_check(row) => row \in Framework(budget[j])!Row
    BY <1>1, Failed
  <2> HIDE DEF row
  <2> QED BY <1>1, <2>1, <2>2
<1> QED BY <1>2, <1>3

LEMMA JobsStep ==
    ASSUME TypeInv, [Next]_vars
    PROVE  JobsType'
<1>0. JobsType /\ \A j \in Jobs : budget[j] \in Nat \ {0} /\ jobs[j] \in Framework(budget[j])!Row
  BY DEF TypeInv, JobsType
<1>1. CASE UNCHANGED <<jobs, budget>>
  BY <1>0, <1>1 DEF JobsType
<1>2. ASSUME NEW w \in Workers, NEW j \in Jobs, claim_next_job(w, j) PROVE JobsType'
  <2> DEFINE row == Framework(budget[j])!ClaimedRow(jobs[j], w)
  <2>1. /\ Framework(budget[j])!jobs_attempts_check(row)
        /\ jobs' = [jobs EXCEPT ![j] = row] /\ UNCHANGED budget
    BY <1>2 DEF claim_next_job
  <2>2. row \in Framework(budget[j])!Row
    BY <1>0, <2>1, Claimed
  <2> HIDE DEF row
  <2> QED BY <1>0, <2>1, <2>2, JobWritten
<1>3. ASSUME NEW w \in Workers, complete_job(w) \/ record_job_failure(w) PROVE JobsType'
  BY <1>0, <1>1, <1>3, JobReported, JobWritten
<1>4. ASSUME NEW d \in Deliveries, NEW n \in Nat \ {0}, Queue(d, n) PROVE JobsType'
  <2>1. <<d, 0>> \in Jobs
    BY BoundsAssumption DEF Jobs
  <2> QED BY <1>0, <1>4, <2>1, JobEnqueued DEF Queue
<1>5. ASSUME NEW d \in Deliveries, replay_webhook_delivery(d) PROVE JobsType'
  <2>1. /\ ReplayBudget(d) \in Nat \ {0} /\ <<d, spent.replays[d] + 1>> \in Jobs
        /\ enqueue_job(<<d, spent.replays[d] + 1>>, ReplayBudget(d))
    BY <1>5, ReplayTypes DEF replay_webhook_delivery
  <2> QED BY <1>0, <2>1, JobEnqueued
<1>6. ASSUME NEW j \in Jobs, LeaseExpires(j) \/ BackoffElapses(j) PROVE JobsType'
  <2>1. /\ [jobs[j] EXCEPT !.lease = "lapsed"] \in Framework(budget[j])!Row
        /\ [jobs[j] EXCEPT !.due = TRUE] \in Framework(budget[j])!Row
    BY <1>0, TimedRows
  <2>2. /\ UNCHANGED budget
        /\ \/ jobs' = [jobs EXCEPT ![j] = [jobs[j] EXCEPT !.lease = "lapsed"]]
           \/ jobs' = [jobs EXCEPT ![j] = [jobs[j] EXCEPT !.due = TRUE]]
    BY <1>6 DEF LeaseExpires, BackoffElapses
  <2> QED BY <1>0, <2>1, <2>2, JobWritten
<1>7. ASSUME NEW w \in Workers, Proceeds(w) PROVE JobsType'
  BY <1>1, <1>2, <1>3, <1>7 DEF Proceeds, get_webhook_delivery_dispatch_info, POST,
     record_webhook_delivery_attempt_raises, record_webhook_delivery_attempt_success,
     record_webhook_delivery_attempt_failed
<1>8. CASE Operator
  BY <1>1, <1>4, <1>5, <1>8, QueueCases
  DEF Operator, disable_webhook_endpoint, reenable_webhook_endpoint, SetEndpoint
<1>9. CASE (\E w \in Workers : WorkerCrashes(w)) \/ UNCHANGED vars
  BY <1>1, <1>9 DEF WorkerCrashes, vars
<1> QED BY <1>6, <1>7, <1>8, <1>9 DEF Next

LEMMA RestStep ==
    ASSUME TypeInv, [Next]_vars
    PROVE  RestType'
<1>1. CASE UNCHANGED <<accepted, spent>>
  BY <1>1 DEF TypeInv, RestType
<1>2. ASSUME NEW w \in Workers, POST(w) PROVE RestType'
  <2>1. DeliveryOf(w) \in Deliveries /\ UNCHANGED spent
    BY <1>2, JobHeld DEF POST, Doing
  <2>2. accepted' \subseteq accepted \cup {DeliveryOf(w)}
    BY <1>2 DEF POST
  <2> QED BY <2>1, <2>2 DEF TypeInv, RestType
<1>3. ASSUME Mishap, UNCHANGED accepted PROVE RestType'
  BY <1>3, BoundsAssumption DEF Mishap, TypeInv, RestType
<1>4. ASSUME NEW d \in Deliveries, replay_webhook_delivery(d) PROVE RestType'
  <2>1. /\ spent.replays[d] + 1 \in 0 .. MaxReplays /\ UNCHANGED accepted
        /\ spent' = [spent EXCEPT !.replays[d] = spent.replays[d] + 1]
    BY <1>4, ReplayTypes DEF replay_webhook_delivery
  <2> QED BY <2>1 DEF TypeInv, RestType
<1>5. ASSUME NEW d \in Deliveries, NEW n \in Nat \ {0}, Queue(d, n) PROVE RestType'
  BY <1>1, <1>5 DEF Queue
<1>6. ASSUME NEW w \in Workers, Proceeds(w) PROVE RestType'
  BY <1>1, <1>2, <1>6 DEF Proceeds, claim_next_job, get_webhook_delivery_dispatch_info,
     record_webhook_delivery_attempt_raises, record_webhook_delivery_attempt_success,
     record_webhook_delivery_attempt_failed, complete_job, record_job_failure
<1>7. CASE Operator
  BY <1>1, <1>4, <1>5, <1>7, QueueCases
  DEF Operator, disable_webhook_endpoint, reenable_webhook_endpoint, SetEndpoint
<1>8. CASE \/ \E w \in Workers : WorkerCrashes(w)
           \/ \E j \in Jobs : LeaseExpires(j) \/ BackoffElapses(j)
           \/ UNCHANGED vars
  BY <1>1, <1>3, <1>8 DEF WorkerCrashes, LeaseExpires, BackoffElapses, vars
<1> QED BY <1>6, <1>7, <1>8 DEF Next

LEMMA TypeStep ==
    ASSUME TypeInv, [Next]_vars
    PROVE  TypeInv'
<1>1. AcceptedInv'
  BY AcceptedStep DEF TypeInv
<1> QED BY <1>1, DeliveriesType, EndpointStep, JobsStep, RestStep DEF TypeInv

LEMMA InitType == Init => TypeInv
<1> SUFFICES ASSUME Init PROVE TypeInv
  OBVIOUS
<1>1. AttemptsWithin /\ AttemptsLeft
  BY AttemptsAssumption DEF Init, AttemptsWithin, AttemptsLeft
<1>2. EndpointType
  BY AttemptsAssumption DEF Init, EndpointType
<1>3. JobsType
  <2> DEFINE row == Framework(MaxAttempts)!AbsentRow
  <2>1. row \in Framework(MaxAttempts)!Row
    BY AttemptsAssumption, NewRows
  <2>2. jobs = [j \in Jobs |-> row] /\ budget = [j \in Jobs |-> MaxAttempts]
    BY DEF Init
  <2> HIDE DEF row
  <2> QED BY <2>1, <2>2, AttemptsAssumption DEF JobsType
<1>4. RestType
  BY BoundsAssumption DEF Init, RestType
<1> QED BY <1>1, <1>2, <1>3, <1>4, InitAccepted DEF TypeInv

\* Both tables keep their CHECKs and every variable its type: no delivery and no
\* job spends more attempts than its budget, and the endpoint is not active past
\* its limit of failures, for any budgets, replays, crashes and lapsed leases.
THEOREM WebhookTypeCorrect == Spec => []TypeOK
<1>1. TypeInv => TypeOK
  BY DEF TypeInv, TypeOK, AcceptedInv, WorkersHaveJobs, DeliveryRows, AttemptsWithin,
         EndpointType, JobsType, RestType
<1> QED BY <1>1, InitType, TypeStep, PTL DEF Spec

-----------------------------------------------------------------------------
(* The two retry records, as long as no worker dies or overruns its lease.  *)

Holds(w, j) == ~Doing(w, "idle") /\ JobOf(w) = j

\* A job in the hands of a worker is leased to that worker, and to no other.
OneHolder ==
    \A w \in Workers : ~Doing(w, "idle") =>
        /\ jobs[JobOf(w)].status = "in_progress"
        /\ jobs[JobOf(w)].lease = "live"
        /\ jobs[JobOf(w)].locked_by = w
        /\ \A v \in Workers : Holds(v, JobOf(w)) => v = w

Latest(d) == <<d, spent.replays[d]>>

\* The attempt of this worker is not recorded yet.
Dispatching(w) == worker[w].step \in {"read", "post", "report_success", "report_failure"}

\* The latest job will make the next attempt of its delivery, and has counted no
\* more attempts than the delivery; an earlier job that is still being worked on
\* may have recorded one more.
Counted(d) ==
    LET job == jobs[Latest(d)] IN
    \/ job.status = "pending" /\ job.attempts <= deliveries[d].attempts
    \/ \E w \in Workers : /\ Holds(w, Latest(d))
                          /\ \/ Dispatching(w) /\ job.attempts <= deliveries[d].attempts
                             \/ Doing(w, "fail") /\ job.attempts + 1 <= deliveries[d].attempts

\* Until the first replay, the two counts agree exactly.
CountedOnce(d) ==
    LET job == jobs[<<d, 0>>] IN
    /\ job.status = "pending" => deliveries[d].attempts = job.attempts
    /\ \A w \in Workers : Holds(w, <<d, 0>>) =>
          /\ Dispatching(w) => deliveries[d].attempts = job.attempts
          /\ Doing(w, "fail") => deliveries[d].attempts = job.attempts + 1

\* The first job has failed for good, or is about to.
FirstSpent(d) ==
    LET job == jobs[<<d, 0>>] IN
    \/ job.status = "dead_letter"
    \/ \E w \in Workers : /\ Holds(w, <<d, 0>>) /\ Doing(w, "fail")
                          /\ job.attempts + 1 = budget[<<d, 0>>]

InLine(d) ==
    LET status == deliveries[d].status
        replays == spent.replays[d]
    IN  /\ status = "absent" => replays = 0
        /\ \A n \in 0 .. MaxReplays :
              n > replays \/ status = "absent" => jobs[<<d, n>>].status = "absent"
        /\ status # "absent" => budget[Latest(d)] = deliveries[d].max_attempts
        /\ status = "pending" => Counted(d)
        /\ replays = 0 /\ status = "pending" => CountedOnce(d)
        /\ (replays = 0 /\ status = "dead_letter") \/ replays = 1 => FirstSpent(d)

AlignedInv == Undisturbed => OneHolder /\ \A d \in Deliveries : InLine(d)

\* Nothing that InLine(d) looks at has changed.
SameView(d) ==
    /\ deliveries'[d] = deliveries[d] /\ spent'.replays[d] = spent.replays[d]
    /\ \A n \in 0 .. MaxReplays :
          /\ budget'[<<d, n>>] = budget[<<d, n>>]
          /\ jobs'[<<d, n>>].status = jobs[<<d, n>>].status
          /\ jobs'[<<d, n>>].attempts = jobs[<<d, n>>].attempts
          /\ \A w \in Workers : /\ Holds(w, <<d, n>>)' => Holds(w, <<d, n>>)
                                /\ Holds(w, <<d, n>>) => worker'[w] = worker[w]

LEMMA NotDisturbedBefore ==
    ASSUME TypeInv, [Next]_vars, Undisturbed'
    PROVE  /\ Undisturbed
           /\ ~\E w \in Workers : WorkerCrashes(w)
           /\ ~Mishap
<1>1. spent.mishaps \in Nat
  BY BoundsAssumption DEF TypeInv, RestType
<1>2. ~Mishap
  <2>1. SUFFICES ASSUME Mishap PROVE FALSE
    OBVIOUS
  <2>2. spent'.mishaps = spent.mishaps + 1
    BY <2>1 DEF Mishap, TypeInv, RestType
  <2> QED BY <1>1, <2>2 DEF Undisturbed
<1>3. ~\E w \in Workers : WorkerCrashes(w)
  BY <1>2 DEF WorkerCrashes
<1>4. spent'.mishaps = spent.mishaps
  <2>1. CASE UNCHANGED spent
    BY <2>1
  <2>2. ASSUME NEW d \in Deliveries, replay_webhook_delivery(d) PROVE spent'.mishaps = spent.mishaps
    BY <2>2 DEF replay_webhook_delivery, TypeInv, RestType
  <2>3. ASSUME NEW d \in Deliveries, NEW n \in Nat \ {0}, Queue(d, n) PROVE UNCHANGED spent
    BY <2>3 DEF Queue
  <2>4. ASSUME NEW w \in Workers, Proceeds(w) PROVE UNCHANGED spent
    BY <2>4 DEF Proceeds, claim_next_job, get_webhook_delivery_dispatch_info, POST,
       record_webhook_delivery_attempt_raises, record_webhook_delivery_attempt_success,
       record_webhook_delivery_attempt_failed, complete_job, record_job_failure
  <2>5. CASE Operator
    BY <2>1, <2>2, <2>3, <2>5, QueueCases
    DEF Operator, disable_webhook_endpoint, reenable_webhook_endpoint, SetEndpoint
  <2>6. ASSUME NEW j \in Jobs, LeaseExpires(j) \/ BackoffElapses(j) PROVE UNCHANGED spent
    BY <1>2, <2>6 DEF LeaseExpires, BackoffElapses
  <2> QED BY <1>3, <2>1, <2>4, <2>5, <2>6 DEF Next, vars
<1> QED BY <1>2, <1>3, <1>4 DEF Undisturbed

LEMMA LatestIsJob ==
    ASSUME TypeInv, NEW d \in Deliveries
    PROVE  /\ spent.replays[d] \in 0 .. MaxReplays /\ 0 \in 0 .. MaxReplays
           /\ Latest(d) \in Jobs /\ <<d, 0>> \in Jobs
<1>1. spent.replays[d] \in 0 .. MaxReplays /\ 0 \in 0 .. MaxReplays
  BY BoundsAssumption DEF TypeInv, RestType
<1> QED BY <1>1 DEF Latest, Jobs

LEMMA HeldTuple ==
    ASSUME TypeInv, NEW w \in Workers, ~Doing(w, "idle")
    PROVE  /\ DeliveryOf(w) \in Deliveries /\ JobOf(w)[2] \in 0 .. MaxReplays
           /\ JobOf(w) = <<DeliveryOf(w), JobOf(w)[2]>>
BY JobHeld DEF Jobs, DeliveryOf, JobOf

\* A delivery out of whose sight the step happens is as it was.
LEMMA OutOfSight ==
    ASSUME TypeInv, NEW mine \in Deliveries, InLine(mine), SameView(mine)
    PROVE  InLine(mine)'
<1> DEFINE latest == spent.replays[mine]
<1>1. latest \in 0 .. MaxReplays /\ 0 \in 0 .. MaxReplays
  BY LatestIsJob
<1>2. Latest(mine) = <<mine, latest>> /\ Latest(mine)' = <<mine, latest>>
  BY DEF SameView, Latest
<1>3. \A n \in 0 .. MaxReplays : \A w \in Workers :
        /\ Holds(w, <<mine, n>>) => Holds(w, <<mine, n>>)'
        /\ Holds(w, <<mine, n>>)' => Holds(w, <<mine, n>>)
        /\ Holds(w, <<mine, n>>) => worker'[w] = worker[w]
  <2>1. \A n \in 0 .. MaxReplays : \A w \in Workers :
          /\ Holds(w, <<mine, n>>)' => Holds(w, <<mine, n>>)
          /\ Holds(w, <<mine, n>>) => worker'[w] = worker[w]
    BY DEF SameView, Holds, Doing, JobOf
  <2>2. ASSUME NEW v \in Workers, NEW n \in 0 .. MaxReplays,
               worker'[v] = worker[v], Holds(v, <<mine, n>>)
        PROVE  Holds(v, <<mine, n>>)'
    BY <2>2 DEF Holds, Doing, JobOf
  <2> QED BY <2>1, <2>2
<1>8. \A w \in Workers : worker'[w] = worker[w] =>
        /\ Dispatching(w) => Dispatching(w)'
        /\ Dispatching(w)' => Dispatching(w)
        /\ Doing(w, "fail") => Doing(w, "fail")'
        /\ Doing(w, "fail")' => Doing(w, "fail")
  BY DEF Dispatching, Doing
<1> HIDE DEF latest
<1>4. Counted(mine) => Counted(mine)'
  BY <1>1, <1>2, <1>3, <1>8 DEF SameView, Counted
<1>5. CountedOnce(mine) => CountedOnce(mine)'
  BY <1>1, <1>3, <1>8 DEF SameView, CountedOnce
<1>6. FirstSpent(mine) => FirstSpent(mine)'
  BY <1>1, <1>3, <1>8 DEF SameView, FirstSpent
<1>7. budget[Latest(mine)]' = budget[Latest(mine)]
  BY <1>1, <1>2 DEF SameView
<1> QED BY <1>4, <1>5, <1>6, <1>7 DEF InLine, SameView

\* A worker goes on with its job: no other delivery sees it.
LEMMA GoesOn ==
    ASSUME TypeInv, OneHolder, NEW w \in Workers, ~Doing(w, "idle"),
           UNCHANGED <<jobs, budget, spent>>,
           ~Doing(w, "idle")', JobOf(w)' = JobOf(w),
           \A v \in Workers \ {w} : worker'[v] = worker[v]
    PROVE  /\ OneHolder'
           /\ \A j \in Jobs : \A v \in Workers : Holds(v, j)' => Holds(v, j)
           /\ \A e \in Deliveries \ {DeliveryOf(w)} : deliveries'[e] = deliveries[e] => SameView(e)
<1>1. \A j : \A v \in Workers : /\ Holds(v, j)' => Holds(v, j)
                                /\ Holds(v, j) => Holds(v, j)'
  BY DEF Holds, Doing, JobOf
<1>2. \A v \in Workers : /\ JobOf(v)' = JobOf(v)
                         /\ ~Doing(v, "idle")' => ~Doing(v, "idle")
  BY DEF Doing, JobOf
<1>3. OneHolder'
  BY <1>1, <1>2 DEF OneHolder
<1>4. ASSUME NEW e \in Deliveries \ {DeliveryOf(w)}, deliveries'[e] = deliveries[e] PROVE SameView(e)
  <2>1. ASSUME NEW n \in 0 .. MaxReplays PROVE ~Holds(w, <<e, n>>)
    BY <1>4 DEF Holds, DeliveryOf, JobOf
  <2> QED BY <1>1, <1>4, <2>1 DEF SameView
<1> QED BY <1>1, <1>3, <1>4

\* A worker lets go of its job, and writes at most that job's row.
LEMMA GoesAway ==
    ASSUME TypeInv, OneHolder, NEW w \in Workers, ~Doing(w, "idle"), LetGo(w),
           UNCHANGED <<deliveries, budget, spent>>,
           \A k \in Jobs \ {JobOf(w)} : jobs'[k] = jobs[k]
    PROVE  /\ OneHolder'
           /\ \A j \in Jobs : j = JobOf(w) => \A v \in Workers : ~Holds(v, j)'
           /\ \A e \in Deliveries : \A n \in 0 .. MaxReplays : <<e, n>> # JobOf(w) =>
                 /\ jobs'[<<e, n>>] = jobs[<<e, n>>]
                 /\ \A v \in Workers : /\ Holds(v, <<e, n>>) => worker'[v] = worker[v]
                                       /\ Holds(v, <<e, n>>) => Holds(v, <<e, n>>)'
                                       /\ Holds(v, <<e, n>>)' => Holds(v, <<e, n>>)
           /\ \A e \in Deliveries \ {DeliveryOf(w)} : SameView(e)
<1>1. worker'[w].step = "idle" /\ \A v \in Workers \ {w} : worker'[v] = worker[v]
  BY WorkerGone DEF TypeInv, AcceptedInv
<1>2. \A v \in Workers : ~Doing(v, "idle")' => v # w /\ ~Doing(v, "idle") /\ JobOf(v)' = JobOf(v)
  BY <1>1 DEF Doing, JobOf
<1>3. \A j : \A v \in Workers : Holds(v, j)' => v # w /\ Holds(v, j)
  BY <1>1, <1>2 DEF Holds
<1>4. \A j : \A v \in Workers : Holds(v, j) /\ j # JobOf(w) => v # w /\ worker'[v] = worker[v]
  BY <1>1 DEF Holds
<1>5. \A j : \A v \in Workers : Holds(v, j) /\ j # JobOf(w) => Holds(v, j)'
  BY <1>4 DEF Holds, Doing, JobOf
<1>6. \A v \in Workers : ~Doing(v, "idle")' =>
        /\ JobOf(v) # JobOf(w) /\ jobs'[JobOf(v)] = jobs[JobOf(v)]
  <2> SUFFICES ASSUME NEW v \in Workers, ~Doing(v, "idle")'
               PROVE  JobOf(v) # JobOf(w) /\ jobs'[JobOf(v)] = jobs[JobOf(v)]
    OBVIOUS
  <2>1. v # w /\ ~Doing(v, "idle")
    BY <1>2
  <2>2. JobOf(v) # JobOf(w)
    BY <2>1 DEF OneHolder, Holds
  <2>3. JobOf(v) \in Jobs
    BY <2>1, JobHeld
  <2> QED BY <2>2, <2>3
<1>7. OneHolder'
  <2> SUFFICES ASSUME NEW v \in Workers, ~Doing(v, "idle")'
               PROVE  /\ jobs'[JobOf(v)'].status = "in_progress"
                      /\ jobs'[JobOf(v)'].lease = "live"
                      /\ jobs'[JobOf(v)'].locked_by = v
                      /\ \A u \in Workers : Holds(u, JobOf(v))' => u = v
    BY DEF OneHolder
  <2>1. ~Doing(v, "idle") /\ JobOf(v)' = JobOf(v) /\ jobs'[JobOf(v)] = jobs[JobOf(v)]
    BY <1>2, <1>6
  <2>2. \A u \in Workers : Holds(u, JobOf(v))' => Holds(u, JobOf(v))
    BY <1>3, <2>1
  <2> QED BY <2>1, <2>2 DEF OneHolder
<1>8. ASSUME NEW j \in Jobs, j = JobOf(w), NEW v \in Workers, Holds(v, j)' PROVE FALSE
  <2>1. ~Doing(v, "idle")' /\ JobOf(v)' = j
    BY <1>8 DEF Holds
  <2> QED BY <1>2, <1>6, <1>8, <2>1
<1>9. ASSUME NEW e \in Deliveries, NEW n \in 0 .. MaxReplays, <<e, n>> # JobOf(w)
      PROVE  /\ jobs'[<<e, n>>] = jobs[<<e, n>>]
             /\ \A v \in Workers : /\ Holds(v, <<e, n>>) => worker'[v] = worker[v]
                                   /\ Holds(v, <<e, n>>) => Holds(v, <<e, n>>)'
                                   /\ Holds(v, <<e, n>>)' => Holds(v, <<e, n>>)
  <2>1. <<e, n>> \in Jobs
    BY DEF Jobs
  <2> QED BY <1>3, <1>4, <1>5, <1>9, <2>1
<1>10. \A e \in Deliveries \ {DeliveryOf(w)} : SameView(e)
  <2>1. \A e \in Deliveries \ {DeliveryOf(w)} : \A n \in 0 .. MaxReplays : <<e, n>> # JobOf(w)
    BY HeldTuple DEF DeliveryOf, JobOf
  <2> QED BY <1>9, <2>1 DEF SameView
<1> QED BY <1>7, <1>8, <1>9, <1>10

Sound == OneHolder /\ \A d \in Deliveries : InLine(d)

\* What holding a job says of its delivery.
LEMMA HeldJob ==
    ASSUME TypeInv, Sound, NEW w \in Workers, ~Doing(w, "idle")
    PROVE  LET d == DeliveryOf(w)
               job == jobs[JobOf(w)]
           IN  /\ d \in Deliveries /\ InLine(d)
               /\ deliveries[d].status # "absent"
               /\ spent.replays[d] = 0 => JobOf(w) = <<d, 0>>
               /\ \A n \in 0 .. MaxReplays : n > spent.replays[d] => JobOf(w) # <<d, n>>
               /\ JobOf(w) = Latest(d) /\ deliveries[d].status = "pending" =>
                    \/ Dispatching(w) /\ job.attempts <= deliveries[d].attempts
                    \/ Doing(w, "fail") /\ job.attempts + 1 <= deliveries[d].attempts
               /\ JobOf(w) = <<d, 0>> /\ FirstSpent(d) =>
                    Doing(w, "fail") /\ job.attempts + 1 = budget[<<d, 0>>]
<1> DEFINE mine == DeliveryOf(w)
           n == JobOf(w)[2]
           job == jobs[JobOf(w)]
<1>1. mine \in Deliveries /\ n \in 0 .. MaxReplays /\ JobOf(w) = <<mine, n>>
  BY HeldTuple
<1>2. job.status = "in_progress" /\ \A v \in Workers : Holds(v, JobOf(w)) => v = w
  BY DEF Sound, OneHolder
<1>3. InLine(mine) /\ spent.replays[mine] \in 0 .. MaxReplays
  BY <1>1, LatestIsJob DEF Sound
<1> HIDE DEF mine, n
<1>4. deliveries[mine].status # "absent" /\ n <= spent.replays[mine]
  BY <1>1, <1>2, <1>3 DEF InLine
<1>5. /\ spent.replays[mine] = 0 => JobOf(w) = <<mine, 0>>
      /\ \A k \in 0 .. MaxReplays : k > spent.replays[mine] => JobOf(w) # <<mine, k>>
  BY <1>1, <1>3, <1>4
<1>6. ASSUME JobOf(w) = Latest(mine), deliveries[mine].status = "pending"
      PROVE  \/ Dispatching(w) /\ job.attempts <= deliveries[mine].attempts
             \/ Doing(w, "fail") /\ job.attempts + 1 <= deliveries[mine].attempts
  BY <1>2, <1>3, <1>6 DEF InLine, Counted
<1>7. ASSUME JobOf(w) = <<mine, 0>>, FirstSpent(mine)
      PROVE  Doing(w, "fail") /\ job.attempts + 1 = budget[<<mine, 0>>]
  BY <1>2, <1>7 DEF FirstSpent
<1> QED BY <1>1, <1>3, <1>4, <1>5, <1>6, <1>7 DEF mine

\* A worker reads or posts: nothing is recorded yet.
LEMMA Dispatched ==
    ASSUME TypeInv, Sound, NEW w \in Workers, Dispatching(w),
           UNCHANGED <<deliveries, jobs, budget, spent>>,
           JobOf(w)' = JobOf(w), \A v \in Workers \ {w} : worker'[v] = worker[v],
           Dispatching(w)' \/ (Doing(w, "complete")' /\ Terminal(DeliveryOf(w)))
    PROVE  Sound'
<1>1. ~Doing(w, "idle") /\ ~Doing(w, "idle")' /\ ~Doing(w, "fail") /\ ~Doing(w, "fail")'
  BY DEF Dispatching, Doing
<1>0. PICK mine \in Deliveries : mine = DeliveryOf(w)
  BY <1>1, HeldJob
<1>2. /\ OneHolder'
      /\ \A j \in Jobs : \A v \in Workers : Holds(v, j)' => Holds(v, j)
      /\ \A e \in Deliveries \ {mine} : SameView(e)
  BY <1>1, <1>0, GoesOn DEF Sound
<1>3. InLine(mine) /\ deliveries[mine].status # "absent"
  BY <1>1, <1>0, HeldJob
<1>4. \A e \in Deliveries \ {mine} : InLine(e)'
  BY <1>2, OutOfSight DEF Sound
<1>5. Latest(mine)' = Latest(mine) /\ Latest(mine) \in Jobs /\ <<mine, 0>> \in Jobs
  BY <1>3, LatestIsJob DEF Latest
<1>6. ASSUME NEW v \in Workers
      PROVE  /\ v # w /\ Dispatching(v) => Dispatching(v)'
             /\ Dispatching(v)' => Dispatching(v)
             /\ Doing(v, "fail") => Doing(v, "fail")'
             /\ Doing(v, "fail")' => Doing(v, "fail")
             /\ \A j \in Jobs : Holds(v, j) => Holds(v, j)'
  <2>1. CASE v = w
    BY <1>1, <2>1 DEF Holds
  <2>2. CASE v # w
    <3>1. worker'[v] = worker[v]
      BY <2>2
    <3> QED BY <3>1 DEF Dispatching, Doing, Holds, JobOf
  <2> QED BY <2>1, <2>2
<1>7. deliveries[mine].status = "pending" => Dispatching(w)'
  BY <1>0 DEF Terminal
<1>8. deliveries[mine].status = "pending" /\ Counted(mine) => Counted(mine)'
  BY <1>1, <1>5, <1>6, <1>7 DEF Counted
<1>9. CountedOnce(mine) => CountedOnce(mine)'
  BY <1>1, <1>2, <1>5, <1>6 DEF CountedOnce
<1>10. FirstSpent(mine) => FirstSpent(mine)'
  BY <1>1, <1>5, <1>6 DEF FirstSpent
<1>11. InLine(mine)'
  BY <1>3, <1>5, <1>8, <1>9, <1>10 DEF InLine
<1> QED BY <1>2, <1>4, <1>11 DEF Sound

LEMMA ReadStep ==
    ASSUME TypeInv, Sound, NEW w \in Workers, get_webhook_delivery_dispatch_info(w) \/ POST(w)
    PROVE  Sound'
<1>1. ~Doing(w, "idle") /\ Dispatching(w) /\ UNCHANGED <<deliveries, jobs, budget, spent>>
  BY DEF get_webhook_delivery_dispatch_info, POST, Doing, Dispatching
<1>2. PICK step \in {"complete", "post", "report_success", "report_failure"} :
        GoesTo(w, step) /\ (step = "complete" => Terminal(DeliveryOf(w)))
  <2>1. CASE get_webhook_delivery_dispatch_info(w)
    BY <2>1 DEF get_webhook_delivery_dispatch_info
  <2>2. CASE POST(w)
    <3>1. GoesTo(w, "report_success") \/ GoesTo(w, "report_failure")
      BY <2>2 DEF POST
    <3> QED BY <3>1
  <2> QED BY <2>1, <2>2
<1>3. /\ worker'[w].step = step /\ JobOf(w)' = JobOf(w)
      /\ \A v \in Workers \ {w} : worker'[v] = worker[v]
  BY <1>1, <1>2, StepTaken DEF TypeInv, AcceptedInv, Step
<1>4. Dispatching(w)' \/ (Doing(w, "complete")' /\ Terminal(DeliveryOf(w)))
  BY <1>2, <1>3 DEF Dispatching, Doing
<1> QED BY <1>1, <1>3, <1>4, Dispatched

\* A worker records an attempt: its delivery is written, and no job.
LEMMA Recorded ==
    ASSUME TypeInv, Sound, NEW w \in Workers, NEW mine \in Deliveries, mine = DeliveryOf(w),
           worker[w].step \in {"report_success", "report_failure"},
           ~Doing(w, "idle")', JobOf(w)' = JobOf(w), \A v \in Workers \ {w} : worker'[v] = worker[v],
           UNCHANGED <<jobs, budget, spent>>,
           NEW row \in DeliveryRow, deliveries' = [deliveries EXCEPT ![mine] = row]
    PROVE  /\ OneHolder' /\ \A e \in Deliveries \ {mine} : InLine(e)'
           /\ deliveries'[mine] = row
           /\ Latest(mine)' = Latest(mine) /\ Latest(mine) \in Jobs /\ <<mine, 0>> \in Jobs
           /\ \A j \in Jobs : \A v \in Workers : /\ Holds(v, j)' => Holds(v, j)
                                                 /\ Holds(v, j) => Holds(v, j)'
           /\ FirstSpent(mine) => FirstSpent(mine)'
<1>1. ~Doing(w, "idle") /\ ~Doing(w, "fail")
  BY DEF Doing
<1>2. /\ OneHolder'
      /\ \A j \in Jobs : \A v \in Workers : Holds(v, j)' => Holds(v, j)
      /\ \A e \in Deliveries \ {mine} : deliveries'[e] = deliveries[e] => SameView(e)
  BY <1>1, GoesOn DEF Sound
<1>3. deliveries'[mine] = row /\ \A e \in Deliveries \ {mine} : deliveries'[e] = deliveries[e]
  BY DEF TypeInv, AcceptedInv, DeliveryRows
<1>4. \A e \in Deliveries \ {mine} : InLine(e)'
  BY <1>2, <1>3, OutOfSight DEF Sound
<1>5. ASSUME NEW v \in Workers, NEW j \in Jobs, Holds(v, j) PROVE Holds(v, j)'
  <2>1. CASE v = w
    BY <1>5, <2>1 DEF Holds
  <2>2. CASE v # w
    <3>1. worker'[v] = worker[v]
      BY <2>2
    <3> QED BY <1>5, <3>1 DEF Holds, Doing, JobOf
  <2> QED BY <2>1, <2>2
<1>6. Latest(mine)' = Latest(mine) /\ Latest(mine) \in Jobs /\ <<mine, 0>> \in Jobs
  BY LatestIsJob DEF Latest
<1>7. \A v \in Workers : Doing(v, "fail") => Doing(v, "fail")'
  BY <1>1 DEF Doing
<1>8. FirstSpent(mine) => FirstSpent(mine)'
  BY <1>5, <1>6, <1>7 DEF FirstSpent
<1> QED BY <1>2, <1>3, <1>4, <1>5, <1>6, <1>8

LEMMA SuccessStep ==
    ASSUME TypeInv, Sound, NEW w \in Workers, record_webhook_delivery_attempt_success(w)
    PROVE  Sound'
<1>1. /\ worker[w].step \in {"report_success", "report_failure"} /\ ~Doing(w, "idle")
      /\ GoesTo(w, "complete") /\ UNCHANGED <<jobs, budget, spent>>
  BY DEF record_webhook_delivery_attempt_success, Doing
<1>2. PICK mine \in Deliveries : mine = DeliveryOf(w)
  BY SuccessRecorded
<1>3. PICK row \in DeliveryRow :
         /\ deliveries' = [deliveries EXCEPT ![mine] = row]
         /\ row.status = "delivered"
         /\ row.attempts = deliveries[mine].attempts + 1
         /\ row.max_attempts = deliveries[mine].max_attempts
  BY <1>2, SuccessRecorded
<1>4. InLine(mine) /\ deliveries[mine].status # "absent"
  BY <1>1, <1>2, HeldJob
<1>5. /\ OneHolder' /\ \A e \in Deliveries \ {mine} : InLine(e)'
      /\ deliveries'[mine] = row
      /\ Latest(mine)' = Latest(mine)
      /\ FirstSpent(mine) => FirstSpent(mine)'
  <2>1. /\ worker'[w].step = "complete" /\ JobOf(w)' = JobOf(w)
        /\ \A v \in Workers \ {w} : worker'[v] = worker[v]
    BY <1>1, StepTaken DEF TypeInv, AcceptedInv, Step
  <2>2. ~Doing(w, "idle")'
    BY <2>1 DEF Doing
  <2> QED BY <1>1, <1>2, <1>3, <2>1, <2>2, Recorded
<1>6. InLine(mine)'
  BY <1>1, <1>3, <1>4, <1>5 DEF InLine
<1> QED BY <1>5, <1>6 DEF Sound

LEMMA FailureStep ==
    ASSUME TypeInv, Sound, NEW w \in Workers, record_webhook_delivery_attempt_failed(w)
    PROVE  Sound'
<1>1. /\ worker[w].step \in {"report_success", "report_failure"} /\ ~Doing(w, "idle")
      /\ Dispatching(w) /\ ~Doing(w, "fail")
      /\ GoesTo(w, "fail") /\ UNCHANGED <<jobs, budget, spent>>
  BY DEF record_webhook_delivery_attempt_failed, Doing, Dispatching
<1>2. PICK mine \in Deliveries : mine = DeliveryOf(w)
  BY FailureRecorded
<1>3. PICK row \in DeliveryRow :
         /\ deliveries' = [deliveries EXCEPT ![mine] = row]
         /\ row.attempts = deliveries[mine].attempts + 1
         /\ row.max_attempts = deliveries[mine].max_attempts
         /\ IF row.attempts >= row.max_attempts THEN row.status = "dead_letter"
            ELSE row.status = deliveries[mine].status
  BY <1>2, FailureRecorded
<1>4. /\ InLine(mine) /\ deliveries[mine].status = "pending"
      /\ spent.replays[mine] = 0 => JobOf(w) = <<mine, 0>>
      /\ JobOf(w) = Latest(mine) => jobs[JobOf(w)].attempts <= deliveries[mine].attempts
  <2>1. InLine(mine) /\ deliveries[mine].status # "absent" /\ ~Terminal(mine)
    BY <1>1, <1>2, HeldJob, FailureRecorded
  <2>2. deliveries[mine].status = "pending"
    BY <2>1 DEF Terminal, TypeInv, AcceptedInv, DeliveryRows, DeliveryRow
  <2> QED BY <1>1, <1>2, <2>1, <2>2, HeldJob
<1>5. /\ OneHolder' /\ \A e \in Deliveries \ {mine} : InLine(e)'
      /\ deliveries'[mine] = row
      /\ Latest(mine)' = Latest(mine) /\ Latest(mine) \in Jobs /\ <<mine, 0>> \in Jobs
      /\ worker'[w].step = "fail"
      /\ \A j \in Jobs : \A v \in Workers : /\ Holds(v, j)' => Holds(v, j)
                                            /\ Holds(v, j) => Holds(v, j)'
      /\ \A v \in Workers \ {w} : worker'[v] = worker[v]
      /\ FirstSpent(mine) => FirstSpent(mine)'
  <2>1. /\ worker'[w].step = "fail" /\ JobOf(w)' = JobOf(w)
        /\ \A v \in Workers \ {w} : worker'[v] = worker[v]
    BY <1>1, StepTaken DEF TypeInv, AcceptedInv, Step
  <2>2. ~Doing(w, "idle")'
    BY <2>1 DEF Doing
  <2> QED BY <1>1, <1>2, <1>3, <2>1, <2>2, Recorded
<1>6. /\ deliveries[mine].attempts \in Nat /\ row.attempts \in Nat
      /\ row.max_attempts \in Nat /\ deliveries[mine].attempts < deliveries[mine].max_attempts
      /\ jobs[JobOf(w)].attempts \in Nat /\ jobs[Latest(mine)].attempts \in Nat
      /\ jobs[JobOf(w)].status = "in_progress" /\ Holds(w, JobOf(w)) /\ JobOf(w) \in Jobs
  <2>1. deliveries[mine] \in DeliveryRow /\ deliveries[mine].attempts < deliveries[mine].max_attempts
    BY <1>4 DEF TypeInv, AcceptedInv, DeliveryRows, AttemptsLeft, Terminal
  <2>2. JobOf(w) \in Jobs /\ \A j \in Jobs : budget[j] \in Nat \ {0} /\ jobs[j] \in Framework(budget[j])!Row
    BY <1>1, JobHeld DEF TypeInv, JobsType
  <2>3. \A j \in Jobs : jobs[j].attempts \in Nat
    BY <2>2, RowTypes
  <2>4. jobs[JobOf(w)].status = "in_progress" /\ Holds(w, JobOf(w))
    BY <1>1 DEF Sound, OneHolder, Holds
  <2> QED BY <1>5, <2>1, <2>2, <2>3, <2>4 DEF DeliveryRow
<1>7. \A v \in Workers \ {w} : /\ Dispatching(v) => Dispatching(v)'
                               /\ Doing(v, "fail") => Doing(v, "fail")'
                               /\ Dispatching(v)' => Dispatching(v)
                               /\ Doing(v, "fail")' => Doing(v, "fail")
  BY <1>5 DEF Dispatching, Doing
<1>8. Doing(w, "fail")' /\ ~Dispatching(w)'
  BY <1>5 DEF Doing, Dispatching
<1>9. Counted(mine)'
  <2>1. CASE JobOf(w) = Latest(mine)
    <3>1. jobs[Latest(mine)].attempts + 1 <= row.attempts
      BY <1>3, <1>4, <1>6, <2>1
    <3>2. Holds(w, Latest(mine))'
      BY <1>5, <1>6, <2>1
    <3> QED BY <1>1, <1>5, <1>8, <3>1, <3>2 DEF Counted
  <2>2. CASE JobOf(w) # Latest(mine)
    <3>1. Counted(mine)
      BY <1>4 DEF InLine
    <3>2. jobs' = jobs /\ ~Holds(w, Latest(mine))
      BY <1>1, <2>2 DEF Holds
    <3>3. CASE jobs[Latest(mine)].status = "pending" /\ jobs[Latest(mine)].attempts <= deliveries[mine].attempts
      BY <1>3, <1>5, <1>6, <3>2, <3>3 DEF Counted
    <3>4. ASSUME NEW v \in Workers, Holds(v, Latest(mine)),
                 \/ Dispatching(v) /\ jobs[Latest(mine)].attempts <= deliveries[mine].attempts
                 \/ Doing(v, "fail") /\ jobs[Latest(mine)].attempts + 1 <= deliveries[mine].attempts
          PROVE  Counted(mine)'
      <4>1. v \in Workers \ {w} /\ Holds(v, Latest(mine))'
        BY <1>5, <3>2, <3>4
      <4>2. \/ Dispatching(v)' /\ jobs[Latest(mine)].attempts <= row.attempts
            \/ Doing(v, "fail")' /\ jobs[Latest(mine)].attempts + 1 <= row.attempts
        BY <1>3, <1>6, <1>7, <3>4, <4>1
      <4> QED BY <1>5, <3>2, <4>1, <4>2 DEF Counted
    <3> QED BY <3>1, <3>3, <3>4 DEF Counted
  <2> QED BY <2>1, <2>2
<1>10. ASSUME spent.replays[mine] = 0
       PROVE  /\ JobOf(w) = <<mine, 0>> /\ Latest(mine) = <<mine, 0>>
              /\ deliveries[mine].attempts = jobs[<<mine, 0>>].attempts
              /\ budget[<<mine, 0>>] = deliveries[mine].max_attempts
  <2>1. JobOf(w) = <<mine, 0>> /\ Latest(mine) = <<mine, 0>>
    BY <1>4, <1>10 DEF Latest
  <2>2. CountedOnce(mine) /\ budget[<<mine, 0>>] = deliveries[mine].max_attempts
    BY <1>4, <1>10, <2>1 DEF InLine
  <2> QED BY <1>1, <1>6, <2>1, <2>2 DEF CountedOnce
<1>11. ASSUME spent.replays[mine] = 0 PROVE CountedOnce(mine)'
  <2>1. \A v \in Workers : Holds(v, <<mine, 0>>)' => v = w
    BY <1>1, <1>5, <1>10, <1>11 DEF Sound, OneHolder
  <2>2. jobs'[<<mine, 0>>].status = "in_progress" /\ row.attempts = jobs'[<<mine, 0>>].attempts + 1
    BY <1>1, <1>3, <1>6, <1>10, <1>11
  <2> QED BY <1>5, <1>8, <2>1, <2>2 DEF CountedOnce
<1>12. ASSUME spent.replays[mine] = 0, row.status = "dead_letter" PROVE FirstSpent(mine)'
  <2>1. row.attempts >= row.max_attempts
    BY <1>3, <1>4, <1>12
  <2>2. jobs[<<mine, 0>>].attempts + 1 = budget[<<mine, 0>>]
    BY <1>3, <1>6, <1>10, <1>12, <2>1
  <2>3. Holds(w, <<mine, 0>>)'
    BY <1>5, <1>6, <1>10, <1>12
  <2> QED BY <1>1, <1>8, <2>2, <2>3 DEF FirstSpent
<1>13. InLine(mine)'
  <2>1. row.status # "absent"
    BY <1>3, <1>4
  <2>2. spent' = spent /\ jobs' = jobs /\ budget' = budget
    BY <1>1
  <2> QED BY <1>3, <1>4, <1>5, <1>9, <1>11, <1>12, <2>1, <2>2 DEF InLine
<1> QED BY <1>5, <1>13 DEF Sound

\* A worker lets go of its job: if the delivery still counts on that job, the job
\* waits for its next attempt; if the delivery is past it, the job has ended.
LEMMA Left ==
    ASSUME TypeInv, Sound, NEW w \in Workers, ~Doing(w, "idle"), LetGo(w),
           UNCHANGED <<deliveries, budget, spent>>,
           \A k \in Jobs \ {JobOf(w)} : jobs'[k] = jobs[k],
           NEW mine \in Deliveries, mine = DeliveryOf(w),
           NEW held \in Jobs, held = JobOf(w),
           held = Latest(mine) /\ deliveries[mine].status = "pending" =>
               /\ Doing(w, "fail")
               /\ jobs'[held].status = "pending" /\ jobs'[held].attempts = jobs[held].attempts + 1,
           held = <<mine, 0>> /\ FirstSpent(mine) => jobs'[held].status = "dead_letter"
    PROVE  Sound'
<1>1. /\ OneHolder'
      /\ \A v \in Workers : ~Holds(v, held)'
      /\ \A n \in 0 .. MaxReplays : <<mine, n>> # held =>
            /\ jobs'[<<mine, n>>] = jobs[<<mine, n>>]
            /\ \A v \in Workers : /\ Holds(v, <<mine, n>>) => worker'[v] = worker[v]
                                  /\ Holds(v, <<mine, n>>) => Holds(v, <<mine, n>>)'
                                  /\ Holds(v, <<mine, n>>)' => Holds(v, <<mine, n>>)
      /\ \A e \in Deliveries \ {mine} : SameView(e)
  BY GoesAway DEF Sound
<1>2. \A e \in Deliveries \ {mine} : InLine(e)'
  BY <1>1, OutOfSight DEF Sound
<1>3. /\ InLine(mine) /\ deliveries[mine].status # "absent"
      /\ \A n \in 0 .. MaxReplays : n > spent.replays[mine] => held # <<mine, n>>
      /\ held = Latest(mine) /\ deliveries[mine].status = "pending" =>
            \/ Dispatching(w)
            \/ Doing(w, "fail") /\ jobs[held].attempts + 1 <= deliveries[mine].attempts
  BY HeldJob
<1>4. Latest(mine)' = Latest(mine) /\ spent.replays[mine] \in 0 .. MaxReplays /\ 0 \in 0 .. MaxReplays
  BY LatestIsJob DEF Latest
<1>5. ASSUME NEW v \in Workers, worker'[v] = worker[v]
      PROVE  /\ Dispatching(v) => Dispatching(v)'
             /\ Dispatching(v)' => Dispatching(v)
             /\ Doing(v, "fail") => Doing(v, "fail")'
             /\ Doing(v, "fail")' => Doing(v, "fail")
  BY <1>5 DEF Dispatching, Doing
<1>6. ASSUME deliveries[mine].status = "pending" PROVE Counted(mine)'
  <2>1. CASE held = Latest(mine)
    <3>1. jobs[held].attempts + 1 <= deliveries[mine].attempts
      BY <1>3, <1>6, <2>1 DEF Dispatching, Doing
    <3> QED BY <1>4, <1>6, <2>1, <3>1 DEF Counted
  <2>2. CASE held # Latest(mine)
    <3>1. Counted(mine)
      BY <1>3, <1>6 DEF InLine
    <3>2. /\ jobs'[Latest(mine)] = jobs[Latest(mine)]
          /\ \A v \in Workers : Holds(v, Latest(mine)) => worker'[v] = worker[v] /\ Holds(v, Latest(mine))'
      <4> DEFINE n == spent.replays[mine]
      <4>1. Latest(mine) = <<mine, n>> /\ <<mine, n>> # held
        BY <2>2 DEF Latest
      <4>2. n \in 0 .. MaxReplays
        BY <1>4
      <4>3. /\ jobs'[<<mine, n>>] = jobs[<<mine, n>>]
            /\ \A v \in Workers : Holds(v, <<mine, n>>) => worker'[v] = worker[v]
        BY <1>1, <4>1, <4>2
      <4>4. \A v \in Workers : Holds(v, Latest(mine)) => Holds(v, Latest(mine))'
        BY <1>4, <4>1, <4>3 DEF Holds, Doing, JobOf
      <4> QED BY <4>1, <4>3, <4>4
    <3> QED BY <1>4, <1>5, <3>1, <3>2 DEF Counted
  <2> QED BY <2>1, <2>2
<1>7. ASSUME deliveries[mine].status = "pending", spent.replays[mine] = 0 PROVE CountedOnce(mine)'
  <2>1. CountedOnce(mine) /\ Latest(mine) = <<mine, 0>>
    BY <1>3, <1>7 DEF InLine, Latest
  <2>2. CASE held = <<mine, 0>>
    <3>1. deliveries[mine].attempts = jobs'[held].attempts
      BY <1>7, <2>1, <2>2 DEF CountedOnce, Holds
    <3> QED BY <1>1, <2>2, <3>1 DEF CountedOnce
  <2>3. CASE held # <<mine, 0>>
    BY <1>1, <1>4, <1>5, <2>1, <2>3 DEF CountedOnce
  <2> QED BY <2>2, <2>3
<1>8. ASSUME FirstSpent(mine) PROVE FirstSpent(mine)'
  <2>1. CASE held = <<mine, 0>>
    BY <1>8, <2>1 DEF FirstSpent
  <2>2. CASE held # <<mine, 0>>
    BY <1>1, <1>4, <1>5, <1>8, <2>2 DEF FirstSpent
  <2> QED BY <2>1, <2>2
<1>9. InLine(mine)'
  <2>1. \A n \in 0 .. MaxReplays : n > spent.replays[mine] => jobs'[<<mine, n>>].status = "absent"
    BY <1>1, <1>3 DEF InLine
  <2> QED BY <1>3, <1>4, <1>6, <1>7, <1>8, <2>1 DEF InLine
<1> QED BY <1>1, <1>2, <1>9 DEF Sound

LEMMA RefusedStep ==
    ASSUME TypeInv, Sound, NEW w \in Workers,
           record_webhook_delivery_attempt_raises(w) \/ complete_job(w)
    PROVE  Sound'
<1>1. /\ ~Doing(w, "idle") /\ ~Doing(w, "fail") /\ LetGo(w) /\ UNCHANGED <<deliveries, budget, spent>>
      /\ \A k \in Jobs \ {JobOf(w)} : jobs'[k] = jobs[k]
      /\ Dispatching(w) => Terminal(DeliveryOf(w))
  <2>1. CASE record_webhook_delivery_attempt_raises(w)
    BY <2>1 DEF record_webhook_delivery_attempt_raises, AttemptRefused, Doing
  <2>2. CASE complete_job(w)
    BY <2>2 DEF complete_job, Doing, Dispatching, TypeInv, JobsType
  <2> QED BY <2>1, <2>2
<1>2. PICK mine \in Deliveries : mine = DeliveryOf(w)
  BY <1>1, JobHeld
<1>3. PICK held \in Jobs : held = JobOf(w)
  BY <1>1, JobHeld
<1>4. ~(held = Latest(mine) /\ deliveries[mine].status = "pending") /\ ~(held = <<mine, 0>> /\ FirstSpent(mine))
  BY <1>1, <1>2, <1>3, HeldJob DEF Terminal
<1> QED BY <1>1, <1>2, <1>3, <1>4, Left

LEMMA JobFailureStep ==
    ASSUME TypeInv, Sound, NEW w \in Workers, record_job_failure(w)
    PROVE  Sound'
<1>1. Doing(w, "fail") /\ ~Doing(w, "idle") /\ LetGo(w) /\ UNCHANGED <<deliveries, budget, spent>>
  BY DEF record_job_failure, Doing
<1>2. PICK mine \in Deliveries : mine = DeliveryOf(w)
  BY <1>1, JobHeld
<1>3. PICK held \in Jobs : held = JobOf(w)
  BY <1>1, JobHeld
<1> DEFINE row == Framework(budget[held])!FailedRow(jobs[held], jobs[held].attempts)
<1>4. /\ jobs[held].status = "in_progress"
      /\ budget[held] \in Nat \ {0} /\ jobs[held] \in Framework(budget[held])!Row
      /\ jobs[held].attempts \in Nat
  BY <1>1, <1>3, JobHeld, RowTypes DEF Sound, OneHolder
<1>5. /\ ~Framework(budget[held])!FailureRefused(jobs[held].status)
      /\ Framework(budget[held])!jobs_attempts_check(row) <=> jobs[held].attempts + 1 <= budget[held]
      /\ row.attempts = jobs[held].attempts + 1
      /\ jobs[held].attempts + 1 < budget[held] => row.status = "pending"
      /\ jobs[held].attempts + 1 >= budget[held] => row.status = "dead_letter"
  BY <1>4, Failed DEF Framework!FailureRefused
<1>6. jobs' = IF ~Framework(budget[held])!FailureRefused(jobs[held].status)
                 /\ Framework(budget[held])!jobs_attempts_check(row)
              THEN [jobs EXCEPT ![held] = row] ELSE jobs
  BY <1>3 DEF record_job_failure
<1> HIDE DEF row
<1>7. \A k \in Jobs \ {held} : jobs'[k] = jobs[k]
  BY <1>6 DEF TypeInv, JobsType
<1>8. jobs[held].attempts + 1 <= budget[held] => jobs'[held] = row
  BY <1>5, <1>6 DEF TypeInv, JobsType
<1>9. ASSUME held = Latest(mine), deliveries[mine].status = "pending"
      PROVE  jobs'[held].status = "pending" /\ jobs'[held].attempts = jobs[held].attempts + 1
  <2>1. jobs[held].attempts + 1 <= deliveries[mine].attempts
    BY <1>1, <1>2, <1>3, <1>9, HeldJob DEF Dispatching, Doing
  <2>2. InLine(mine) /\ budget[held] = deliveries[mine].max_attempts
    BY <1>9 DEF Sound, InLine
  <2>3. deliveries[mine].attempts < deliveries[mine].max_attempts /\ deliveries[mine].attempts \in Nat
    BY <1>9 DEF TypeInv, AcceptedInv, DeliveryRows, DeliveryRow, AttemptsLeft, Terminal
  <2>4. jobs[held].attempts + 1 < budget[held]
    BY <1>4, <2>1, <2>2, <2>3
  <2> QED BY <1>4, <1>5, <1>8, <2>4
<1>10. ASSUME held = <<mine, 0>>, FirstSpent(mine) PROVE jobs'[held].status = "dead_letter"
  <2>1. jobs[held].attempts + 1 = budget[held]
    BY <1>1, <1>2, <1>3, <1>10, HeldJob
  <2> QED BY <1>4, <1>5, <1>8, <2>1
<1> QED BY <1>1, <1>2, <1>3, <1>7, <1>9, <1>10, Left

\* A free job is claimed, or enqueued, or its time passes: the workers who are at
\* a job keep it, and its row.
LEMMA ClaimStep ==
    ASSUME TypeInv, Sound, NEW w \in Workers, NEW j \in Jobs, claim_next_job(w, j)
    PROVE  Sound'
<1> DEFINE row == Framework(budget[j])!ClaimedRow(jobs[j], w)
<1>1. /\ Doing(w, "idle") /\ Claimable(j) /\ UNCHANGED <<deliveries, budget, spent>>
      /\ Framework(budget[j])!jobs_attempts_check(row)
      /\ jobs' = [jobs EXCEPT ![j] = row]
      /\ worker' = [worker EXCEPT ![w] = [step |-> "read", job |-> j]]
  BY DEF claim_next_job
<1>2. /\ row.status = "in_progress" /\ row.lease = "live" /\ row.locked_by = w
      /\ jobs[j].status = "pending" => row.attempts = jobs[j].attempts
  BY <1>1, Claimed DEF TypeInv, JobsType
<1>3. \/ jobs[j].status = "pending"
      \/ jobs[j].status = "in_progress" /\ jobs[j].lease = "lapsed"
  BY <1>1 DEF Claimable, Framework!Claimable
<1> HIDE DEF row
<1>4. /\ worker'[w].step = "read" /\ worker'[w].job = j
      /\ \A v \in Workers \ {w} : worker'[v] = worker[v]
  BY <1>1 DEF TypeInv, AcceptedInv, WorkersHaveJobs
<1>5. jobs'[j] = row /\ \A k \in Jobs \ {j} : jobs'[k] = jobs[k]
  BY <1>1 DEF TypeInv, JobsType
<1>6. \A v \in Workers : ~Holds(v, j)
  BY <1>3 DEF Sound, OneHolder, Holds
<1>7. /\ Holds(w, j)' /\ Dispatching(w)' /\ ~Doing(w, "fail")'
      /\ \A v \in Workers : Holds(v, j)' => v = w
      /\ \A k \in Jobs \ {j} : ~Holds(w, k) /\ ~Holds(w, k)'
  <2>1. Holds(w, j)' /\ Dispatching(w)' /\ ~Doing(w, "fail")'
    BY <1>4 DEF Holds, Dispatching, Doing, JobOf
  <2>2. \A k \in Jobs \ {j} : ~Holds(w, k) /\ ~Holds(w, k)'
    BY <1>1, <1>4 DEF Holds, Doing, JobOf
  <2>3. ASSUME NEW v \in Workers, Holds(v, j)', v # w PROVE FALSE
    <3>1. worker'[v] = worker[v]
      BY <1>4, <2>3
    <3> QED BY <1>6, <2>3, <3>1 DEF Holds, Doing, JobOf
  <2> QED BY <2>1, <2>2, <2>3
<1>8. \A k \in Jobs \ {j} : \A v \in Workers : /\ Holds(v, k)' => Holds(v, k)
                                               /\ Holds(v, k) => Holds(v, k)'
                                               /\ Holds(v, k) => worker'[v] = worker[v]
  <2>1. ASSUME NEW k \in Jobs \ {j}, NEW v \in Workers
        PROVE  /\ Holds(v, k)' => Holds(v, k)
               /\ Holds(v, k) => Holds(v, k)'
               /\ Holds(v, k) => worker'[v] = worker[v]
    <3>1. CASE v = w
      BY <1>7, <3>1
    <3>2. CASE v # w
      <4>1. worker'[v] = worker[v]
        BY <1>4, <3>2
      <4> QED BY <4>1 DEF Holds, Doing, JobOf
    <3> QED BY <3>1, <3>2
  <2> QED BY <2>1
<1>9. OneHolder'
  <2> SUFFICES ASSUME NEW v \in Workers, ~Doing(v, "idle")'
               PROVE  /\ jobs'[JobOf(v)'].status = "in_progress"
                      /\ jobs'[JobOf(v)'].lease = "live"
                      /\ jobs'[JobOf(v)'].locked_by = v
                      /\ \A u \in Workers : Holds(u, JobOf(v))' => u = v
    BY DEF OneHolder
  <2>1. CASE v = w
    <3>1. JobOf(v)' = j
      BY <1>4, <2>1 DEF JobOf
    <3>2. \A u \in Workers : Holds(u, JobOf(v))' => Holds(u, j)'
      BY <3>1 DEF Holds
    <3> QED BY <1>2, <1>5, <1>7, <2>1, <3>1, <3>2
  <2>2. CASE v # w
    <3>1. worker'[v] = worker[v] /\ ~Doing(v, "idle") /\ JobOf(v)' = JobOf(v)
      BY <1>4, <2>2 DEF Doing, JobOf
    <3>2. JobOf(v) \in Jobs \ {j}
      BY <1>6, <3>1, JobHeld DEF Holds
    <3>3. \A u \in Workers : Holds(u, JobOf(v))' => Holds(u, JobOf(v))
      <4> SUFFICES ASSUME NEW u \in Workers, Holds(u, JobOf(v))' PROVE Holds(u, JobOf(v))
        OBVIOUS
      <4>1. ~Doing(u, "idle")' /\ JobOf(u)' = JobOf(v)
        BY <3>1 DEF Holds
      <4>2. u # w
        BY <1>4, <3>2, <4>1 DEF JobOf
      <4> QED BY <1>4, <4>1, <4>2 DEF Holds, Doing, JobOf
    <3> QED BY <1>5, <3>1, <3>2, <3>3 DEF Sound, OneHolder
  <2> QED BY <2>1, <2>2
<1>10. PICK mine \in Deliveries, n \in 0 .. MaxReplays : j = <<mine, n>>
  BY DEF Jobs
<1>11. ASSUME NEW e \in Deliveries \ {mine} PROVE InLine(e)'
  <2>1. \A k \in 0 .. MaxReplays : <<e, k>> \in Jobs \ {j}
    BY <1>10 DEF Jobs
  <2>2. SameView(e)
    BY <1>1, <1>5, <1>8, <2>1 DEF SameView
  <2> QED BY <2>2, OutOfSight DEF Sound
<1>12. /\ InLine(mine) /\ Latest(mine)' = Latest(mine)
       /\ Latest(mine) \in Jobs /\ <<mine, 0>> \in Jobs
       /\ spent.replays[mine] \in 0 .. MaxReplays /\ 0 \in 0 .. MaxReplays
  BY <1>1, LatestIsJob DEF Sound, Latest
<1>13. deliveries[mine].status # "absent" /\ n <= spent.replays[mine]
  BY <1>3, <1>10, <1>12 DEF InLine
<1>14. ASSUME NEW v \in Workers, worker'[v] = worker[v]
       PROVE  /\ Dispatching(v) => Dispatching(v)'
              /\ Dispatching(v)' => Dispatching(v)
              /\ Doing(v, "fail") => Doing(v, "fail")'
              /\ Doing(v, "fail")' => Doing(v, "fail")
  BY <1>14 DEF Dispatching, Doing
<1>15. ASSUME deliveries[mine].status = "pending" PROVE Counted(mine)'
  <2>1. Counted(mine)
    BY <1>12, <1>15 DEF InLine
  <2>2. CASE j = Latest(mine)
    <3>1. jobs[j].status = "pending" /\ jobs[j].attempts <= deliveries[mine].attempts
      BY <1>3, <1>6, <2>1, <2>2 DEF Counted
    <3> QED BY <1>1, <1>2, <1>5, <1>7, <1>12, <2>2, <3>1 DEF Counted
  <2>3. CASE j # Latest(mine)
    BY <1>1, <1>5, <1>8, <1>12, <1>14, <2>1, <2>3 DEF Counted
  <2> QED BY <2>2, <2>3
<1>16. ASSUME deliveries[mine].status = "pending", spent.replays[mine] = 0 PROVE CountedOnce(mine)'
  <2>1. /\ CountedOnce(mine) /\ Counted(mine) /\ Latest(mine) = <<mine, 0>> /\ j = <<mine, 0>>
    BY <1>10, <1>12, <1>13, <1>16 DEF InLine, Latest
  <2>2. jobs[j].status = "pending"
    BY <1>3, <1>6, <2>1 DEF Counted
  <2>3. deliveries'[mine].attempts = jobs'[j].attempts
    BY <1>1, <1>2, <1>5, <2>1, <2>2 DEF CountedOnce
  <2> QED BY <1>2, <1>5, <1>7, <2>1, <2>3 DEF CountedOnce
<1>17. ASSUME FirstSpent(mine) PROVE FirstSpent(mine)'
  <2>1. j # <<mine, 0>>
    BY <1>3, <1>6, <1>17 DEF FirstSpent
  <2> QED BY <1>1, <1>5, <1>8, <1>12, <1>14, <1>17, <2>1 DEF FirstSpent
<1>18. InLine(mine)'
  <2>1. ASSUME NEW k \in 0 .. MaxReplays, k > spent.replays[mine] PROVE jobs'[<<mine, k>>].status = "absent"
    <3>1. <<mine, k>> \in Jobs \ {j}
      BY <1>10, <1>12, <1>13, <2>1 DEF Jobs
    <3> QED BY <1>5, <1>12, <2>1, <3>1 DEF InLine
  <2> QED BY <1>1, <1>12, <1>13, <1>15, <1>16, <1>17, <2>1 DEF InLine
<1> QED BY <1>9, <1>11, <1>18 DEF Sound

LEMMA Enqueued ==
    ASSUME TypeInv, Sound, NEW j \in Jobs, jobs[j].status = "absent",
           NEW n \in Nat \ {0}, enqueue_job(j, n), UNCHANGED worker
    PROVE  /\ OneHolder'
           /\ \A v \in Workers : ~Holds(v, j)'
           /\ jobs'[j].status = "pending" /\ jobs'[j].attempts = 0 /\ budget'[j] = n
           /\ \A k \in Jobs \ {j} : jobs'[k] = jobs[k] /\ budget'[k] = budget[k]
           /\ \A k \in Jobs : \A v \in Workers : /\ Holds(v, k)' => Holds(v, k)
                                                 /\ Holds(v, k) => Holds(v, k)'
<1>1. /\ jobs'[j].status = "pending" /\ jobs'[j].attempts = 0 /\ budget'[j] = n
      /\ \A k \in Jobs \ {j} : jobs'[k] = jobs[k] /\ budget'[k] = budget[k]
  BY JobEnqueued DEF TypeInv
<1>2. \A v \in Workers : ~Holds(v, j)
  BY DEF Sound, OneHolder, Holds
<1>3. \A k : \A v \in Workers : /\ Holds(v, k)' => Holds(v, k)
                                /\ Holds(v, k) => Holds(v, k)'
  BY DEF Holds, Doing, JobOf
<1>4. OneHolder'
  <2> SUFFICES ASSUME NEW v \in Workers, ~Doing(v, "idle")'
               PROVE  /\ jobs'[JobOf(v)'].status = "in_progress"
                      /\ jobs'[JobOf(v)'].lease = "live"
                      /\ jobs'[JobOf(v)'].locked_by = v
                      /\ \A u \in Workers : Holds(u, JobOf(v))' => u = v
    BY DEF OneHolder
  <2>1. ~Doing(v, "idle") /\ JobOf(v)' = JobOf(v)
    BY DEF Doing, JobOf
  <2>2. JobOf(v) \in Jobs \ {j}
    BY <1>2, <2>1, JobHeld DEF Holds
  <2>3. \A u \in Workers : Holds(u, JobOf(v))' => Holds(u, JobOf(v))
    BY <1>3, <2>1
  <2> QED BY <1>1, <2>1, <2>2, <2>3 DEF Sound, OneHolder
<1> QED BY <1>1, <1>2, <1>3, <1>4

LEMMA QueueStep ==
    ASSUME TypeInv, Sound, NEW mine \in Deliveries, NEW n \in Nat \ {0}, Queue(mine, n)
    PROVE  Sound'
<1> DEFINE j == <<mine, 0>>
           row == [status |-> "pending", attempts |-> 0, max_attempts |-> n]
<1>1. /\ deliveries[mine].status = "absent" /\ enqueue_job(j, n)
      /\ deliveries' = [deliveries EXCEPT ![mine] = row]
      /\ UNCHANGED <<worker, spent>>
  BY DEF Queue
<1>2. /\ deliveries'[mine] = row
      /\ \A e \in Deliveries \ {mine} : deliveries'[e] = deliveries[e]
  BY <1>1 DEF TypeInv, AcceptedInv, DeliveryRows
<1>3. /\ InLine(mine) /\ spent.replays[mine] = 0 /\ jobs[j].status = "absent" /\ j \in Jobs
      /\ 0 \in 0 .. MaxReplays
  BY <1>1, LatestIsJob DEF Sound, InLine
<1>4. /\ OneHolder'
      /\ \A v \in Workers : ~Holds(v, j)'
      /\ jobs'[j].status = "pending" /\ jobs'[j].attempts = 0 /\ budget'[j] = n
      /\ \A k \in Jobs \ {j} : jobs'[k] = jobs[k] /\ budget'[k] = budget[k]
      /\ \A k \in Jobs : \A v \in Workers : /\ Holds(v, k)' => Holds(v, k)
                                            /\ Holds(v, k) => Holds(v, k)'
  BY <1>1, <1>3, Enqueued
<1>5. ASSUME NEW e \in Deliveries \ {mine} PROVE InLine(e)'
  <2>1. \A k \in 0 .. MaxReplays : <<e, k>> \in Jobs \ {j}
    BY DEF Jobs
  <2>2. SameView(e)
    BY <1>1, <1>2, <1>4, <2>1 DEF SameView
  <2> QED BY <2>2, OutOfSight DEF Sound
<1>6. Latest(mine)' = j
  BY <1>1, <1>3 DEF Latest
<1>7. row.status = "pending" /\ row.attempts = 0 /\ row.max_attempts = n
  OBVIOUS
<1> HIDE DEF row
<1>8. \A k \in 0 .. MaxReplays : k > spent.replays[mine] => jobs'[<<mine, k>>].status = "absent"
  <2> SUFFICES ASSUME NEW k \in 0 .. MaxReplays, k > 0 PROVE jobs'[<<mine, k>>].status = "absent"
    BY <1>3
  <2>1. <<mine, k>> \in Jobs \ {j} /\ jobs[<<mine, k>>].status = "absent"
    BY <1>1, <1>3 DEF Jobs, InLine
  <2> QED BY <1>4, <2>1
<1>9. Counted(mine)' /\ CountedOnce(mine)'
  BY <1>2, <1>4, <1>6, <1>7 DEF Counted, CountedOnce
<1>10. InLine(mine)'
  BY <1>1, <1>2, <1>3, <1>4, <1>6, <1>7, <1>8, <1>9 DEF InLine
<1> QED BY <1>4, <1>5, <1>10 DEF Sound

LEMMA ReplayStep ==
    ASSUME TypeInv, Sound, NEW mine \in Deliveries, replay_webhook_delivery(mine)
    PROVE  Sound'
<1> DEFINE n == spent.replays[mine] + 1
           max == ReplayBudget(mine)
           row == [deliveries[mine] EXCEPT !.status = "pending", !.max_attempts = max]
<1>1. /\ n \in 0 .. MaxReplays /\ spent.replays[mine] \in 0 .. MaxReplays
      /\ max \in Nat \ {0} /\ <<mine, n>> \in Jobs
  BY ReplayTypes
<1>2. /\ deliveries[mine].status = "dead_letter" /\ enqueue_job(<<mine, n>>, max)
      /\ deliveries' = [deliveries EXCEPT ![mine] = row]
      /\ spent' = [spent EXCEPT !.replays[mine] = n]
      /\ UNCHANGED worker
  BY DEF replay_webhook_delivery
<1>3. deliveries[mine] \in DeliveryRow
  BY DEF TypeInv, AcceptedInv, DeliveryRows
<1> HIDE DEF max
<1>4. row.status = "pending" /\ row.attempts = deliveries[mine].attempts /\ row.max_attempts = max
      /\ deliveries[mine].attempts \in Nat
  BY <1>1, <1>3 DEF DeliveryRow
<1> HIDE DEF row
<1>5. /\ deliveries'[mine] = row
      /\ \A e \in Deliveries \ {mine} : deliveries'[e] = deliveries[e]
  BY <1>2 DEF TypeInv, AcceptedInv, DeliveryRows
<1>6. spent'.replays[mine] = n /\ \A e \in Deliveries \ {mine} : spent'.replays[e] = spent.replays[e]
  BY <1>2 DEF TypeInv, RestType
<1>7. PICK new \in 0 .. MaxReplays : new = n
  BY <1>1
<1> DEFINE j == <<mine, new>>
<1>8. InLine(mine) /\ new > 0 /\ 0 \in 0 .. MaxReplays /\ new > spent.replays[mine]
  <2>1. InLine(mine) /\ 0 \in 0 .. MaxReplays
    BY LatestIsJob DEF Sound
  <2>2. new > 0 /\ new > spent.replays[mine]
    BY <1>1, <1>7
  <2> QED BY <2>1, <2>2
<1>9. jobs[j].status = "absent" /\ j \in Jobs
  BY <1>1, <1>7, <1>8 DEF InLine
<1>10. /\ OneHolder'
       /\ \A v \in Workers : ~Holds(v, j)'
       /\ jobs'[j].status = "pending" /\ jobs'[j].attempts = 0 /\ budget'[j] = max
       /\ \A k \in Jobs \ {j} : jobs'[k] = jobs[k] /\ budget'[k] = budget[k]
       /\ \A k \in Jobs : \A v \in Workers : /\ Holds(v, k)' => Holds(v, k)
                                             /\ Holds(v, k) => Holds(v, k)'
  BY <1>1, <1>2, <1>7, <1>9, Enqueued
<1>11. ASSUME NEW e \in Deliveries \ {mine} PROVE InLine(e)'
  <2>1. \A k \in 0 .. MaxReplays : <<e, k>> \in Jobs \ {j}
    BY DEF Jobs
  <2>2. SameView(e)
    BY <1>2, <1>5, <1>6, <1>10, <2>1 DEF SameView
  <2> QED BY <2>2, OutOfSight DEF Sound
<1>12. Latest(mine)' = j
  BY <1>6, <1>7 DEF Latest
<1>13. ASSUME NEW k \in 0 .. MaxReplays, k > new PROVE jobs'[<<mine, k>>].status = "absent"
  <2>1. <<mine, k>> \in Jobs \ {j} /\ jobs[<<mine, k>>].status = "absent"
    BY <1>1, <1>7, <1>8, <1>13 DEF Jobs, InLine
  <2> QED BY <1>10, <2>1
<1>14. Counted(mine)'
  BY <1>4, <1>5, <1>10, <1>12 DEF Counted
<1>15. ASSUME new = 1 PROVE FirstSpent(mine)'
  <2>1. FirstSpent(mine)
    BY <1>1, <1>2, <1>7, <1>8, <1>15 DEF InLine
  <2>2. <<mine, 0>> \in Jobs \ {j}
    BY <1>8 DEF Jobs
  <2>3. \A v \in Workers : Doing(v, "fail") => Doing(v, "fail")'
    BY <1>2 DEF Doing
  <2> QED BY <1>10, <2>1, <2>2, <2>3 DEF FirstSpent
<1>16. InLine(mine)'
  BY <1>4, <1>5, <1>6, <1>7, <1>8, <1>10, <1>12, <1>13, <1>14, <1>15 DEF InLine
<1> QED BY <1>10, <1>11, <1>16 DEF Sound

\* Only the lease and the backoff of a job change: nobody looks at them but a claim.
LEMMA TimeStep ==
    ASSUME TypeInv, Sound, ~Mishap, NEW j \in Jobs, LeaseExpires(j) \/ BackoffElapses(j)
    PROVE  Sound'
<1>1. /\ UNCHANGED <<deliveries, budget, worker, spent>>
      /\ \A v \in Workers : ~Holds(v, j)
  <2>1. CASE LeaseExpires(j)
    BY <2>1 DEF LeaseExpires, Held, Holds
  <2>2. CASE BackoffElapses(j)
    <3>1. UNCHANGED <<deliveries, budget, worker, spent>> /\ jobs[j].status = "pending"
      BY <2>2 DEF BackoffElapses
    <3> QED BY <3>1 DEF Sound, OneHolder, Holds
  <2> QED BY <2>1, <2>2
<1>2. /\ jobs'[j].status = jobs[j].status /\ jobs'[j].attempts = jobs[j].attempts
      /\ \A k \in Jobs \ {j} : jobs'[k] = jobs[k]
  <2>1. /\ jobs[j] \in Framework(budget[j])!Row /\ DOMAIN jobs = Jobs
    BY DEF TypeInv, JobsType
  <2>2. /\ [jobs[j] EXCEPT !.lease = "lapsed"].status = jobs[j].status
        /\ [jobs[j] EXCEPT !.lease = "lapsed"].attempts = jobs[j].attempts
        /\ [jobs[j] EXCEPT !.due = TRUE].status = jobs[j].status
        /\ [jobs[j] EXCEPT !.due = TRUE].attempts = jobs[j].attempts
    BY <2>1 DEF Framework!Row
  <2>3. \/ jobs' = [jobs EXCEPT ![j] = [jobs[j] EXCEPT !.lease = "lapsed"]]
        \/ jobs' = [jobs EXCEPT ![j] = [jobs[j] EXCEPT !.due = TRUE]]
    BY DEF LeaseExpires, BackoffElapses
  <2>4. \/ jobs'[j] = [jobs[j] EXCEPT !.lease = "lapsed"]
        \/ jobs'[j] = [jobs[j] EXCEPT !.due = TRUE]
    BY <2>1, <2>3
  <2>5. \A k \in Jobs \ {j} : jobs'[k] = jobs[k]
    BY <2>1, <2>3
  <2> QED BY <2>2, <2>4, <2>5
<1>3. OneHolder'
  <2> SUFFICES ASSUME NEW v \in Workers, ~Doing(v, "idle")'
               PROVE  /\ jobs'[JobOf(v)'].status = "in_progress"
                      /\ jobs'[JobOf(v)'].lease = "live"
                      /\ jobs'[JobOf(v)'].locked_by = v
                      /\ \A u \in Workers : Holds(u, JobOf(v))' => u = v
    BY DEF OneHolder
  <2>1. ~Doing(v, "idle") /\ JobOf(v)' = JobOf(v)
    BY <1>1 DEF Doing, JobOf
  <2>2. JobOf(v) \in Jobs \ {j}
    BY <1>1, <2>1, JobHeld DEF Holds
  <2>3. \A u \in Workers : Holds(u, JobOf(v))' => Holds(u, JobOf(v))
    BY <1>1, <2>1 DEF Holds, Doing, JobOf
  <2> QED BY <1>2, <2>1, <2>2, <2>3 DEF Sound, OneHolder
<1>4. \A e \in Deliveries : SameView(e)
  <2>1. ASSUME NEW e \in Deliveries, NEW n \in 0 .. MaxReplays
        PROVE  /\ jobs'[<<e, n>>].status = jobs[<<e, n>>].status
               /\ jobs'[<<e, n>>].attempts = jobs[<<e, n>>].attempts
               /\ \A v \in Workers : Holds(v, <<e, n>>)' => Holds(v, <<e, n>>)
    <3>1. <<e, n>> \in Jobs
      BY DEF Jobs
    <3>2. \A v \in Workers : Holds(v, <<e, n>>)' => Holds(v, <<e, n>>)
      BY <1>1 DEF Holds, Doing, JobOf
    <3> QED BY <1>2, <3>1, <3>2
  <2> QED BY <1>1, <2>1 DEF SameView
<1> QED BY <1>3, <1>4, OutOfSight DEF Sound

LEMMA SoundUnchanged ==
    ASSUME Sound, UNCHANGED <<deliveries, jobs, budget, worker, spent>>
    PROVE  Sound'
BY DEF Sound, OneHolder, InLine, Counted, CountedOnce, FirstSpent, Latest, Holds, Dispatching, Doing, JobOf

LEMMA SoundStep ==
    ASSUME TypeInv, Sound, [Next]_vars, Undisturbed'
    PROVE  Sound'
<1>1. ~Mishap /\ ~\E w \in Workers : WorkerCrashes(w)
  BY NotDisturbedBefore
<1>2. ASSUME NEW w \in Workers, Proceeds(w) PROVE Sound'
  BY <1>2, ClaimStep, ReadStep, RefusedStep, SuccessStep, FailureStep, JobFailureStep DEF Proceeds
<1>3. CASE Operator
  <2>1. CASE disable_webhook_endpoint \/ reenable_webhook_endpoint
    BY <2>1, SoundUnchanged DEF disable_webhook_endpoint, reenable_webhook_endpoint, SetEndpoint
  <2> QED BY <1>3, <2>1, QueueCases, QueueStep, ReplayStep DEF Operator
<1>4. ASSUME NEW j \in Jobs, LeaseExpires(j) \/ BackoffElapses(j) PROVE Sound'
  BY <1>1, <1>4, TimeStep
<1>5. CASE UNCHANGED vars
  BY <1>5, SoundUnchanged DEF vars
<1> QED BY <1>1, <1>2, <1>3, <1>4, <1>5 DEF Next

LEMMA InitSound == Init => Sound
<1> SUFFICES ASSUME Init PROVE Sound
  OBVIOUS
<1>1. OneHolder
  BY DEF Init, OneHolder, Doing, Idle
<1>2. \A j \in Jobs : jobs[j].status = "absent"
  BY AttemptsAssumption, NewRows DEF Init
<1>3. \A d \in Deliveries : InLine(d)
  <2>1. \A d \in Deliveries : \A n \in 0 .. MaxReplays : <<d, n>> \in Jobs
    BY DEF Jobs
  <2>2. \A d \in Deliveries : deliveries[d].status = "absent" /\ spent.replays[d] = 0
    BY DEF Init
  <2> QED BY <1>2, <2>1, <2>2 DEF InLine
<1> QED BY <1>1, <1>3 DEF Sound

LEMMA AlignedStep ==
    ASSUME TypeInv, AlignedInv, [Next]_vars
    PROVE  AlignedInv'
BY NotDisturbedBefore, SoundStep DEF AlignedInv, Sound

\* Unless a worker dies or overruns its lease, a delivery that is still owed has a
\* job that will be claimed or is being worked on: no interleaving of failures,
\* replays and endpoint changes by any number of workers strands it.
THEOREM OwedHasJob == Spec => []PendingHasJobUndisturbed
<1>1. Init => AlignedInv
  BY InitSound DEF AlignedInv, Sound
<1>2. TypeInv /\ AlignedInv /\ [Next]_vars => AlignedInv'
  BY AlignedStep
<1>3. TypeInv /\ AlignedInv => PendingHasJobUndisturbed
  <2> SUFFICES ASSUME TypeInv, AlignedInv, Undisturbed,
                      NEW d \in Deliveries, deliveries[d].status = "pending"
               PROVE  \E n \in 0 .. MaxReplays : Unsettled(<<d, n>>)
    BY DEF PendingHasJobUndisturbed, PendingHasJob
  <2>1. OneHolder /\ Counted(d)
    BY DEF AlignedInv, InLine
  <2>2. jobs[Latest(d)].status \in {"pending", "in_progress"}
    BY <2>1 DEF Counted, OneHolder, Holds
  <2>3. spent.replays[d] \in 0 .. MaxReplays
    BY LatestIsJob
  <2> QED BY <2>2, <2>3 DEF Latest, Unsettled
<1> QED BY <1>1, <1>2, <1>3, InitType, TypeStep, PTL DEF Spec

\* Two workers post the same delivery at once only if one of them died or overran
\* its lease, or the delivery was replayed more than once: a first replay follows
\* a job that makes no further attempt.
THEOREM OneDispatcherAtATime == Spec => []OneDispatcher
<1>1. Init => AlignedInv
  BY InitSound DEF AlignedInv, Sound
<1>2. TypeInv /\ AlignedInv /\ [Next]_vars => AlignedInv'
  BY AlignedStep
<1>3. TypeInv /\ AlignedInv => OneDispatcher
  <2> SUFFICES ASSUME TypeInv, AlignedInv, Undisturbed, NEW v \in Workers, NEW w \in Workers,
                      v # w, Doing(v, "post"), Doing(w, "post"), DeliveryOf(v) = DeliveryOf(w),
                      ~(spent.replays[DeliveryOf(w)] > 1)
               PROVE  FALSE
    BY DEF OneDispatcher
  <2>1. Sound
    BY DEF AlignedInv, Sound
  <2>2. /\ ~Doing(v, "idle") /\ ~Doing(w, "idle")
        /\ ~Doing(v, "fail") /\ ~Doing(w, "fail")
    BY DEF Doing
  <2>3. PICK d \in Deliveries : d = DeliveryOf(w)
    BY <2>2, JobHeld
  <2>4. JobOf(v) # JobOf(w)
    BY <2>1, <2>2 DEF Sound, OneHolder, Holds
  <2>5. PICK m \in 0 .. MaxReplays : JobOf(v) = <<d, m>>
    BY <2>2, <2>3, HeldTuple
  <2>6. PICK n \in 0 .. MaxReplays : JobOf(w) = <<d, n>>
    BY <2>2, <2>3, HeldTuple
  <2>7. /\ InLine(d) /\ m <= spent.replays[d] /\ n <= spent.replays[d]
        /\ spent.replays[d] \in 0 .. MaxReplays
    <3>1. InLine(d) /\ spent.replays[d] \in 0 .. MaxReplays
      BY <2>1, LatestIsJob DEF Sound
    <3>2. ~(m > spent.replays[d])
      BY <2>1, <2>2, <2>3, <2>5, HeldJob
    <3>3. ~(n > spent.replays[d])
      BY <2>1, <2>2, <2>3, <2>6, HeldJob
    <3> QED BY <3>1, <3>2, <3>3
  <2>8. spent.replays[d] = 1 /\ (m = 0 \/ n = 0)
    BY <2>3, <2>4, <2>5, <2>6, <2>7
  <2>9. FirstSpent(d)
    BY <2>7, <2>8 DEF InLine
  <2> QED BY <2>1, <2>2, <2>3, <2>5, <2>6, <2>8, <2>9, HeldJob
<1> QED BY <1>1, <1>2, <1>3, InitType, TypeStep, PTL DEF Spec
=============================================================================
