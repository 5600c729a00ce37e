----------------------------- MODULE PartnerSync -----------------------------
(***************************************************************************)
(* Three workers that poll a partner and record what it answers: records   *)
(* of an external system, events of a logistics partner, statements of a   *)
(* bank.  They share their shape and differ in what they write: the first  *)
(* two record one item per RPC, the external one appending a snapshot each *)
(* time and the logistics one keeping the first of an event id; the bank's *)
(* statement is imported by one RPC, in one transaction.                   *)
(*                                                                         *)
(* One connection and the jobs that users trigger for it.  A worker may    *)
(* die between two RPCs and its lease may lapse under it, so that jobs are *)
(* executed again, and two executions at a time.                           *)
(***************************************************************************)
EXTENDS JobRow, Sequences, FiniteSets, Functions

CONSTANTS
    Jobs,
    Length,         \* bound: items the partner publishes, in the order of their numbers
    PageCap,        \* MAX_RECORDS_PER_BATCH, MAX_EVENTS_PER_BATCH: items kept of a response
    MaxFlaws,       \* bound: items that are not good
    MaxMishaps      \* bound: workers that die, and leases that lapse under a live one

ASSUME LengthAssumption ==
    Length \in Nat /\ PageCap \in Nat /\ MaxFlaws \in Nat /\ MaxMishaps \in Nat

VARIABLES
    kind,           \* what the connection is polled for
    quality,        \* quality[i]: what item i is to the code that records it
    published,      \* items 1 to published can be in a response
    authorized,     \* may the user who triggered the jobs still write?
    jobs,           \* app.jobs
    worker,         \* what each worker is about to do, for which job
    recorded,       \* recorded[i]: rows that hold item i
    imported,       \* statements, by their reference, that have a batch
    owed,           \* owed[w]: what the response w is working on obliges it to record (history)
    vouched,        \* what the completed jobs' executions were obliged to record (history)
    nulled,         \* jobs of which a poll has been answered with a body of null (history)
    mishaps         \* how much of the bound is used up

vars == <<kind, quality, published, authorized, jobs, worker, recorded, imported, owed, vouched, nulled, mishaps>>

Items == 1 .. Length
Kinds == {"external_sync", "logistics_partner_sync", "finance_bank_feed_sync"}

\* "malformed" is skipped by the worker, "refused" passes it and makes the RPC
\* raise, and "null" has no fields to read: it makes the worker throw.  The worker
\* does not look at a bank's lines, so that they are good or refused.
Quality == {"good", "malformed", "refused", "null"}

Idle == [at |-> "idle"]
Work == [at : {"poll", "fail", "complete"}, job : Jobs]
            \cup [at : {"record", "import"}, job : Jobs, left : Seq(Items)]

TypeOK ==
    /\ kind \in Kinds
    /\ quality \in [Items -> Quality]
    /\ published \in 0 .. Length
    /\ authorized \in BOOLEAN
    /\ jobs \in [Jobs -> Row]
    /\ worker \in [Workers -> {Idle} \cup Work]
    /\ \A w \in Workers : worker[w].at = "record" => Len(worker[w].left) <= PageCap
    /\ recorded \in [Items -> Nat]
    /\ imported \subseteq Items \X Items
    /\ owed \in [Workers -> SUBSET Items] /\ vouched \subseteq Items /\ nulled \subseteq Jobs
    /\ mishaps \in 0 .. MaxMishaps

Init ==
    /\ kind \in Kinds
    /\ quality \in [Items -> IF kind = "finance_bank_feed_sync" THEN {"good", "refused"} ELSE Quality]
    /\ Cardinality({i \in Items : quality[i] # "good"}) <= MaxFlaws
    /\ published = 0
    /\ authorized = TRUE
    /\ jobs = [j \in Jobs |-> AbsentRow]
    /\ worker = [w \in Workers |-> Idle]
    /\ recorded = [i \in Items |-> 0]
    /\ imported = {}
    /\ owed = [w \in Workers |-> {}] /\ vouched = {} /\ nulled = {}
    /\ mishaps = 0

-----------------------------------------------------------------------------
(* The partner and the users.                                               *)

publish ==
    /\ published < Length
    /\ published' = published + 1
    /\ UNCHANGED <<kind, quality, authorized, jobs, worker, recorded, imported, owed, vouched, nulled, mishaps>>

\* trigger_external_sync and its like
trigger(j) ==
    /\ jobs[j].status = "absent" /\ authorized
    /\ jobs' = [jobs EXCEPT ![j] = EnqueuedRow]
    /\ UNCHANGED <<kind, quality, published, authorized, worker, recorded, imported, owed, vouched, nulled, mishaps>>

\* The user's authority over the connection's data ends.
authority_ends ==
    /\ authorized' = FALSE
    /\ UNCHANGED <<kind, quality, published, jobs, worker, recorded, imported, owed, vouched, nulled, mishaps>>

-----------------------------------------------------------------------------
(* The worker.                                                              *)

Doing(w, step) == worker[w].at = step
JobOf(w) == worker[w].job
GoesTo(w, doing) == worker' = [worker EXCEPT ![w] = doing]
ThrowsOrReturns(w) == GoesTo(w, Idle) /\ owed' = [owed EXCEPT ![w] = {}]

\* A claim that meets an exhausted row raises: no worker gets a job from it.
Exhausted(j) == Claimable(jobs[j]) /\ jobs[j].status = "in_progress"
                                   /\ jobs[j].attempts = MaxAttempts

claim_next_job(w, j) ==
    LET row == ClaimedRow(jobs[j], w) IN
    /\ Doing(w, "idle") /\ Claimable(jobs[j])
    /\ jobs_attempts_check(row)
    /\ jobs' = [jobs EXCEPT ![j] = row]
    /\ GoesTo(w, [at |-> "poll", job |-> j])
    /\ UNCHANGED <<kind, quality, published, authorized, recorded, imported, owed, vouched, nulled, mishaps>>

Kept_uncapped(items) == items

\* records.slice(0, MAX_RECORDS_PER_BATCH)
Kept(items) == SubSeq(items, 1, IF Len(items) < PageCap THEN Len(items) ELSE PageCap)

Window(first, last) == [n \in 1 .. last - first + 1 |-> first + n - 1]

\* Everything up to the parsed response: a payload, connection, URL or
\* credential that does not pass, no answer within the timeout, a status
\* other than 2xx, a body that is not JSON.
poll_fails(w) ==
    /\ Doing(w, "poll")
    /\ GoesTo(w, [at |-> "fail", job |-> JobOf(w)])
    /\ UNCHANGED <<kind, quality, published, authorized, jobs, recorded, imported, owed, vouched, nulled, mishaps>>

\* The partner answers with some of what it has published, in order; a bank
\* with at least one line, and always the same ones under the same reference.
poll(w) ==
    /\ Doing(w, "poll")
    /\ \E first \in 1 .. published + 1 :
           LET items == Window(first, published) IN
           IF kind # "finance_bank_feed_sync"
           THEN /\ GoesTo(w, [at |-> "record", job |-> JobOf(w), left |-> Kept(items)])
                /\ owed' = [owed EXCEPT ![w] =
                               {i \in Range(Kept(items)) : quality[i] # "malformed"}]
           ELSE /\ GoesTo(w, IF items = <<>> THEN [at |-> "fail", job |-> JobOf(w)]
                             ELSE [at |-> "import", job |-> JobOf(w), left |-> items])
                /\ owed' = [owed EXCEPT ![w] = Range(items)]
    /\ UNCHANGED <<kind, quality, published, authorized, jobs, recorded, imported, vouched, nulled, mishaps>>

\* An answer of null is JSON: reading the list off it throws, and no one catches
\* that.  The worker's run ends, the job stays leased, nothing is reported.
poll_throws(w) ==
    /\ Doing(w, "poll")
    /\ nulled' = nulled \cup {JobOf(w)}
    /\ ThrowsOrReturns(w)
    /\ UNCHANGED <<kind, quality, published, authorized, jobs, recorded, imported, vouched, mishaps>>

RowsAfter_always_inserts(i) == recorded[i] + 1

\* The rows of an item once it is recorded again: one more snapshot of an
\* external record, but one row per event id and per statement line.
RowsAfter(i) == IF kind = "external_sync" THEN recorded[i] + 1 ELSE 1

Next_item(w) == Head(worker[w].left)
Proceed(w) == GoesTo(w, [worker[w] EXCEPT !.left = Tail(@)])
LoopEnds(w) == GoesTo(w, [at |-> "complete", job |-> JobOf(w)])
InLoop(w) == Doing(w, "record") /\ worker[w].left # <<>>

record_skips_ends_loop(w) ==
    /\ InLoop(w) /\ quality[Next_item(w)] = "malformed"
    /\ LoopEnds(w)
    /\ UNCHANGED <<kind, quality, published, authorized, jobs, recorded, imported, owed, vouched, nulled, mishaps>>

\* A malformed item is skipped.
record_skips(w) ==
    /\ InLoop(w) /\ quality[Next_item(w)] = "malformed"
    /\ Proceed(w)
    /\ UNCHANGED <<kind, quality, published, authorized, jobs, recorded, imported, owed, vouched, nulled, mishaps>>

\* record_external_sync_snapshot, record_logistics_partner_sync_event
record(w) ==
    /\ InLoop(w) /\ quality[Next_item(w)] = "good" /\ authorized
    /\ recorded' = [recorded EXCEPT ![Next_item(w)] = RowsAfter(Next_item(w))]
    /\ Proceed(w)
    /\ UNCHANGED <<kind, quality, published, authorized, jobs, imported, owed, vouched, nulled, mishaps>>

\* A null among the items is not skipped: reading its fields throws, uncaught.
record_throws(w) ==
    /\ InLoop(w) /\ quality[Next_item(w)] = "null"
    /\ ThrowsOrReturns(w)
    /\ UNCHANGED <<kind, quality, published, authorized, jobs, recorded, imported, vouched, nulled, mishaps>>

\* What the RPC refuses is not caught either.
record_raises(w) ==
    /\ InLoop(w) /\ quality[Next_item(w)] \in {"good", "refused"}
    /\ quality[Next_item(w)] = "refused" \/ ~authorized
    /\ ThrowsOrReturns(w)
    /\ UNCHANGED <<kind, quality, published, authorized, jobs, recorded, imported, vouched, nulled, mishaps>>

record_ends(w) ==
    /\ Doing(w, "record") /\ worker[w].left = <<>>
    /\ LoopEnds(w)
    /\ UNCHANGED <<kind, quality, published, authorized, jobs, recorded, imported, owed, vouched, nulled, mishaps>>

Reference(items) == <<items[1], items[Len(items)]>>

Importable(items) == authorized /\ \/ Reference(items) \in imported
                                   \/ \A n \in DOMAIN items : quality[items[n]] = "good"

\* import_finance_bank_statement: all lines of a new reference, none of a known one
import(w) ==
    LET items == worker[w].left IN
    /\ Doing(w, "import") /\ Importable(items)
    /\ recorded' = [i \in Items |-> IF i \in Range(items) /\ Reference(items) \notin imported
                                    THEN RowsAfter(i) ELSE recorded[i]]
    /\ imported' = imported \cup {Reference(items)}
    /\ LoopEnds(w)
    /\ UNCHANGED <<kind, quality, published, authorized, jobs, owed, vouched, nulled, mishaps>>

import_raises_uncaught(w) ==
    /\ Doing(w, "import") /\ ~Importable(worker[w].left)
    /\ ThrowsOrReturns(w)
    /\ UNCHANGED <<kind, quality, published, authorized, jobs, recorded, imported, vouched, nulled, mishaps>>

\* What it refuses is caught, and the job fails.
import_raises(w) ==
    /\ Doing(w, "import") /\ ~Importable(worker[w].left)
    /\ GoesTo(w, [at |-> "fail", job |-> JobOf(w)])
    /\ UNCHANGED <<kind, quality, published, authorized, jobs, recorded, imported, owed, vouched, nulled, mishaps>>

\* It raises for a job that is over and for attempts over the limit.
recordJobFailure(w) ==
    LET j == JobOf(w)
        row == FailedRow(jobs[j], jobs[j].attempts)
    IN  /\ Doing(w, "fail")
        /\ jobs' = IF FailureRefused(jobs[j].status) \/ ~jobs_attempts_check(row)
                   THEN jobs ELSE [jobs EXCEPT ![j] = row]
        /\ ThrowsOrReturns(w)
        /\ UNCHANGED <<kind, quality, published, authorized, recorded, imported, vouched, nulled, mishaps>>

\* It raises if the lease has passed to another worker.
completeJob(w) ==
    LET j == JobOf(w) IN
    /\ Doing(w, "complete")
    /\ IF LeaseHeldBy(jobs[j], w)
       THEN /\ jobs' = [jobs EXCEPT ![j] = CompletedRow(jobs[j])]
            /\ vouched' = vouched \cup owed[w]
       ELSE UNCHANGED <<jobs, vouched>>
    /\ ThrowsOrReturns(w)
    /\ UNCHANGED <<kind, quality, published, authorized, recorded, imported, nulled, mishaps>>

worker_dies(w) ==
    /\ ~Doing(w, "idle") /\ mishaps < MaxMishaps
    /\ ThrowsOrReturns(w)
    /\ mishaps' = mishaps + 1
    /\ UNCHANGED <<kind, quality, published, authorized, jobs, recorded, imported, vouched, nulled>>

-----------------------------------------------------------------------------
(* Time.                                                                    *)

HolderAtWork(j) == \E w \in Workers : /\ ~Doing(w, "idle") /\ JobOf(w) = j
                                      /\ jobs[j].locked_by = w

\* locked_until passes: of a job whose worker is gone for certain, of a live
\* one by mishap.
LeaseExpires(j) ==
    /\ jobs[j].status = "in_progress" /\ jobs[j].lease = "live"
    /\ HolderAtWork(j) => mishaps < MaxMishaps
    /\ mishaps' = IF HolderAtWork(j) THEN mishaps + 1 ELSE mishaps
    /\ jobs' = [jobs EXCEPT ![j].lease = "lapsed"]
    /\ UNCHANGED <<kind, quality, published, authorized, worker, recorded, imported, owed, vouched, nulled>>

BackoffElapses(j) ==
    /\ jobs[j].status = "pending" /\ ~jobs[j].due
    /\ jobs' = [jobs EXCEPT ![j].due = TRUE]
    /\ UNCHANGED <<kind, quality, published, authorized, worker, recorded, imported, owed, vouched, nulled, mishaps>>

-----------------------------------------------------------------------------

Proceeds(w) ==
    \/ poll(w) \/ poll_fails(w) \/ poll_throws(w)
    \/ record_skips(w) \/ record(w) \/ record_throws(w) \/ record_raises(w) \/ record_ends(w)
    \/ import(w) \/ import_raises(w)
    \/ recordJobFailure(w) \/ completeJob(w)

TimePasses(j) == LeaseExpires(j) \/ BackoffElapses(j)

Next ==
    \/ publish \/ authority_ends
    \/ \E j \in Jobs : trigger(j) \/ TimePasses(j)
    \/ \E w \in Workers : \/ \E j \in Jobs : claim_next_job(w, j)
                          \/ Proceeds(w)
                          \/ worker_dies(w)

Spec == Init /\ [][Next]_vars

\* Workers are started again and again, their calls return or throw, and
\* backoffs and the leases of workers that are gone run out.
FairSpec ==
    /\ Spec
    /\ \A w \in Workers : /\ WF_vars(\E j \in Jobs : claim_next_job(w, j))
                          /\ WF_vars(Proceeds(w))
    /\ \A j \in Jobs : WF_vars(TimePasses(j))

-----------------------------------------------------------------------------
(* Properties.                                                              *)

\* A completed job has recorded everything the response it polled obliged it
\* to, the malformed items and those beyond the cap excepted, whatever died,
\* lapsed or overlapped on the way; nothing the RPC refuses is passed over.
CompletedIsRecorded == \A i \in vouched : recorded[i] > 0

\* However often a poll is executed again, an event and a statement line have
\* one row, and every line of a batch is there.
RecordedOnce ==
    kind # "external_sync" => /\ \A i \in Items : recorded[i] <= 1
                              /\ \A ref \in imported : \A i \in ref[1] .. ref[2] : recorded[i] = 1

\* What makes the claims raise: after a mishap anything may; otherwise only a job
\* of which a poll was answered with null, or one whose loop met an item that is
\* null or refused, or a user that is.  A poll that fails, an answer of malformed
\* items and a refused statement never do, whatever the number of retries.
BlockedByThrowsOnly ==
    \A j \in Jobs : Exhausted(j) =>
        \/ mishaps > 0 \/ j \in nulled
        \/ /\ kind # "finance_bank_feed_sync"
           /\ ~authorized \/ \E i \in 1 .. published : quality[i] \in {"refused", "null"}

\* A triggered job is completed or dead-lettered, or it, or the other, makes
\* the claims raise.
TriggeredIsSettled ==
    \A j \in Jobs :
        jobs[j].status = "pending" ~> \/ jobs[j].status \in {"completed", "dead_letter"}
                                      \/ \E k \in Jobs : Exhausted(k)
===============================================================================
