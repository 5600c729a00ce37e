------------------------------- MODULE FileScan -------------------------------
(***************************************************************************)
(* Uploaded files and their malware scan.  A web request stores the bytes  *)
(* and enqueues one job per file; workers claim the jobs (JobRow), have    *)
(* the bytes scanned by an outside service, and write the verdict into     *)
(* the file's row, which is what decides who may download it.              *)
(*                                                                         *)
(* The request and the workers go from one RPC to the next and may die in  *)
(* between.  An RPC is one step, but for the one that records a verdict:   *)
(* it reads the file without a lock and updates it by id, and another      *)
(* worker whose lease has lapsed may be doing the same.                    *)
(***************************************************************************)
EXTENDS JobRow

CONSTANTS
    Files,
    MaxMishaps      \* bound: workers that die, and leases that lapse under a live one

ASSUME FilesAssumption == MaxMishaps \in Nat

VARIABLES
    content,        \* content[f]: what the bytes of f are
    request,        \* request[f]: how far the upload of f has come
    stored,         \* files whose bytes are in the bucket
    scan,           \* scan[f]: malware_scan_status, "absent" without a row
    deleted,        \* files with a deleted_at
    member,         \* files whose uploader is a member of the tenant
    jobs,           \* jobs[f]: the job "malware_scan:" + f
    worker,         \* what each worker is about to do, for which file
    served,         \* files someone other than the uploader was let download (history)
    mishaps         \* how much of the bound is used up

vars == <<content, request, stored, scan, deleted, member, jobs, worker, served, mishaps>>

\* "unscannable" bytes are none at all or more than the service takes.
Content == {"harmless", "harmful", "unscannable"}
Verdicts == {"clean", "infected", "error"}
Idle == [at |-> "idle"]
Work == [at : {"scan", "fail", "complete"}, file : Files]
            \cup [at : {"record", "write"}, file : Files, verdict : Verdicts]

TypeOK ==
    /\ content \in [Files -> Content]
    /\ request \in [Files -> {"none", "upload", "compensate", "enqueue", "over"}]
    /\ stored \subseteq Files /\ deleted \subseteq Files /\ member \subseteq Files
    /\ scan \in [Files -> {"absent", "pending"} \cup Verdicts]
    /\ jobs \in [Files -> Row]
    /\ worker \in [Workers -> {Idle} \cup Work]
    /\ served \subseteq Files
    /\ mishaps \in 0 .. MaxMishaps

Init ==
    /\ content \in [Files -> Content]
    /\ request = [f \in Files |-> "none"]
    /\ stored = {} /\ deleted = {} /\ served = {}
    /\ member = Files
    /\ scan = [f \in Files |-> "absent"]
    /\ jobs = [f \in Files |-> AbsentRow]
    /\ worker = [w \in Workers |-> Idle]
    /\ mishaps = 0

-----------------------------------------------------------------------------
(* The request: initiate_file_upload, then storeFileBytesAndEnqueueScan.    *)

Requests(f, step) == request' = [request EXCEPT ![f] = step]

initiate_file_upload(f) ==
    /\ request[f] = "none" /\ f \in member
    /\ Requests(f, "upload")
    /\ scan' = [scan EXCEPT ![f] = "pending"]
    /\ UNCHANGED <<content, stored, deleted, member, jobs, worker, served, mishaps>>

\* The upload, which may fail; upsert is off, so bytes are stored once.
upload(f) ==
    /\ request[f] = "upload"
    /\ \/ stored' = stored \cup {f} /\ Requests(f, "enqueue")
       \/ stored' = stored /\ Requests(f, "compensate")
    /\ UNCHANGED <<content, scan, deleted, member, jobs, worker, served, mishaps>>

\* Best effort: the row of a file without bytes is deleted, or left as it is.
compensate(f) ==
    /\ request[f] = "compensate"
    /\ deleted' \in {deleted, deleted \cup {f}}
    /\ Requests(f, "over")
    /\ UNCHANGED <<content, stored, scan, member, jobs, worker, served, mishaps>>

\* A file whose job cannot be enqueued stays pending; the user is told.
enqueueJob(f) ==
    /\ request[f] = "enqueue"
    /\ \/ jobs' = [jobs EXCEPT ![f] = EnqueuedRow]
       \/ jobs' = jobs
    /\ Requests(f, "over")
    /\ UNCHANGED <<content, stored, scan, deleted, member, worker, served, mishaps>>

\* The web server goes away between two steps of the request.
request_dies(f) ==
    /\ request[f] \in {"upload", "compensate", "enqueue"}
    /\ Requests(f, "over")
    /\ UNCHANGED <<content, stored, scan, deleted, member, jobs, worker, served, mishaps>>

-----------------------------------------------------------------------------
(* The people: who may download, who deletes, who leaves.                   *)

ServableToOthers_if_not_infected(f) == f \notin deleted /\ scan[f] \notin {"absent", "infected"}

ServableToOthers(f) == f \notin deleted /\ scan[f] = "clean"

\* authorize_file_access, for a member of the tenant who has not uploaded f
authorize_file_access(f) ==
    /\ ServableToOthers(f)
    /\ served' = served \cup {f}
    /\ UNCHANGED <<content, request, stored, scan, deleted, member, jobs, worker, mishaps>>

request_file_deletion(f) ==
    /\ scan[f] # "absent"
    /\ deleted' = deleted \cup {f}
    /\ UNCHANGED <<content, request, stored, scan, member, jobs, worker, served, mishaps>>

\* The uploader's membership ends.
uploader_leaves(f) ==
    /\ member' = member \ {f}
    /\ UNCHANGED <<content, request, stored, scan, deleted, jobs, worker, served, mishaps>>

-----------------------------------------------------------------------------
(* The workers: processMalwareScanJob.                                      *)

Doing(w, step) == worker[w].at = step
FileOf(w) == worker[w].file
GoesTo(w, doing) == worker' = [worker EXCEPT ![w] = doing]

\* The rows that make a claim raise: the attempt it would count is over the limit.
Exhausted(f) == Claimable(jobs[f]) /\ jobs[f].status = "in_progress"
                                   /\ jobs[f].attempts = MaxAttempts

\* The order by age is left open: a claim may meet any row that is claimable,
\* and raises, changing nothing, when it meets an exhausted one.
claim_next_job(w, f) ==
    LET row == ClaimedRow(jobs[f], w) IN
    /\ Doing(w, "idle") /\ Claimable(jobs[f])
    /\ jobs_attempts_check(row)
    /\ jobs' = [jobs EXCEPT ![f] = row]
    /\ GoesTo(w, [at |-> "scan", file |-> f])
    /\ UNCHANGED <<content, request, stored, scan, deleted, member, served, mishaps>>

\* What comes of downloading the bytes and having them scanned.  No key, no
\* reply, and no verdict within the polls mean to try again; an analysis
\* that ends without figures is an error, like bytes that are not sent at all.
Answers(c) ==
    {"retry"} \cup CASE c = "harmless" -> {"clean", "error"}
                     [] c = "harmful" -> {"infected", "error"}
                     [] c = "unscannable" -> {"error"}

scanFile_gives_up(w) ==
    /\ Doing(w, "scan")
    /\ \E answer \in Answers(content[FileOf(w)]) :
           GoesTo(w, IF answer = "retry" \/ FileOf(w) \notin stored
                     THEN [at |-> "complete", file |-> FileOf(w)]
                     ELSE [at |-> "record", file |-> FileOf(w), verdict |-> answer])
    /\ UNCHANGED <<content, request, stored, scan, deleted, member, jobs, served, mishaps>>

scanFile(w) ==
    /\ Doing(w, "scan")
    /\ \E answer \in Answers(content[FileOf(w)]) :
           GoesTo(w, IF answer = "retry" \/ FileOf(w) \notin stored
                     THEN [at |-> "fail", file |-> FileOf(w)]
                     ELSE [at |-> "record", file |-> FileOf(w), verdict |-> answer])
    /\ UNCHANGED <<content, request, stored, scan, deleted, member, jobs, served, mishaps>>

\* record_job_failure; a job that is over, or whose attempts are used up,
\* makes it raise, and the worker's run ends with the job as it is.
recordJobFailure(w) ==
    LET f == FileOf(w)
        row == FailedRow(jobs[f], jobs[f].attempts)
    IN  /\ Doing(w, "fail")
        /\ jobs' = IF FailureRefused(jobs[f].status) \/ ~jobs_attempts_check(row)
                   THEN jobs ELSE [jobs EXCEPT ![f] = row]
        /\ GoesTo(w, Idle)
        /\ UNCHANGED <<content, request, stored, scan, deleted, member, served, mishaps>>

recordFileScanResult_swallows_refusal(w) ==
    LET f == FileOf(w) IN
    /\ Doing(w, "record")
    /\ GoesTo(w, IF f \notin member THEN [at |-> "complete", file |-> f]
                 ELSE IF scan[f] = "pending" THEN [worker[w] EXCEPT !.at = "write"]
                 ELSE Idle)
    /\ UNCHANGED <<content, request, stored, scan, deleted, member, jobs, served, mishaps>>

\* record_file_scan_result, up to its UPDATE: it raises if the uploader has
\* left or the file has another verdict, and the worker's run ends.
recordFileScanResult(w) ==
    LET f == FileOf(w) IN
    /\ Doing(w, "record")
    /\ GoesTo(w, IF f \notin member THEN Idle
                 ELSE IF scan[f] = "pending" THEN [worker[w] EXCEPT !.at = "write"]
                 ELSE IF scan[f] = worker[w].verdict THEN [at |-> "complete", file |-> f]
                 ELSE Idle)
    /\ UNCHANGED <<content, request, stored, scan, deleted, member, jobs, served, mishaps>>

\* The trigger files_enforce_scan_resolution_invariant: before the UPDATE of a
\* row, on the row as it then is, it lets a pending status be resolved and a
\* status be written again, and raises for any other change.
enforce_file_scan_resolution_invariant(old, new) == old = "pending" \/ new = old

recordFileScanResult_writes_without_trigger(w) ==
    LET f == FileOf(w) IN
    /\ Doing(w, "write")
    /\ scan' = [scan EXCEPT ![f] = worker[w].verdict]
    /\ GoesTo(w, [at |-> "complete", file |-> f])
    /\ UNCHANGED <<content, request, stored, deleted, member, jobs, served, mishaps>>

\* The UPDATE and its commit; if the trigger raises, the worker's run ends.
recordFileScanResult_writes(w) ==
    LET f == FileOf(w)
        verdict == worker[w].verdict
    IN  /\ Doing(w, "write")
        /\ IF enforce_file_scan_resolution_invariant(scan[f], verdict)
           THEN /\ scan' = [scan EXCEPT ![f] = verdict]
                /\ GoesTo(w, [at |-> "complete", file |-> f])
           ELSE UNCHANGED scan /\ GoesTo(w, Idle)
        /\ UNCHANGED <<content, request, stored, deleted, member, jobs, served, mishaps>>

\* complete_job, which raises if the lease has passed to another worker
completeJob(w) ==
    LET f == FileOf(w) IN
    /\ Doing(w, "complete")
    /\ jobs' = IF LeaseHeldBy(jobs[f], w) THEN [jobs EXCEPT ![f] = CompletedRow(jobs[f])] ELSE jobs
    /\ GoesTo(w, Idle)
    /\ UNCHANGED <<content, request, stored, scan, deleted, member, served, mishaps>>

worker_dies(w) ==
    /\ ~Doing(w, "idle") /\ mishaps < MaxMishaps
    /\ GoesTo(w, Idle)
    /\ mishaps' = mishaps + 1
    /\ UNCHANGED <<content, request, stored, scan, deleted, member, jobs, served>>

-----------------------------------------------------------------------------
(* Time.                                                                    *)

HolderAtWork(f) == \E w \in Workers : ~Doing(w, "idle") /\ FileOf(w) = f
                                      /\ jobs[f].locked_by = w

\* locked_until passes: of a job whose worker is gone for certain, of a live
\* one by mishap.
LeaseExpires(f) ==
    /\ jobs[f].status = "in_progress" /\ jobs[f].lease = "live"
    /\ HolderAtWork(f) => mishaps < MaxMishaps
    /\ mishaps' = IF HolderAtWork(f) THEN mishaps + 1 ELSE mishaps
    /\ jobs' = [jobs EXCEPT ![f].lease = "lapsed"]
    /\ UNCHANGED <<content, request, stored, scan, deleted, member, worker, served>>

BackoffElapses(f) ==
    /\ jobs[f].status = "pending" /\ ~jobs[f].due
    /\ jobs' = [jobs EXCEPT ![f].due = TRUE]
    /\ UNCHANGED <<content, request, stored, scan, deleted, member, worker, served, mishaps>>

-----------------------------------------------------------------------------

RequestNext(f) == initiate_file_upload(f) \/ upload(f) \/ compensate(f) \/ enqueueJob(f)
                      \/ request_dies(f)

PeopleNext(f) == authorize_file_access(f) \/ request_file_deletion(f) \/ uploader_leaves(f)

Proceeds(w) == scanFile(w) \/ recordJobFailure(w) \/ recordFileScanResult(w)
                   \/ recordFileScanResult_writes(w) \/ completeJob(w)

TimePasses(f) == LeaseExpires(f) \/ BackoffElapses(f)

Next ==
    \/ \E f \in Files : RequestNext(f) \/ PeopleNext(f) \/ TimePasses(f)
    \/ \E w \in Workers : \/ \E f \in Files : claim_next_job(w, f)
                          \/ Proceeds(w)
                          \/ worker_dies(w)

Spec == Init /\ [][Next]_vars

\* Workers are started again and again, their calls return or throw, and
\* backoffs and the leases of workers that are gone run out.
FairSpec ==
    /\ Spec
    /\ \A w \in Workers : /\ WF_vars(\E f \in Files : claim_next_job(w, f))
                          /\ WF_vars(Proceeds(w))
    /\ \A f \in Files : WF_vars(TimePasses(f))

-----------------------------------------------------------------------------
(* Properties.                                                              *)

Resolved(f) == scan[f] \in Verdicts

\* A job is complete only when its file has its verdict, wherever workers
\* died and whichever of two overlapping executions came first.
CompletedIsResolved == \A f \in Files : jobs[f].status = "completed" => Resolved(f)

\* No one but the uploader is ever let download harmful bytes, or bytes that
\* no scan has found harmless.
ServedIsHarmless == \A f \in served : content[f] = "harmless" /\ f \in stored

\* "this can only ever happen once per file": a verdict stands, across repeated
\* and overlapping executions of the job that scanned it differently.
VerdictStands == [][\A f \in Files : Resolved(f) => scan'[f] = scan[f]]_vars

\* An enqueued file gets its verdict, or its job is dead-lettered, unless its
\* uploader has left or an exhausted job, its own or another's, makes the
\* claims raise.
EnqueuedIsScanned ==
    \A f \in Files :
        jobs[f].status = "pending" ~> \/ Resolved(f) \/ jobs[f].status = "dead_letter"
                                      \/ f \notin member
                                      \/ \E g \in Files : Exhausted(g)
===============================================================================
