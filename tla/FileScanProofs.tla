---------------------------- MODULE FileScanProofs ----------------------------
(***************************************************************************)
(* For any files and workers, any number of attempts and of mishaps: a     *)
(* completed job has its verdict, no one but the uploader is let download  *)
(* harmful bytes, and a verdict stands whatever executions overlap.        *)
(***************************************************************************)
EXTENDS FileScan, TLAPS

\* What a worker carries from one call to the next is still true at the next.
WorkersKnow ==
    /\ \A w \in Workers : Doing(w, "complete") => Resolved(FileOf(w))
    /\ \A w \in Workers : Doing(w, "record") \/ Doing(w, "write") =>
           /\ FileOf(w) \in stored
           /\ worker[w].verdict \in Answers(content[FileOf(w)])
    /\ \A f \in Files : scan[f] = "clean" => content[f] = "harmless" /\ f \in stored

\* A file has neither a row nor bytes before its request has begun.
Fresh == \A f \in Files : request[f] = "none" => scan[f] = "absent" /\ f \notin stored

IInv == TypeOK /\ Fresh /\ CompletedIsResolved /\ ServedIsHarmless /\ WorkersKnow

\* The kinds of work, by what the worker is at
LEMMA WorkTypes ==
    ASSUME TypeOK, NEW w \in Workers
    PROVE  /\ Doing(w, "idle") => worker[w] = Idle
           /\ ~Doing(w, "idle") => FileOf(w) \in Files /\ worker[w] \in Work
           /\ Doing(w, "record") \/ Doing(w, "write") =>
                  worker[w] \in [at : {"record", "write"}, file : Files, verdict : Verdicts]
BY DEF TypeOK, Work, Idle, Doing, FileOf

LEMMA AnswersType ==
    ASSUME NEW c \in Content, NEW answer \in Answers(c)
    PROVE  answer \in Verdicts \cup {"retry"} /\ (answer = "clean" => c = "harmless")
BY DEF Answers, Content, Verdicts

LEMMA RowsType ==
    ASSUME NEW row \in Row, NEW w \in Workers
    PROVE  /\ jobs_attempts_check(ClaimedRow(row, w)) => ClaimedRow(row, w) \in Row
           /\ jobs_attempts_check(FailedRow(row, row.attempts)) =>
                  FailedRow(row, row.attempts) \in Row
           /\ CompletedRow(row) \in Row
           /\ [row EXCEPT !.lease = "lapsed"] \in Row
           /\ [row EXCEPT !.due = TRUE] \in Row
<1>1. jobs_attempts_check(ClaimedRow(row, w)) => ClaimedRow(row, w) \in Row
  BY DEF Row, Status, ClaimedRow, jobs_attempts_check
<1>2. jobs_attempts_check(FailedRow(row, row.attempts)) => FailedRow(row, row.attempts) \in Row
  BY DEF Row, Status, FailedRow, jobs_attempts_check
<1>3. CompletedRow(row) \in Row
  BY DEF Row, Status, CompletedRow
<1>4. [row EXCEPT !.lease = "lapsed"] \in Row /\ [row EXCEPT !.due = TRUE] \in Row
  BY DEF Row
<1> QED BY <1>1, <1>2, <1>3, <1>4

LEMMA NewRowTypes == AbsentRow \in Row /\ EnqueuedRow \in Row
<1>1. 0 \in 0 .. MaxAttempts
  BY AttemptsAssumption
<1> QED BY <1>1 DEF Row, Status, AbsentRow, EnqueuedRow

LEMMA InitIInv == Init => IInv
<1> SUFFICES ASSUME Init PROVE IInv
  OBVIOUS
<1>2. TypeOK
  BY NewRowTypes, FilesAssumption DEF Init, TypeOK
<1>3. \A w \in Workers : worker[w].at = "idle"
  BY DEF Init, Idle
<1> QED BY <1>2, <1>3 DEF Init, IInv, CompletedIsResolved, ServedIsHarmless, WorkersKnow,
                        Fresh, Doing, AbsentRow

-----------------------------------------------------------------------------
(* Type correctness, action by action.                                      *)

LEMMA TypeStep == TypeOK /\ [Next]_vars => TypeOK'
<1> SUFFICES ASSUME TypeOK, [Next]_vars PROVE TypeOK'
  OBVIOUS
<1>1. ASSUME NEW f \in Files, RequestNext(f) PROVE TypeOK'
  <2> QED BY <1>1, NewRowTypes DEF RequestNext, initiate_file_upload, upload, compensate, enqueueJob,
                           request_dies, Requests, TypeOK
<1>2. ASSUME NEW f \in Files, PeopleNext(f) PROVE TypeOK'
  BY <1>2 DEF PeopleNext, authorize_file_access, request_file_deletion, uploader_leaves, TypeOK
<1>3. ASSUME NEW f \in Files, TimePasses(f) PROVE TypeOK'
  <2>1. jobs[f] \in Row
    BY DEF TypeOK
  <2>2. [jobs[f] EXCEPT !.lease = "lapsed"] \in Row /\ [jobs[f] EXCEPT !.due = TRUE] \in Row
    BY <2>1 DEF Row
  <2>3. mishaps' \in 0 .. MaxMishaps
    BY <1>3, FilesAssumption DEF TimePasses, LeaseExpires, BackoffElapses, TypeOK
  <2> QED BY <1>3, <2>2, <2>3 DEF TimePasses, LeaseExpires, BackoffElapses, TypeOK
<1>4. ASSUME NEW w \in Workers, NEW f \in Files, claim_next_job(w, f) PROVE TypeOK'
  <2>1. ClaimedRow(jobs[f], w) \in Row
    BY <1>4, RowsType DEF claim_next_job, TypeOK
  <2>2. [at |-> "scan", file |-> f] \in Work
    BY DEF Work
  <2> QED BY <1>4, <2>1, <2>2 DEF claim_next_job, GoesTo, TypeOK
<1>5. ASSUME NEW w \in Workers, scanFile(w) PROVE TypeOK'
  <2>1. FileOf(w) \in Files /\ content[FileOf(w)] \in Content
    BY <1>5, WorkTypes DEF scanFile, Doing, TypeOK
  <2>2. PICK answer \in Answers(content[FileOf(w)]) :
               GoesTo(w, IF answer = "retry" \/ FileOf(w) \notin stored
                         THEN [at |-> "fail", file |-> FileOf(w)]
                         ELSE [at |-> "record", file |-> FileOf(w), verdict |-> answer])
    BY <1>5 DEF scanFile
  <2>3. answer # "retry" => answer \in Verdicts
    BY <2>1, AnswersType
  <2>4. worker' \in [Workers -> {Idle} \cup Work]
    BY <2>1, <2>2, <2>3 DEF GoesTo, Work, TypeOK
  <2> QED BY <1>5, <2>4 DEF scanFile, TypeOK
<1>6. ASSUME NEW w \in Workers, recordJobFailure(w) PROVE TypeOK'
  <2>1. FileOf(w) \in Files
    BY <1>6, WorkTypes DEF recordJobFailure, Doing
  <2>2. jobs' \in [Files -> Row]
    BY <1>6, <2>1, RowsType DEF recordJobFailure, TypeOK
  <2> QED BY <1>6, <2>2 DEF recordJobFailure, GoesTo, TypeOK
<1>7. ASSUME NEW w \in Workers, recordFileScanResult(w) PROVE TypeOK'
  <2>1. /\ FileOf(w) \in Files
        /\ worker[w] \in [at : {"record", "write"}, file : Files, verdict : Verdicts]
    BY <1>7, WorkTypes DEF recordFileScanResult, Doing
  <2>2. /\ [worker[w] EXCEPT !.at = "write"] \in Work
        /\ [at |-> "complete", file |-> FileOf(w)] \in Work
    BY <2>1 DEF Work
  <2>3. worker' \in [Workers -> {Idle} \cup Work]
    BY <1>7, <2>2 DEF recordFileScanResult, GoesTo, TypeOK
  <2> QED BY <1>7, <2>3 DEF recordFileScanResult, TypeOK
<1>8. ASSUME NEW w \in Workers, recordFileScanResult_writes(w) PROVE TypeOK'
  <2>1. /\ FileOf(w) \in Files /\ worker[w].verdict \in Verdicts
        /\ [at |-> "complete", file |-> FileOf(w)] \in Work
    BY <1>8, WorkTypes DEF recordFileScanResult_writes, Doing, Work
  <2>2. scan' \in [Files -> {"absent", "pending"} \cup Verdicts]
    BY <1>8, <2>1 DEF recordFileScanResult_writes, TypeOK
  <2>3. worker' \in [Workers -> {Idle} \cup Work]
    BY <1>8, <2>1 DEF recordFileScanResult_writes, GoesTo, TypeOK
  <2> QED BY <1>8, <2>2, <2>3 DEF recordFileScanResult_writes, TypeOK
<1>9. ASSUME NEW w \in Workers, completeJob(w) PROVE TypeOK'
  <2>1. FileOf(w) \in Files
    BY <1>9, WorkTypes DEF completeJob, Doing
  <2>2. jobs' \in [Files -> Row]
    BY <1>9, <2>1, RowsType DEF completeJob, TypeOK
  <2> QED BY <1>9, <2>2 DEF completeJob, GoesTo, TypeOK
<1>10. ASSUME NEW w \in Workers, worker_dies(w) PROVE TypeOK'
  BY <1>10, FilesAssumption DEF worker_dies, GoesTo, TypeOK
<1>11. CASE UNCHANGED vars
  BY <1>11 DEF vars, TypeOK
<1> QED BY <1>1, <1>2, <1>3, <1>4, <1>5, <1>6, <1>7, <1>8, <1>9, <1>10, <1>11 DEF Next, Proceeds

-----------------------------------------------------------------------------
(* The rest of the invariant.                                               *)

Untouched == /\ UNCHANGED <<worker, content>>
             /\ stored \subseteq stored'
             /\ \A f \in Files : scan'[f] = scan[f] \/ (scan'[f] = "pending" /\ ~Resolved(f))

\* A step that moves no worker, and changes neither a verdict nor the bytes.
LEMMA WorkersUndisturbed ==
    ASSUME TypeOK, WorkersKnow, Untouched
    PROVE  WorkersKnow'
<1>1. \A w \in Workers : ~Doing(w, "idle") => FileOf(w) \in Files
  BY WorkTypes
<1> QED BY <1>1 DEF Untouched, WorkersKnow, Doing, FileOf, Resolved, Verdicts

\* A step of one worker, which keeps its file or lets go of it, and after
\* which it knows what the invariant says it knows.
LEMMA WorkerMoves ==
    ASSUME TypeOK, TypeOK', WorkersKnow, NEW w \in Workers, NEW doing,
           ~Doing(w, "idle"), GoesTo(w, doing),
           doing.at = "idle" \/ (doing.at # "idle" /\ doing.file = FileOf(w)),
           UNCHANGED <<content, stored, scan>>,
           doing.at = "complete" => Resolved(FileOf(w)),
           doing.at \in {"record", "write"} =>
               FileOf(w) \in stored /\ doing.verdict \in Answers(content[FileOf(w)])
    PROVE  WorkersKnow'
<1>1. worker' = [worker EXCEPT ![w] = doing] /\ worker'[w] = doing
  BY DEF GoesTo, TypeOK
<1>2. \A v \in Workers : v # w => worker'[v] = worker[v]
  BY <1>1 DEF TypeOK
<1> QED BY <1>1, <1>2 DEF WorkersKnow, Doing, FileOf, Resolved

LEMMA NextIInv == IInv /\ [Next]_vars => IInv'
<1> SUFFICES ASSUME IInv, [Next]_vars PROVE IInv'
  OBVIOUS
<1>0. /\ TypeOK /\ Fresh /\ CompletedIsResolved /\ ServedIsHarmless /\ WorkersKnow
      /\ TypeOK'
  BY TypeStep DEF IInv
<1> SUFFICES Fresh' /\ CompletedIsResolved' /\ ServedIsHarmless' /\ WorkersKnow'
  BY <1>0 DEF IInv
<1>1. ASSUME NEW f \in Files, RequestNext(f)
      PROVE  Fresh' /\ CompletedIsResolved' /\ ServedIsHarmless' /\ WorkersKnow'
  <2>1. Fresh'
    BY <1>0, <1>1 DEF RequestNext, initiate_file_upload, upload, compensate, enqueueJob,
                      request_dies, Requests, Fresh, TypeOK
  <2>2. \A g \in Files : scan'[g] = scan[g] \/ (scan'[g] = "pending" /\ ~Resolved(g))
    BY <1>0, <1>1 DEF RequestNext, initiate_file_upload, upload, compensate, enqueueJob,
                      request_dies, Fresh, TypeOK, Resolved, Verdicts
  <2>3. Untouched
    BY <1>1, <2>2 DEF RequestNext, initiate_file_upload, upload, compensate, enqueueJob,
                      request_dies, Untouched
  <2>4. \A g \in Files : jobs'[g].status = "completed" => jobs[g].status = "completed"
    BY <1>0, <1>1 DEF RequestNext, initiate_file_upload, upload, compensate, enqueueJob,
                      request_dies, TypeOK, EnqueuedRow, AbsentRow
  <2>5. CompletedIsResolved'
    BY <1>0, <2>2, <2>4 DEF CompletedIsResolved, Resolved
  <2>6. ServedIsHarmless'
    BY <1>0, <1>1, <2>3 DEF RequestNext, initiate_file_upload, upload, compensate, enqueueJob,
                            request_dies, ServedIsHarmless, Untouched
  <2> QED BY <1>0, <2>1, <2>3, <2>5, <2>6, WorkersUndisturbed
<1>2. ASSUME NEW f \in Files, PeopleNext(f)
      PROVE  Fresh' /\ CompletedIsResolved' /\ ServedIsHarmless' /\ WorkersKnow'
  <2>1. Untouched /\ UNCHANGED <<request, scan, jobs, stored>>
    BY <1>2 DEF PeopleNext, authorize_file_access, request_file_deletion, uploader_leaves,
                Untouched
  <2>2. ServedIsHarmless'
    BY <1>0, <1>2, <2>1 DEF PeopleNext, authorize_file_access, request_file_deletion,
       uploader_leaves, ServedIsHarmless, ServableToOthers, WorkersKnow, Untouched
  <2> QED BY <1>0, <2>1, <2>2, WorkersUndisturbed DEF Fresh, CompletedIsResolved, Resolved
<1>3. ASSUME NEW f \in Files, TimePasses(f)
      PROVE  Fresh' /\ CompletedIsResolved' /\ ServedIsHarmless' /\ WorkersKnow'
  <2>1. Untouched /\ UNCHANGED <<request, scan, served, stored>>
    BY <1>3 DEF TimePasses, LeaseExpires, BackoffElapses, Untouched
  <2>2. \A g \in Files : jobs'[g].status = jobs[g].status
    BY <1>0, <1>3 DEF TimePasses, LeaseExpires, BackoffElapses, TypeOK, Row
  <2> QED BY <1>0, <2>1, <2>2, WorkersUndisturbed
          DEF Fresh, CompletedIsResolved, ServedIsHarmless, Resolved, Untouched
<1>4. ASSUME NEW w \in Workers, NEW f \in Files, claim_next_job(w, f)
      PROVE  Fresh' /\ CompletedIsResolved' /\ ServedIsHarmless' /\ WorkersKnow'
  <2>1. /\ UNCHANGED <<request, scan, served, stored, content>>
        /\ worker' = [worker EXCEPT ![w] = [at |-> "scan", file |-> f]]
        /\ Doing(w, "idle")
        /\ jobs' = [jobs EXCEPT ![f] = ClaimedRow(jobs[f], w)]
    BY <1>4 DEF claim_next_job, GoesTo
  <2>2. worker'[w] = [at |-> "scan", file |-> f] /\ \A v \in Workers : v # w => worker'[v] = worker[v]
    BY <1>0, <2>1 DEF TypeOK
  <2>3. CompletedIsResolved'
    BY <1>0, <2>1 DEF CompletedIsResolved, Resolved, ClaimedRow, TypeOK
  <2>4. WorkersKnow'
    BY <1>0, <2>1, <2>2 DEF WorkersKnow, Doing, FileOf, Resolved
  <2> QED BY <1>0, <2>1, <2>3, <2>4 DEF Fresh, ServedIsHarmless
<1>5. ASSUME NEW w \in Workers, scanFile(w)
      PROVE  Fresh' /\ CompletedIsResolved' /\ ServedIsHarmless' /\ WorkersKnow'
  <2>1. PICK answer \in Answers(content[FileOf(w)]) :
               GoesTo(w, IF answer = "retry" \/ FileOf(w) \notin stored
                         THEN [at |-> "fail", file |-> FileOf(w)]
                         ELSE [at |-> "record", file |-> FileOf(w), verdict |-> answer])
    BY <1>5 DEF scanFile
  <2>2. UNCHANGED <<content, request, stored, scan, jobs, served>> /\ ~Doing(w, "idle")
    BY <1>5 DEF scanFile, Doing
  <2>3. WorkersKnow'
    <3>1. CASE answer = "retry" \/ FileOf(w) \notin stored
      <4> DEFINE doing == [at |-> "fail", file |-> FileOf(w)]
      <4>1. GoesTo(w, doing)
        BY <2>1, <3>1
      <4>2. doing.at = "fail" /\ doing.file = FileOf(w)
        OBVIOUS
      <4> HIDE DEF doing
      <4> QED BY <1>0, <2>2, <4>1, <4>2, WorkerMoves
    <3>2. CASE ~(answer = "retry" \/ FileOf(w) \notin stored)
      <4> DEFINE doing == [at |-> "record", file |-> FileOf(w), verdict |-> answer]
      <4>1. GoesTo(w, doing)
        BY <2>1, <3>2
      <4>2. doing.at = "record" /\ doing.file = FileOf(w) /\ doing.verdict = answer
        OBVIOUS
      <4> HIDE DEF doing
      <4> QED BY <1>0, <2>1, <2>2, <3>2, <4>1, <4>2, WorkerMoves
    <3> QED BY <3>1, <3>2
  <2> QED BY <1>0, <2>2, <2>3 DEF Fresh, CompletedIsResolved, ServedIsHarmless, Resolved
<1>6. ASSUME NEW w \in Workers, recordJobFailure(w)
      PROVE  Fresh' /\ CompletedIsResolved' /\ ServedIsHarmless' /\ WorkersKnow'
  <2>1. /\ UNCHANGED <<content, request, stored, scan, served>>
        /\ ~Doing(w, "idle") /\ GoesTo(w, Idle) /\ Idle.at = "idle"
    BY <1>6 DEF recordJobFailure, Doing, Idle
  <2>2. \A g \in Files : jobs'[g].status = "completed" => jobs[g].status = "completed"
    BY <1>0, <1>6 DEF recordJobFailure, FailedRow, TypeOK
  <2> QED BY <1>0, <2>1, <2>2, WorkerMoves
          DEF Fresh, CompletedIsResolved, ServedIsHarmless, Resolved
<1>7. ASSUME NEW w \in Workers, recordFileScanResult(w)
      PROVE  Fresh' /\ CompletedIsResolved' /\ ServedIsHarmless' /\ WorkersKnow'
  <2>1. /\ UNCHANGED <<content, request, stored, scan, jobs, served>>
        /\ ~Doing(w, "idle") /\ Doing(w, "record") /\ Idle.at = "idle"
    BY <1>7 DEF recordFileScanResult, Doing, Idle
  <2>2. FileOf(w) \in stored /\ worker[w].verdict \in Answers(content[FileOf(w)])
    BY <1>0, <2>1 DEF WorkersKnow
  <2>3. worker[w] \in [at : {"record", "write"}, file : Files, verdict : Verdicts]
    BY <1>0, <2>1, WorkTypes
  <2>4. WorkersKnow'
    <3>1. CASE GoesTo(w, Idle)
      BY <3>1, <1>0, <2>1, WorkerMoves
    <3>2. CASE GoesTo(w, [worker[w] EXCEPT !.at = "write"]) /\ scan[FileOf(w)] = "pending"
      <4> DEFINE doing == [worker[w] EXCEPT !.at = "write"]
      <4>1. /\ doing.at = "write" /\ doing.file = FileOf(w)
            /\ doing.verdict = worker[w].verdict
        BY <2>3 DEF FileOf
      <4>2. GoesTo(w, doing)
        BY <3>2
      <4> HIDE DEF doing
      <4> QED BY <1>0, <2>1, <2>2, <3>2, <4>1, <4>2, WorkerMoves
    <3>3. CASE GoesTo(w, [at |-> "complete", file |-> FileOf(w)])
                   /\ scan[FileOf(w)] = worker[w].verdict
      <4> DEFINE doing == [at |-> "complete", file |-> FileOf(w)]
      <4>1. doing.at = "complete" /\ doing.file = FileOf(w) /\ GoesTo(w, doing)
        BY <3>3
      <4>2. Resolved(FileOf(w))
        BY <2>3, <3>3 DEF Resolved
      <4> HIDE DEF doing
      <4> QED BY <1>0, <2>1, <4>1, <4>2, WorkerMoves
    <3> QED BY <1>7, <3>1, <3>2, <3>3 DEF recordFileScanResult
  <2> QED BY <1>0, <2>1, <2>4 DEF Fresh, CompletedIsResolved, ServedIsHarmless, Resolved
<1>8. ASSUME NEW w \in Workers, recordFileScanResult_writes(w)
      PROVE  Fresh' /\ CompletedIsResolved' /\ ServedIsHarmless' /\ WorkersKnow'
  <2> DEFINE f == FileOf(w)
  <2>0. CASE ~enforce_file_scan_resolution_invariant(scan[f], worker[w].verdict)
    <3>1. /\ UNCHANGED <<content, request, stored, scan, jobs, served>>
          /\ ~Doing(w, "idle") /\ GoesTo(w, Idle) /\ Idle.at = "idle"
      BY <1>8, <2>0 DEF recordFileScanResult_writes, Doing, Idle
    <3> QED BY <1>0, <3>1, WorkerMoves DEF Fresh, CompletedIsResolved, ServedIsHarmless, Resolved
  <2> SUFFICES ASSUME enforce_file_scan_resolution_invariant(scan[f], worker[w].verdict)
               PROVE  Fresh' /\ CompletedIsResolved' /\ ServedIsHarmless' /\ WorkersKnow'
    BY <2>0
  <2>1. /\ UNCHANGED <<content, request, stored, jobs, served>>
        /\ scan' = [scan EXCEPT ![f] = worker[w].verdict]
        /\ worker' = [worker EXCEPT ![w] = [at |-> "complete", file |-> f]]
        /\ Doing(w, "write") /\ ~Doing(w, "idle")
    BY <1>8 DEF recordFileScanResult_writes, GoesTo, Doing
  <2>2. f \in Files /\ worker[w].verdict \in Verdicts
    BY <1>0, <2>1, WorkTypes
  <2>3. /\ scan'[f] = worker[w].verdict
        /\ \A g \in Files : g # f => scan'[g] = scan[g]
    BY <1>0, <2>1, <2>2 DEF TypeOK
  <2>4. /\ worker'[w] = [at |-> "complete", file |-> f]
        /\ \A v \in Workers : v # w => worker'[v] = worker[v]
    BY <1>0, <2>1 DEF TypeOK
  <2>5. \A g \in Files : Resolved(g) => Resolved(g)'
    BY <2>2, <2>3 DEF Resolved
  <2>6. f \in stored /\ worker[w].verdict \in Answers(content[f]) /\ content[f] \in Content
    BY <1>0, <2>1, <2>2 DEF WorkersKnow, TypeOK
  <2>7. Fresh'
    BY <1>0, <2>1, <2>3, <2>6 DEF Fresh
  <2>8. CompletedIsResolved'
    BY <1>0, <2>1, <2>5 DEF CompletedIsResolved
  <2>9. WorkersKnow'
    <3>1. \A v \in Workers : Doing(v, "complete")' => Resolved(FileOf(v))'
      <4> SUFFICES ASSUME NEW v \in Workers, Doing(v, "complete")' PROVE Resolved(FileOf(v))'
        OBVIOUS
      <4>1. CASE v = w
        BY <4>1, <2>2, <2>3, <2>4 DEF Resolved, FileOf
      <4>2. CASE v # w
        <5>1. Doing(v, "complete") /\ worker'[v] = worker[v]
          BY <4>2, <2>4 DEF Doing
        <5>2. Resolved(FileOf(v)) /\ FileOf(v) \in Files
          BY <1>0, <5>1, WorkTypes DEF WorkersKnow, Doing
        <5> QED BY <5>1, <5>2, <2>5 DEF FileOf, Resolved
      <4> QED BY <4>1, <4>2
    <3>2. \A v \in Workers : Doing(v, "record")' \/ Doing(v, "write")' =>
              /\ (FileOf(v) \in stored)'
              /\ (worker[v].verdict \in Answers(content[FileOf(v)]))'
      BY <1>0, <2>1, <2>4 DEF WorkersKnow, Doing, FileOf
    <3>3. \A g \in Files : scan'[g] = "clean" => content'[g] = "harmless" /\ g \in stored'
      BY <1>0, <2>1, <2>3, <2>6, AnswersType DEF WorkersKnow
    <3> QED BY <3>1, <3>2, <3>3 DEF WorkersKnow
  <2> QED BY <1>0, <2>1, <2>7, <2>8, <2>9 DEF ServedIsHarmless
<1>9. ASSUME NEW w \in Workers, completeJob(w)
      PROVE  Fresh' /\ CompletedIsResolved' /\ ServedIsHarmless' /\ WorkersKnow'
  <2>1. /\ UNCHANGED <<content, request, stored, scan, served>>
        /\ ~Doing(w, "idle") /\ Doing(w, "complete") /\ GoesTo(w, Idle) /\ Idle.at = "idle"
    BY <1>9 DEF completeJob, Doing, Idle
  <2>2. FileOf(w) \in Files /\ Resolved(FileOf(w))
    BY <1>0, <2>1, WorkTypes DEF WorkersKnow
  <2>3. \A g \in Files : g # FileOf(w) => jobs'[g].status = jobs[g].status
    BY <1>0, <1>9, <2>2 DEF completeJob, TypeOK
  <2>4. CompletedIsResolved'
    BY <1>0, <2>1, <2>2, <2>3 DEF CompletedIsResolved, Resolved
  <2> QED BY <1>0, <2>1, <2>4, WorkerMoves DEF Fresh, ServedIsHarmless
<1>10. ASSUME NEW w \in Workers, worker_dies(w)
       PROVE  Fresh' /\ CompletedIsResolved' /\ ServedIsHarmless' /\ WorkersKnow'
  <2>1. /\ UNCHANGED <<content, request, stored, scan, jobs, served>>
        /\ ~Doing(w, "idle") /\ GoesTo(w, Idle) /\ Idle.at = "idle"
    BY <1>10 DEF worker_dies, Idle
  <2> QED BY <1>0, <2>1, WorkerMoves DEF Fresh, CompletedIsResolved, ServedIsHarmless, Resolved
<1>11. CASE UNCHANGED vars
  <2>1. Untouched /\ UNCHANGED vars
    BY <1>11 DEF vars, Untouched
  <2> QED BY <1>0, <2>1, WorkersUndisturbed
          DEF vars, Fresh, CompletedIsResolved, ServedIsHarmless, Resolved
<1> QED BY <1>1, <1>2, <1>3, <1>4, <1>5, <1>6, <1>7, <1>8, <1>9, <1>10, <1>11 DEF Next, Proceeds

\* Only the UPDATE of a verdict touches one, and the trigger lets it write
\* the verdict that is there.
LEMMA VerdictStep ==
    IInv /\ [Next]_vars =>
        [\A f \in Files : Resolved(f) => scan'[f] = scan[f]]_vars
<1> SUFFICES ASSUME IInv, [Next]_vars, NEW f \in Files, Resolved(f)
             PROVE  scan'[f] = scan[f]
  OBVIOUS
<1>0. TypeOK /\ Fresh
  BY DEF IInv
<1>1. ASSUME NEW g \in Files, RequestNext(g) PROVE scan'[f] = scan[f]
  BY <1>0, <1>1 DEF RequestNext, initiate_file_upload, upload, compensate, enqueueJob,
                    request_dies, Fresh, TypeOK, Resolved, Verdicts
<1>2. ASSUME NEW g \in Files, PeopleNext(g) \/ TimePasses(g) PROVE scan'[f] = scan[f]
  BY <1>2 DEF PeopleNext, authorize_file_access, request_file_deletion, uploader_leaves,
              TimePasses, LeaseExpires, BackoffElapses
<1>3. ASSUME NEW w \in Workers, NEW g \in Files, claim_next_job(w, g) PROVE scan'[f] = scan[f]
  BY <1>3 DEF claim_next_job
<1>4. ASSUME NEW w \in Workers, recordFileScanResult_writes(w) PROVE scan'[f] = scan[f]
  <2>1. FileOf(w) \in Files
    BY <1>0, <1>4, WorkTypes DEF recordFileScanResult_writes, Doing
  <2>2. CASE FileOf(w) = f
    BY <1>0, <1>4, <2>1, <2>2
    DEF recordFileScanResult_writes, enforce_file_scan_resolution_invariant, TypeOK, Resolved,
        Verdicts
  <2>3. CASE FileOf(w) # f
    BY <1>0, <1>4, <2>3 DEF recordFileScanResult_writes, TypeOK
  <2> QED BY <2>2, <2>3
<1>5. ASSUME NEW w \in Workers,
             scanFile(w) \/ recordJobFailure(w) \/ recordFileScanResult(w) \/ completeJob(w)
                 \/ worker_dies(w)
      PROVE  scan'[f] = scan[f]
  BY <1>5 DEF scanFile, recordJobFailure, recordFileScanResult, completeJob, worker_dies
<1>6. CASE UNCHANGED vars
  BY <1>6 DEF vars
<1> QED BY <1>1, <1>2, <1>3, <1>4, <1>5, <1>6 DEF Next, Proceeds

LEMMA SpecIInv == Spec => []IInv
BY InitIInv, NextIInv, PTL DEF Spec

\* The types of the upload and of its scan.
THEOREM ScanTypeCorrect == Spec => []TypeOK
BY SpecIInv, PTL DEF IInv

\* A completed scan job means a verdict, wherever its executions died.
THEOREM CompletedScanIsResolved == Spec => []CompletedIsResolved
BY SpecIInv, PTL DEF IInv

\* Harmful bytes are never let out to anyone but their uploader.
THEOREM ServedFilesAreHarmless == Spec => []ServedIsHarmless
BY SpecIInv, PTL DEF IInv

\* A verdict once given stands, whatever executions of its job overlap or repeat.
THEOREM VerdictsStand == Spec => VerdictStands
<1>1. IInv /\ [Next]_vars =>
          [\A f \in Files : Resolved(f) => scan'[f] = scan[f]]_vars
  BY VerdictStep
<1> QED BY <1>1, SpecIInv, PTL DEF Spec, VerdictStands
===============================================================================
