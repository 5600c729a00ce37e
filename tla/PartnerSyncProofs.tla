-------------------------- MODULE PartnerSyncProofs --------------------------
(***************************************************************************)
(* For any jobs and workers, any response length and any number of         *)
(* attempts and of mishaps: a completed job has recorded what it polled, a *)
(* bank line and an event have one row, and a job makes the claims raise   *)
(* only after a mishap, an answer of null, or an item of the loop that     *)
(* throws.                                                                 *)
(***************************************************************************)
EXTENDS PartnerSync, SequenceTheorems, TLAPS

Bank == "finance_bank_feed_sync"

\* What worker w carries from one call to the next is still true at the next:
\* the items it owes are recorded or still before it.
Knows(w) ==
    /\ Doing(w, "record") =>
          /\ kind # Bank
          /\ Range(worker[w].left) \subseteq 1 .. published
          /\ \A i \in owed[w] : /\ quality[i] # "malformed"
                                /\ recorded[i] > 0 \/ i \in Range(worker[w].left)
    /\ Doing(w, "import") =>
          /\ kind = Bank
          /\ \E first \in 1 .. published : \E last \in first .. published :
                worker[w].left = Window(first, last) /\ owed[w] = first .. last
    /\ Doing(w, "complete") => \A i \in owed[w] : recorded[i] > 0

WorkersKnow == \A w \in Workers : Knows(w)

\* Only a bank has statements.
StatementsAreTheBanks == imported # {} => kind = Bank

\* Why a worker may have left any job leased: one died or was overrun, or an item
\* of a loop made it throw.
Trouble == \/ mishaps > 0
           \/ /\ kind # Bank
              /\ ~authorized \/ \E i \in 1 .. published : quality[i] \in {"refused", "null"}

\* A job that is looked after: in progress while a worker is at it, and only then,
\* and with an attempt left when it may run.
Tended(j) ==
    /\ \A w \in Workers : ~Doing(w, "idle") /\ JobOf(w) = j =>
           jobs[j].status = "in_progress" /\ jobs[j].locked_by = w
    /\ jobs[j].status = "in_progress" =>
           /\ jobs[j].lease = "live" /\ jobs[j].attempts < MaxAttempts
           /\ \E w \in Workers : ~Doing(w, "idle") /\ JobOf(w) = j
    /\ jobs[j].status = "pending" => jobs[j].attempts < MaxAttempts

\* So is every job, until such trouble or until a poll of its own is answered with
\* null.
Attended == ~Trouble => \A j \in Jobs : j \notin nulled => Tended(j)

IInv == /\ TypeOK /\ WorkersKnow /\ StatementsAreTheBanks /\ Attended
        /\ CompletedIsRecorded /\ RecordedOnce

-----------------------------------------------------------------------------
(* Rows, and the sequences of items.                                        *)

LEMMA RowsType ==
    ASSUME NEW row \in Row, NEW w \in Workers
    PROVE  /\ jobs_attempts_check(ClaimedRow(row, w)) => ClaimedRow(row, w) \in Row
           /\ jobs_attempts_check(FailedRow(row, row.attempts)) =>
                  FailedRow(row, row.attempts) \in Row
           /\ CompletedRow(row) \in Row
           /\ [row EXCEPT !.lease = "lapsed"] \in Row
           /\ [row EXCEPT !.due = TRUE] \in Row
<1>1. jobs_attempts_check(ClaimedRow(row, w)) => ClaimedRow(row, w) \in Row
  BY DEF Row, Status, ClaimedRow, jobs_attempts_check
<1>2. jobs_attempts_check(FailedRow(row, row.attempts)) => FailedRow(row, row.attempts) \in Row
  BY DEF Row, Status, FailedRow, jobs_attempts_check
<1>3. CompletedRow(row) \in Row
  BY DEF Row, Status, CompletedRow
<1>4. [row EXCEPT !.lease = "lapsed"] \in Row /\ [row EXCEPT !.due = TRUE] \in Row
  BY DEF Row
<1> QED
  BY <1>1, <1>2, <1>3, <1>4

LEMMA NewRowTypes == AbsentRow \in Row /\ EnqueuedRow \in Row
<1>1. 0 \in 0 .. MaxAttempts
  BY AttemptsAssumption
<1> QED
  BY <1>1 DEF Row, Status, AbsentRow, EnqueuedRow

\* A window holds the numbers from first to last, in order.
LEMMA WindowHolds ==
    ASSUME NEW last \in 0 .. Length, NEW first \in 1 .. last + 1
    PROVE  /\ Window(first, last) \in Seq(Items)
           /\ Len(Window(first, last)) = last - first + 1
           /\ Range(Window(first, last)) = first .. last
           /\ \A n \in 1 .. last - first + 1 : Window(first, last)[n] = first + n - 1
<1> DEFINE m == last - first + 1
<1>1. m \in Nat /\ \A n \in 1 .. m : first + n - 1 \in Items
  BY LengthAssumption DEF Items
<1>2. Window(first, last) \in [1 .. m -> Items]
  BY <1>1 DEF Window
<1>3. Window(first, last) \in Seq(Items) /\ Len(Window(first, last)) = m
  BY <1>1, <1>2
<1>4. \A n \in 1 .. m : Window(first, last)[n] = first + n - 1
  BY DEF Window
<1>5. Range(Window(first, last)) = first .. last
  <2>1. ASSUME NEW i \in first .. last PROVE i \in Range(Window(first, last))
    <3>1. i - first + 1 \in 1 .. m /\ Window(first, last)[i - first + 1] = i
      BY <1>4
    <3> QED
      BY <3>1, <1>2 DEF Range
  <2>2. ASSUME NEW i \in Range(Window(first, last)) PROVE i \in first .. last
    <3>1. PICK n \in 1 .. m : i = first + n - 1
      BY <2>2, <1>2, <1>4 DEF Range
    <3> QED
      BY <3>1, <1>1
  <2> QED
    BY <2>1, <2>2
<1> QED
  BY <1>3, <1>4, <1>5

\* What is kept of a response is a part of it, no longer than a page.
LEMMA KeptIsAPage ==
    ASSUME NEW s \in Seq(Items)
    PROVE  /\ Kept(s) \in Seq(Items)
           /\ Len(Kept(s)) <= PageCap
           /\ Range(Kept(s)) \subseteq Range(s)
<1> DEFINE n == IF Len(s) < PageCap THEN Len(s) ELSE PageCap
<1>1. n \in Nat /\ n <= PageCap /\ n <= Len(s)
  BY LengthAssumption, LenProperties
<1>2. \A i \in 1 .. n : s[i] \in Items
  BY <1>1, ElementOfSeq
<1>3. /\ SubSeq(s, 1, n) \in Seq(Items)
      /\ Len(SubSeq(s, 1, n)) = n
      /\ \A i \in 1 .. n : SubSeq(s, 1, n)[i] = s[i]
  BY <1>1, <1>2, SubSeqProperties
<1>4. Kept(s) = SubSeq(s, 1, n)
  BY DEF Kept
<1> HIDE DEF n
<1>5. ASSUME NEW i \in Range(Kept(s)) PROVE i \in Range(s)
  <2>1. PICK k \in 1 .. n : i = s[k]
    BY <1>1, <1>3, <1>4, LenProperties DEF Range
  <2>2. k \in DOMAIN s
    BY <1>1, LenProperties
  <2> QED
    BY <2>1, <2>2 DEF Range
<1> QED
  BY <1>1, <1>3, <1>4, <1>5

\* The item the loop has come to, and those that are left behind it.
LEMMA HeadOrTail ==
    ASSUME NEW s \in Seq(Items), s # <<>>
    PROVE  /\ Head(s) \in Items /\ Head(s) \in Range(s)
           /\ Tail(s) \in Seq(Items) /\ Len(Tail(s)) = Len(s) - 1
           /\ Range(Tail(s)) \subseteq Range(s)
           /\ \A i \in Range(s) : i = Head(s) \/ i \in Range(Tail(s))
<1>1. /\ Len(s) \in Nat \ {0} /\ DOMAIN s = 1 .. Len(s)
      /\ Head(s) = s[1] /\ Head(s) \in Items
      /\ Tail(s) \in Seq(Items) /\ Len(Tail(s)) = Len(s) - 1
      /\ \A i \in 1 .. Len(Tail(s)) : Tail(s)[i] = s[i + 1]
  BY HeadTailProperties, EmptySeq, LenProperties
<1>2. ASSUME NEW i \in Range(Tail(s)) PROVE i \in Range(s)
  <2>1. PICK k \in 1 .. Len(Tail(s)) : i = s[k + 1]
    BY <1>1, LenProperties DEF Range
  <2>2. k + 1 \in DOMAIN s
    BY <1>1
  <2> QED
    BY <2>1, <2>2 DEF Range
<1>3. ASSUME NEW i \in Range(s), i # Head(s) PROVE i \in Range(Tail(s))
  <2>1. PICK n \in 1 .. Len(s) : i = s[n]
    BY <1>1 DEF Range
  <2>2. n - 1 \in 1 .. Len(Tail(s)) /\ Tail(s)[n - 1] = i
    BY <1>1, <1>3, <2>1
  <2> QED
    BY <1>1, <2>2, RangeEquality
<1> QED
  BY <1>1, <1>2, <1>3, RangeEquality

-----------------------------------------------------------------------------
(* Type correctness.                                                         *)

\* The kinds of work, by what the worker is at.
LEMMA WorkTypes ==
    ASSUME TypeOK, NEW w \in Workers
    PROVE  /\ Doing(w, "idle") => worker[w] = Idle
           /\ ~Doing(w, "idle") => JobOf(w) \in Jobs
           /\ Doing(w, "record") \/ Doing(w, "import") =>
                  /\ worker[w] \in [at : {"record", "import"}, job : Jobs, left : Seq(Items)]
                  /\ worker[w].left \in Seq(Items)
           /\ Doing(w, "record") => Len(worker[w].left) <= PageCap
BY DEF TypeOK, Work, Idle, Doing, JobOf

LEMMA TypeInit == Init => TypeOK
<1> SUFFICES ASSUME Init PROVE TypeOK
  OBVIOUS
<1>1. quality \in [Items -> Quality]
  <2>1. {"good", "refused"} \subseteq Quality
    BY DEF Quality
  <2>2. quality \in [Items -> {"good", "refused"}] \/ quality \in [Items -> Quality]
    BY DEF Init
  <2> HIDE DEF Quality
  <2> QED
    BY <2>1, <2>2
<1>2. worker \in [Workers -> {Idle} \cup Work] /\ \A w \in Workers : worker[w].at = "idle"
  BY DEF Init, Idle
<1> QED
  BY <1>1, <1>2, NewRowTypes, LengthAssumption DEF Init, TypeOK, Items

\* A worker goes on to what is work again, or to nothing.
LEMMA GoesToType ==
    ASSUME TypeOK, NEW w \in Workers, NEW doing \in {Idle} \cup Work, GoesTo(w, doing),
           doing.at = "record" => Len(doing.left) <= PageCap
    PROVE  /\ worker' \in [Workers -> {Idle} \cup Work]
           /\ \A v \in Workers : worker'[v].at = "record" => Len(worker'[v].left) <= PageCap
           /\ worker'[w] = doing
           /\ \A v \in Workers : v # w => worker'[v] = worker[v]
BY DEF TypeOK, GoesTo

\* The shapes of work that the actions go on to.
LEMMA WorkShapes ==
    ASSUME NEW j \in Jobs, NEW s \in Seq(Items)
    PROVE  /\ [at |-> "poll", job |-> j] \in Work
           /\ [at |-> "fail", job |-> j] \in Work
           /\ [at |-> "complete", job |-> j] \in Work
           /\ [at |-> "record", job |-> j, left |-> s] \in Work
           /\ [at |-> "import", job |-> j, left |-> s] \in Work
BY DEF Work

LEMMA ProceedShape ==
    ASSUME TypeOK, NEW w \in Workers, InLoop(w)
    PROVE  /\ Next_item(w) \in Items /\ Next_item(w) \in Range(worker[w].left)
           /\ [worker[w] EXCEPT !.left = Tail(@)] \in Work
           /\ Len(Tail(worker[w].left)) <= PageCap
           /\ Doing(w, "record") /\ JobOf(w) \in Jobs
<1>1. /\ worker[w] \in [at : {"record", "import"}, job : Jobs, left : Seq(Items)]
      /\ worker[w].left \in Seq(Items) /\ worker[w].left # <<>>
      /\ Len(worker[w].left) <= PageCap
      /\ Doing(w, "record") /\ JobOf(w) \in Jobs
  BY WorkTypes DEF InLoop, Doing
<1>2. /\ Head(worker[w].left) \in Items /\ Head(worker[w].left) \in Range(worker[w].left)
      /\ Tail(worker[w].left) \in Seq(Items)
      /\ Len(Tail(worker[w].left)) = Len(worker[w].left) - 1
  BY <1>1, HeadOrTail
<1>3. Len(Tail(worker[w].left)) <= PageCap
  BY <1>1, <1>2, LenProperties, LengthAssumption
<1>4. [worker[w] EXCEPT !.left = Tail(@)] \in [at : {"record", "import"}, job : Jobs, left : Seq(Items)]
  BY <1>1, <1>2
<1> QED
  BY <1>1, <1>2, <1>3, <1>4 DEF Work, Next_item

\* What a bank's statement is referred to by.
LEMMA ReferenceType ==
    ASSUME TypeOK, NEW w \in Workers, Knows(w), Doing(w, "import")
    PROVE  /\ kind = Bank
           /\ \E first, last \in Items :
                 /\ first <= last /\ last <= published
                 /\ Reference(worker[w].left) = <<first, last>>
                 /\ Range(worker[w].left) = first .. last
                 /\ owed[w] = first .. last
<1>0. PICK first \in 1 .. published : \E last \in first .. published :
         worker[w].left = Window(first, last) /\ owed[w] = first .. last
  BY DEF Knows
<1>1. PICK last \in first .. published :
         worker[w].left = Window(first, last) /\ owed[w] = first .. last
  BY <1>0
<1>2. /\ published \in 0 .. Length /\ Length \in Nat
      /\ first \in Items /\ last \in Items /\ first <= last /\ last <= published
  BY LengthAssumption DEF TypeOK, Items
<1>3. /\ Len(Window(first, last)) = last - first + 1
      /\ Range(Window(first, last)) = first .. last
      /\ \A n \in 1 .. last - first + 1 : Window(first, last)[n] = first + n - 1
  BY <1>2, WindowHolds DEF Items
<1>4. /\ 1 \in 1 .. last - first + 1 /\ last - first + 1 \in 1 .. last - first + 1
      /\ first + 1 - 1 = first /\ first + (last - first + 1) - 1 = last
  BY <1>2 DEF Items
<1>5. Reference(worker[w].left) = <<first, last>>
  BY <1>1, <1>3, <1>4 DEF Reference
<1> QED
  BY <1>1, <1>2, <1>3, <1>5 DEF Knows

LEMMA TypePoll ==
    ASSUME TypeOK, NEW w \in Workers, poll(w)
    PROVE  TypeOK'
<1>1. PICK first \in 1 .. published + 1 :
         LET items == Window(first, published) IN
         IF kind # Bank
         THEN /\ GoesTo(w, [at |-> "record", job |-> JobOf(w), left |-> Kept(items)])
              /\ owed' = [owed EXCEPT ![w] =
                             {i \in Range(Kept(items)) : quality[i] # "malformed"}]
         ELSE /\ GoesTo(w, IF items = <<>> THEN [at |-> "fail", job |-> JobOf(w)]
                           ELSE [at |-> "import", job |-> JobOf(w), left |-> items])
              /\ owed' = [owed EXCEPT ![w] = Range(items)]
  BY DEF poll, Bank
<1> DEFINE items == Window(first, published)
<1>2. JobOf(w) \in Jobs /\ published \in 0 .. Length
  BY WorkTypes DEF poll, Doing, TypeOK
<1>3. items \in Seq(Items) /\ Range(items) \subseteq Items
  BY <1>2, WindowHolds, RangeOfSeq
<1>4. /\ Kept(items) \in Seq(Items) /\ Len(Kept(items)) <= PageCap
      /\ Range(Kept(items)) \subseteq Items
  BY <1>3, KeptIsAPage
<1> HIDE DEF items
<1>5. CASE kind # Bank
  <2> DEFINE doing == [at |-> "record", job |-> JobOf(w), left |-> Kept(items)]
  <2>1. doing \in Work /\ Len(doing.left) <= PageCap
    BY <1>2, <1>4, WorkShapes
  <2>2. GoesTo(w, doing)
    BY <1>1, <1>5 DEF items
  <2> HIDE DEF doing
  <2>3. /\ worker' \in [Workers -> {Idle} \cup Work]
        /\ \A v \in Workers : worker'[v].at = "record" => Len(worker'[v].left) <= PageCap
    BY <2>1, <2>2, GoesToType
  <2>4. owed' \in [Workers -> SUBSET Items]
    BY <1>1, <1>4, <1>5 DEF TypeOK, items
  <2> QED
    BY <2>3, <2>4 DEF poll, TypeOK
<1>6. CASE kind = Bank
  <2> DEFINE doing == IF items = <<>> THEN [at |-> "fail", job |-> JobOf(w)]
                      ELSE [at |-> "import", job |-> JobOf(w), left |-> items]
  <2>1. doing \in Work /\ doing.at # "record"
    BY <1>2, <1>3, WorkShapes
  <2>2. GoesTo(w, doing)
    BY <1>1, <1>6 DEF items
  <2> HIDE DEF doing
  <2>3. /\ worker' \in [Workers -> {Idle} \cup Work]
        /\ \A v \in Workers : worker'[v].at = "record" => Len(worker'[v].left) <= PageCap
    BY <2>1, <2>2, GoesToType
  <2>4. owed' \in [Workers -> SUBSET Items]
    BY <1>1, <1>3, <1>6 DEF TypeOK, items
  <2> QED
    BY <2>3, <2>4 DEF poll, TypeOK
<1> QED
  BY <1>5, <1>6

\* A step that only moves a worker on, to work of the model's.
LEMMA TypeMove ==
    ASSUME TypeOK, NEW w \in Workers, NEW doing \in {Idle} \cup Work, GoesTo(w, doing),
           doing.at = "record" => Len(doing.left) <= PageCap,
           owed' = owed \/ owed' = [owed EXCEPT ![w] = {}],
           nulled' = nulled \/ nulled' = nulled \cup {JobOf(w)}, JobOf(w) \in Jobs,
           UNCHANGED <<kind, quality, published, authorized, jobs, recorded, imported,
                       vouched, mishaps>>
    PROVE  TypeOK'
BY GoesToType DEF TypeOK

LEMMA RowsAfterType ==
    ASSUME TypeOK, NEW i \in Items
    PROVE  RowsAfter(i) \in Nat \ {0}
BY DEF TypeOK, RowsAfter

LEMMA TypeWorker ==
    ASSUME TypeOK, NEW w \in Workers, Knows(w), Proceeds(w)
    PROVE  TypeOK'
<1>a. Idle \in {Idle} \cup Work /\ Idle.at # "record"
  BY DEF Idle
<1>1. CASE poll(w)
  BY <1>1, TypePoll
<1>2. CASE poll_fails(w) \/ import_raises(w)
  <2>1. JobOf(w) \in Jobs
    BY <1>2, WorkTypes DEF poll_fails, import_raises, Doing
  <2>2. [at |-> "fail", job |-> JobOf(w)] \in Work
    BY <2>1 DEF Work
  <2> QED
    BY <1>2, <2>1, <2>2, TypeMove DEF poll_fails, import_raises
<1>3. CASE record_skips(w)
  <2>1. /\ [worker[w] EXCEPT !.left = Tail(@)] \in Work
        /\ Len(Tail(worker[w].left)) <= PageCap
        /\ worker[w].left \in Seq(Items) /\ "left" \in DOMAIN worker[w] /\ JobOf(w) \in Jobs
    BY <1>3, ProceedShape, WorkTypes DEF record_skips, InLoop
  <2> QED
    BY <1>3, <2>1, TypeMove DEF record_skips, Proceed
<1>4. CASE record(w)
  <2>1. /\ [worker[w] EXCEPT !.left = Tail(@)] \in Work
        /\ Len(Tail(worker[w].left)) <= PageCap
        /\ Next_item(w) \in Items /\ "left" \in DOMAIN worker[w]
    BY <1>4, ProceedShape, WorkTypes DEF record, InLoop
  <2>2. recorded' \in [Items -> Nat]
    BY <1>4, <2>1, RowsAfterType DEF record, TypeOK
  <2>3. /\ worker' \in [Workers -> {Idle} \cup Work]
        /\ \A v \in Workers : worker'[v].at = "record" => Len(worker'[v].left) <= PageCap
    BY <1>4, <2>1, GoesToType DEF record, Proceed
  <2> QED
    BY <1>4, <2>2, <2>3 DEF record, TypeOK
<1>5. CASE poll_throws(w) \/ record_throws(w) \/ record_raises(w)
  <2>1. JobOf(w) \in Jobs
    BY <1>5, WorkTypes DEF poll_throws, record_throws, record_raises, InLoop, Doing
  <2> QED
    BY <1>5, <1>a, <2>1, TypeMove DEF poll_throws, record_throws, record_raises, ThrowsOrReturns
<1>6. CASE record_ends(w)
  <2>1. JobOf(w) \in Jobs
    BY <1>6, WorkTypes DEF record_ends, Doing
  <2>2. [at |-> "complete", job |-> JobOf(w)] \in Work
    BY <2>1 DEF Work
  <2> QED
    BY <1>6, <2>1, <2>2, TypeMove DEF record_ends, LoopEnds
<1>7. CASE import(w)
  <2>1. JobOf(w) \in Jobs /\ Doing(w, "import")
    BY <1>7, WorkTypes DEF import, Doing
  <2>2. [at |-> "complete", job |-> JobOf(w)] \in Work
    BY <2>1 DEF Work
  <2>3. /\ worker' \in [Workers -> {Idle} \cup Work]
        /\ \A v \in Workers : worker'[v].at = "record" => Len(worker'[v].left) <= PageCap
    BY <1>7, <2>2, GoesToType DEF import, LoopEnds
  <2>4. Reference(worker[w].left) \in Items \X Items
    BY <2>1, ReferenceType
  <2>5. imported' \subseteq Items \X Items
    BY <1>7, <2>4 DEF import, TypeOK
  <2>6. recorded' \in [Items -> Nat]
    BY <1>7, RowsAfterType DEF import, TypeOK
  <2> QED
    BY <1>7, <2>3, <2>5, <2>6 DEF import, TypeOK
<1>8. CASE recordJobFailure(w)
  <2> DEFINE j == JobOf(w)  row == FailedRow(jobs[j], jobs[j].attempts)
  <2>1. j \in Jobs /\ jobs[j] \in Row
    BY <1>8, WorkTypes DEF recordJobFailure, Doing, TypeOK
  <2>2. jobs_attempts_check(row) => row \in Row
    BY <2>1, RowsType
  <2>3. jobs' = jobs \/ (jobs_attempts_check(row) /\ jobs' = [jobs EXCEPT ![j] = row])
    BY <1>8 DEF recordJobFailure
  <2>4. jobs' \in [Jobs -> Row]
    BY <2>1, <2>2, <2>3 DEF TypeOK
  <2>5. /\ worker' \in [Workers -> {Idle} \cup Work]
        /\ \A v \in Workers : worker'[v].at = "record" => Len(worker'[v].left) <= PageCap
    BY <1>8, <1>a, GoesToType DEF recordJobFailure, ThrowsOrReturns
  <2> QED
    BY <1>8, <2>4, <2>5 DEF recordJobFailure, ThrowsOrReturns, TypeOK
<1>9. CASE completeJob(w)
  <2>1. JobOf(w) \in Jobs /\ jobs[JobOf(w)] \in Row
    BY <1>9, WorkTypes DEF completeJob, Doing, TypeOK
  <2>2. jobs' \in [Jobs -> Row] /\ vouched' \subseteq Items
    BY <1>9, <2>1, RowsType DEF completeJob, TypeOK
  <2>3. /\ worker' \in [Workers -> {Idle} \cup Work]
        /\ \A v \in Workers : worker'[v].at = "record" => Len(worker'[v].left) <= PageCap
    BY <1>9, <1>a, GoesToType DEF completeJob, ThrowsOrReturns
  <2> QED
    BY <1>9, <2>2, <2>3 DEF completeJob, ThrowsOrReturns, TypeOK
<1> QED
  BY <1>1, <1>2, <1>3, <1>4, <1>5, <1>6, <1>7, <1>8, <1>9 DEF Proceeds

LEMMA TypeStep ==
    ASSUME TypeOK, WorkersKnow, [Next]_vars
    PROVE  TypeOK'
<1>1. CASE publish
  BY <1>1, LengthAssumption DEF publish, TypeOK
<1>2. CASE authority_ends
  BY <1>2 DEF authority_ends, TypeOK
<1>3. ASSUME NEW j \in Jobs, trigger(j) PROVE TypeOK'
  BY <1>3, NewRowTypes DEF trigger, TypeOK
<1>4. ASSUME NEW j \in Jobs, TimePasses(j) PROVE TypeOK'
  <2>1. [jobs[j] EXCEPT !.lease = "lapsed"] \in Row /\ [jobs[j] EXCEPT !.due = TRUE] \in Row
    BY DEF TypeOK, Row
  <2>2. mishaps' \in 0 .. MaxMishaps
    BY <1>4, LengthAssumption DEF TimePasses, LeaseExpires, BackoffElapses, TypeOK
  <2> QED
    BY <1>4, <2>1, <2>2 DEF TimePasses, LeaseExpires, BackoffElapses, TypeOK
<1>5. ASSUME NEW w \in Workers, NEW j \in Jobs, claim_next_job(w, j) PROVE TypeOK'
  <2>1. ClaimedRow(jobs[j], w) \in Row
    BY <1>5, RowsType DEF claim_next_job, TypeOK
  <2>2. [at |-> "poll", job |-> j] \in Work
    BY DEF Work
  <2>3. /\ worker' \in [Workers -> {Idle} \cup Work]
        /\ \A v \in Workers : worker'[v].at = "record" => Len(worker'[v].left) <= PageCap
    BY <1>5, <2>2, GoesToType DEF claim_next_job
  <2> QED
    BY <1>5, <2>1, <2>3 DEF claim_next_job, TypeOK
<1>6. ASSUME NEW w \in Workers, Proceeds(w) PROVE TypeOK'
  BY <1>6, TypeWorker DEF WorkersKnow
<1>7. ASSUME NEW w \in Workers, worker_dies(w) PROVE TypeOK'
  <2>1. /\ worker' \in [Workers -> {Idle} \cup Work]
        /\ \A v \in Workers : worker'[v].at = "record" => Len(worker'[v].left) <= PageCap
    BY <1>7, GoesToType DEF worker_dies, ThrowsOrReturns, Idle
  <2>2. mishaps' \in 0 .. MaxMishaps
    BY <1>7, LengthAssumption DEF worker_dies, TypeOK
  <2> QED
    BY <1>7, <2>1, <2>2 DEF worker_dies, ThrowsOrReturns, TypeOK
<1>8. CASE UNCHANGED vars
  BY <1>8 DEF vars, TypeOK
<1> QED
  BY <1>1, <1>2, <1>3, <1>4, <1>5, <1>6, <1>7, <1>8 DEF Next
-----------------------------------------------------------------------------
(* What no step undoes.                                                      *)

\* Rows are never taken back, what the partner published stays published, and
\* the reasons for a job that is left leased remain.
Grows ==
    /\ UNCHANGED <<kind, quality>>
    /\ published' \in 0 .. Length /\ published <= published'
    /\ \A i \in Items : recorded[i] > 0 => recorded'[i] > 0
    /\ Trouble => Trouble'
    /\ nulled \subseteq nulled'

LEMMA MoreRows ==
    ASSUME TypeOK, Next
    PROVE  \A i \in Items : recorded[i] > 0 => recorded'[i] > 0
<1>1. ASSUME NEW w \in Workers, record(w) PROVE \A i \in Items : recorded[i] > 0 => recorded'[i] > 0
  <2>1. RowsAfter(Next_item(w)) \in Nat \ {0}
    BY <1>1, ProceedShape, RowsAfterType DEF record
  <2> QED
    BY <1>1, <2>1 DEF record, TypeOK
<1>2. ASSUME NEW w \in Workers, import(w) PROVE \A i \in Items : recorded[i] > 0 => recorded'[i] > 0
  <2>1. \A i \in Items : RowsAfter(i) \in Nat \ {0}
    BY RowsAfterType
  <2> QED
    BY <1>2, <2>1 DEF import
<1>3. CASE UNCHANGED recorded
  BY <1>3
<1> QED
  BY <1>1, <1>2, <1>3
  DEF Next, publish, authority_ends, trigger, TimePasses, LeaseExpires, BackoffElapses,
      claim_next_job, worker_dies, Proceeds, poll, poll_fails, poll_throws, record_skips,
      record_throws, record_raises, record_ends, import_raises, recordJobFailure, completeJob

LEMMA NextGrows ==
    ASSUME TypeOK, [Next]_vars
    PROVE  Grows
<1>1. CASE Next
  <2>a. publish \/ UNCHANGED <<kind, quality, published>>
    BY <1>1
    DEF Next, authority_ends, trigger, TimePasses, LeaseExpires, BackoffElapses,
        claim_next_job, worker_dies, Proceeds, poll, poll_fails, poll_throws, record_skips,
        record, record_throws, record_raises, record_ends, import, import_raises, recordJobFailure, completeJob
  <2>b. authority_ends \/ UNCHANGED authorized
    BY <1>1
    DEF Next, publish, trigger, TimePasses, LeaseExpires, BackoffElapses,
        claim_next_job, worker_dies, Proceeds, poll, poll_fails, poll_throws, record_skips,
        record, record_throws, record_raises, record_ends, import, import_raises, recordJobFailure, completeJob
  <2>c. /\ UNCHANGED <<kind, quality>>
        /\ published' = published \/ (published < Length /\ published' = published + 1)
    BY <2>a DEF publish
  <2>d. ~authorized => ~authorized'
    BY <2>b DEF authority_ends
  <2>1. /\ UNCHANGED <<kind, quality>>
        /\ published' = published \/ (published < Length /\ published' = published + 1)
        /\ ~authorized => ~authorized'
    BY <2>c, <2>d
  <2>2. mishaps' = mishaps \/ mishaps' = mishaps + 1
    BY <1>1
    DEF Next, publish, authority_ends, trigger, TimePasses, LeaseExpires, BackoffElapses,
        claim_next_job, worker_dies, Proceeds, poll, poll_fails, poll_throws, record_skips,
        record, record_throws, record_raises, record_ends, import, import_raises, recordJobFailure, completeJob
  <2>e. nulled \subseteq nulled'
    BY <1>1
    DEF Next, publish, authority_ends, trigger, TimePasses, LeaseExpires, BackoffElapses,
        claim_next_job, worker_dies, Proceeds, poll, poll_fails, poll_throws, record_skips,
        record, record_throws, record_raises, record_ends, import, import_raises,
        recordJobFailure, completeJob
  <2>3. published' \in 0 .. Length /\ published <= published'
    BY <2>1, LengthAssumption DEF TypeOK
  <2>4. Trouble => Trouble'
    BY <2>1, <2>2, <2>3, LengthAssumption DEF TypeOK, Trouble
  <2> QED
    BY <1>1, <2>1, <2>3, <2>4, <2>e, MoreRows DEF Grows
<1>2. CASE UNCHANGED vars
  BY <1>2 DEF vars, TypeOK, Grows, Trouble
<1> QED
  BY <1>1, <1>2

-----------------------------------------------------------------------------
(* What the workers know.                                                    *)

\* A worker that has not moved still knows what it knew.
LEMMA KnowsStill ==
    ASSUME TypeOK, Grows, NEW w \in Workers, Knows(w),
           worker'[w] = worker[w], owed'[w] = owed[w]
    PROVE  Knows(w)'
<1>1. /\ published \in 0 .. Length /\ Length \in Nat /\ published' \in 0 .. Length
      /\ published <= published' /\ kind' = kind /\ quality' = quality
      /\ owed[w] \subseteq Items /\ \A i \in Items : recorded[i] > 0 => recorded'[i] > 0
  BY LengthAssumption DEF TypeOK, Grows
<1>2. /\ Doing(w, "record")' = Doing(w, "record")
      /\ Doing(w, "import")' = Doing(w, "import")
      /\ Doing(w, "complete")' = Doing(w, "complete")
  BY DEF Doing
<1>3. ASSUME Doing(w, "record")
      PROVE  /\ kind' # Bank
             /\ Range(worker'[w].left) \subseteq 1 .. published'
             /\ \A i \in owed'[w] : /\ quality'[i] # "malformed"
                                    /\ recorded'[i] > 0 \/ i \in Range(worker'[w].left)
  BY <1>1, <1>3 DEF Knows
<1>4. ASSUME Doing(w, "import")
      PROVE  \E first \in 1 .. published' : \E last \in first .. published' :
                worker'[w].left = Window(first, last) /\ owed'[w] = first .. last
  <2>1. PICK first \in 1 .. published : \E last \in first .. published :
           worker[w].left = Window(first, last) /\ owed[w] = first .. last
    BY <1>4 DEF Knows
  <2>2. PICK last \in first .. published :
           worker[w].left = Window(first, last) /\ owed[w] = first .. last
    BY <2>1
  <2>3. first \in 1 .. published' /\ last \in first .. published'
    BY <1>1, <2>2
  <2>4. worker'[w].left = Window(first, last) /\ owed'[w] = first .. last
    BY <2>2
  <2> QED
    BY <2>3, <2>4
<1>5. ASSUME Doing(w, "complete") PROVE \A i \in owed'[w] : recorded'[i] > 0
  BY <1>1, <1>5 DEF Knows
<1> QED
  BY <1>1, <1>2, <1>3, <1>4, <1>5 DEF Knows, Window

\* A worker at none of the three steps has nothing to know.
LEMMA KnowsNothing ==
    ASSUME NEW w, worker'[w].at \notin {"record", "import", "complete"}
    PROVE  Knows(w)'
BY DEF Knows, Doing

\* If one worker moves and knows what it has to, all do.
LEMMA OneMoves ==
    ASSUME TypeOK, WorkersKnow, Grows, NEW w \in Workers, NEW doing, GoesTo(w, doing),
           \A v \in Workers : v # w => owed'[v] = owed[v],
           worker'[w] = doing => Knows(w)'
    PROVE  WorkersKnow'
<1>1. worker'[w] = doing /\ \A v \in Workers : v # w => worker'[v] = worker[v]
  BY DEF GoesTo, TypeOK
<1>2. ASSUME NEW v \in Workers, v # w PROVE Knows(v)'
  BY <1>1, <1>2, KnowsStill DEF WorkersKnow
<1> QED
  BY <1>1, <1>2 DEF WorkersKnow

LEMMA KnowsPoll ==
    ASSUME TypeOK, NEW w \in Workers, poll(w)
    PROVE  Knows(w)'
<1>1. PICK first \in 1 .. published + 1 :
         LET items == Window(first, published) IN
         IF kind # Bank
         THEN /\ GoesTo(w, [at |-> "record", job |-> JobOf(w), left |-> Kept(items)])
              /\ owed' = [owed EXCEPT ![w] =
                             {i \in Range(Kept(items)) : quality[i] # "malformed"}]
         ELSE /\ GoesTo(w, IF items = <<>> THEN [at |-> "fail", job |-> JobOf(w)]
                           ELSE [at |-> "import", job |-> JobOf(w), left |-> items])
              /\ owed' = [owed EXCEPT ![w] = Range(items)]
  BY DEF poll, Bank
<1> DEFINE items == Window(first, published)
<1>2. published \in 0 .. Length /\ Length \in Nat /\ first \in 1 .. published + 1
  BY LengthAssumption DEF TypeOK
<1>3. /\ items \in Seq(Items) /\ Len(items) = published - first + 1
      /\ Range(items) = first .. published
  BY <1>2, WindowHolds
<1>4. Range(Kept(items)) \subseteq Range(items)
  BY <1>3, KeptIsAPage
<1>5. UNCHANGED <<kind, quality, published, recorded>>
  BY DEF poll
<1> HIDE DEF items
<1>6. CASE kind # Bank
  <2>1. /\ worker'[w] = [at |-> "record", job |-> JobOf(w), left |-> Kept(items)]
        /\ owed'[w] = {i \in Range(Kept(items)) : quality[i] # "malformed"}
    BY <1>1, <1>6 DEF GoesTo, TypeOK, items
  <2>2. worker'[w].at = "record" /\ worker'[w].left = Kept(items)
    BY <2>1
  <2>3. Range(Kept(items)) \subseteq 1 .. published
    BY <1>2, <1>3, <1>4
  <2> QED
    BY <1>5, <1>6, <2>1, <2>2, <2>3 DEF Knows, Doing
<1>7. CASE kind = Bank /\ items = <<>>
  <2>1. worker'[w].at = "fail"
    BY <1>1, <1>7 DEF GoesTo, TypeOK, items
  <2> QED
    BY <2>1, KnowsNothing
<1>8. CASE kind = Bank /\ items # <<>>
  <2>1. /\ worker'[w] = [at |-> "import", job |-> JobOf(w), left |-> items]
        /\ owed'[w] = Range(items)
    BY <1>1, <1>8 DEF GoesTo, TypeOK, items
  <2>2. worker'[w].at = "import" /\ worker'[w].left = items
    BY <2>1
  <2>3. Len(items) # 0
    BY <1>3, <1>8, EmptySeq
  <2>4. first \in 1 .. published /\ published \in first .. published
    BY <1>2, <1>3, <2>3
  <2>5. items = Window(first, published)'
    BY <1>5 DEF items, Window
  <2> QED
    BY <1>3, <1>5, <1>8, <2>1, <2>2, <2>4, <2>5 DEF Knows, Doing, items
<1> QED
  BY <1>6, <1>7, <1>8

\* The item before the worker is recorded, or was malformed and not owed.
LEMMA KnowsProceed ==
    ASSUME TypeOK, Grows, NEW w \in Workers, Knows(w), InLoop(w), Proceed(w), UNCHANGED owed,
           quality[Next_item(w)] = "malformed" \/ recorded'[Next_item(w)] > 0
    PROVE  Knows(w)'
<1>1. /\ Doing(w, "record") /\ worker[w].left \in Seq(Items) /\ worker[w].left # <<>>
      /\ "left" \in DOMAIN worker[w]
  BY WorkTypes DEF InLoop
<1>2. worker'[w] = [worker[w] EXCEPT !.left = Tail(@)]
  BY DEF Proceed, GoesTo, TypeOK
<1>3. worker'[w].at = "record" /\ worker'[w].left = Tail(worker[w].left)
  BY <1>1, <1>2, WorkTypes DEF Doing
<1>4. /\ Range(Tail(worker[w].left)) \subseteq Range(worker[w].left)
      /\ \A i \in Range(worker[w].left) : i = Next_item(w) \/ i \in Range(Tail(worker[w].left))
  BY <1>1, HeadOrTail DEF Next_item
<1>5. /\ kind # Bank /\ Range(worker[w].left) \subseteq 1 .. published
      /\ \A i \in owed[w] : /\ quality[i] # "malformed"
                            /\ recorded[i] > 0 \/ i \in Range(worker[w].left)
      /\ owed[w] \subseteq Items
  BY <1>1 DEF Knows, TypeOK
<1>6. Range(worker'[w].left) \subseteq 1 .. published'
  BY <1>3, <1>4, <1>5, LengthAssumption DEF Grows, TypeOK
<1>7. \A i \in owed'[w] : /\ quality'[i] # "malformed"
                          /\ recorded'[i] > 0 \/ i \in Range(worker'[w].left)
  BY <1>3, <1>4, <1>5 DEF Grows
<1> QED
  BY <1>3, <1>5, <1>6, <1>7 DEF Knows, Doing, Grows

LEMMA WorkersKnowWorker ==
    ASSUME TypeOK, WorkersKnow, RecordedOnce, Grows, NEW w \in Workers, Proceeds(w)
    PROVE  WorkersKnow'
<1>a. Knows(w)
  BY DEF WorkersKnow
<1>1. CASE poll(w)
  <2>1. PICK doing : GoesTo(w, doing)
    BY <1>1 DEF poll
  <2>2. \A v \in Workers : v # w => owed'[v] = owed[v]
    BY <1>1 DEF poll, TypeOK
  <2> QED
    BY <1>1, <2>1, <2>2, KnowsPoll, OneMoves
<1>2. CASE \/ poll_fails(w) \/ poll_throws(w) \/ import_raises(w)
           \/ record_throws(w) \/ record_raises(w)
           \/ recordJobFailure(w) \/ completeJob(w)
  <2>1. PICK doing : GoesTo(w, doing) /\ doing.at \in {"idle", "fail"}
    BY <1>2 DEF poll_fails, poll_throws, import_raises, record_throws, record_raises,
                recordJobFailure, completeJob, ThrowsOrReturns, Idle
  <2>2. \A v \in Workers : v # w => owed'[v] = owed[v]
    BY <1>2 DEF poll_fails, poll_throws, import_raises, record_throws, record_raises,
                recordJobFailure, completeJob, ThrowsOrReturns, TypeOK
  <2> QED
    BY <2>1, <2>2, KnowsNothing, OneMoves
<1>3. CASE record_skips(w)
  <2>1. Knows(w)'
    BY <1>3, <1>a, KnowsProceed DEF record_skips
  <2> QED
    BY <1>3, <2>1, OneMoves DEF record_skips, Proceed
<1>4. CASE record(w)
  <2>1. Next_item(w) \in Items
    BY <1>4, ProceedShape DEF record
  <2>2. recorded'[Next_item(w)] > 0
    BY <1>4, <2>1, RowsAfterType DEF record, TypeOK
  <2>3. Knows(w)'
    BY <1>4, <1>a, <2>2, KnowsProceed DEF record
  <2> QED
    BY <1>4, <2>3, OneMoves DEF record, Proceed
<1>5. CASE record_ends(w)
  <2>1. Doing(w, "record") /\ worker[w].left = <<>> /\ UNCHANGED <<owed, recorded>>
    BY <1>5 DEF record_ends
  <2>2. Range(worker[w].left) = {}
    BY <2>1 DEF Range
  <2>3. \A i \in owed[w] : recorded[i] > 0
    BY <1>a, <2>1, <2>2 DEF Knows
  <2>4. worker'[w] = [at |-> "complete", job |-> JobOf(w)] => Knows(w)'
    BY <2>1, <2>3 DEF Knows, Doing
  <2> QED
    BY <1>5, <2>1, <2>4, OneMoves DEF record_ends, LoopEnds
<1>6. CASE import(w)
  <2>1. Doing(w, "import") /\ UNCHANGED owed /\ owed[w] \subseteq Items
    BY <1>6 DEF import, TypeOK
  <2>2. PICK first, last \in Items :
           /\ Reference(worker[w].left) = <<first, last>>
           /\ Range(worker[w].left) = first .. last
           /\ owed[w] = first .. last
    BY <1>a, <2>1, ReferenceType
  <2>3. kind # "external_sync"
    BY <1>a, <2>1 DEF Knows, Bank
  <2>4. ASSUME NEW i \in owed[w] PROVE recorded'[i] > 0
    <3>1. i \in Items /\ i \in Range(worker[w].left) /\ RowsAfter(i) \in Nat \ {0}
      BY <2>1, <2>2, RowsAfterType
    <3>2. CASE <<first, last>> \notin imported
      BY <1>6, <2>2, <3>1, <3>2 DEF import
    <3>3. CASE <<first, last>> \in imported
      <4>1. <<first, last>>[1] = first /\ <<first, last>>[2] = last
        OBVIOUS
      <4>2. recorded[i] = 1
        BY <2>2, <2>3, <3>3, <4>1 DEF RecordedOnce
      <4> QED
        BY <1>6, <2>2, <3>1, <3>3, <4>2 DEF import
    <3> QED
      BY <3>2, <3>3
  <2>5. worker'[w] = [at |-> "complete", job |-> JobOf(w)] => Knows(w)'
    BY <2>1, <2>4 DEF Knows, Doing
  <2> QED
    BY <1>6, <2>1, <2>5, OneMoves DEF import, LoopEnds
<1> QED
  BY <1>1, <1>2, <1>3, <1>4, <1>5, <1>6 DEF Proceeds

LEMMA WorkersKnowStep ==
    ASSUME TypeOK, WorkersKnow, RecordedOnce, [Next]_vars
    PROVE  WorkersKnow'
<1>a. Grows
  BY NextGrows
<1>1. CASE UNCHANGED <<worker, owed>>
  BY <1>1, <1>a, KnowsStill DEF WorkersKnow
<1>2. ASSUME NEW w \in Workers, NEW j \in Jobs, claim_next_job(w, j) PROVE WorkersKnow'
  BY <1>2, <1>a, KnowsNothing, OneMoves DEF claim_next_job
<1>3. ASSUME NEW w \in Workers, worker_dies(w) PROVE WorkersKnow'
  <2>1. GoesTo(w, Idle) /\ \A v \in Workers : v # w => owed'[v] = owed[v]
    BY <1>3 DEF worker_dies, ThrowsOrReturns, TypeOK
  <2> QED
    BY <1>a, <2>1, KnowsNothing, OneMoves DEF Idle
<1>4. ASSUME NEW w \in Workers, Proceeds(w) PROVE WorkersKnow'
  BY <1>4, <1>a, WorkersKnowWorker
<1> QED
  BY <1>1, <1>2, <1>3, <1>4
  DEF Next, vars, publish, authority_ends, trigger, TimePasses, LeaseExpires, BackoffElapses
-----------------------------------------------------------------------------
(* What is recorded.                                                         *)

LEMMA ImportedLines ==
    ASSUME TypeOK, NEW ref \in imported
    PROVE  ref[1] .. ref[2] \subseteq Items
<1>1. PICK first, last \in Items : ref = <<first, last>>
  BY DEF TypeOK
<1>2. ref[1] = first /\ ref[2] = last
  BY <1>1
<1> QED
  BY <1>2, LengthAssumption DEF Items

LEMMA RecordedStep ==
    ASSUME TypeOK, WorkersKnow, StatementsAreTheBanks, CompletedIsRecorded, RecordedOnce,
           [Next]_vars
    PROVE  StatementsAreTheBanks' /\ CompletedIsRecorded' /\ RecordedOnce'
<1>a. Grows /\ vouched \subseteq Items
  BY NextGrows DEF TypeOK
<1>b. UNCHANGED vouched => CompletedIsRecorded'
  BY <1>a DEF Grows, CompletedIsRecorded
<1>1. CASE UNCHANGED <<recorded, imported, vouched>>
  BY <1>1, <1>a, <1>b DEF Grows, StatementsAreTheBanks, RecordedOnce
<1>2. ASSUME NEW w \in Workers, record(w)
      PROVE  StatementsAreTheBanks' /\ CompletedIsRecorded' /\ RecordedOnce'
  <2>1. Next_item(w) \in Items /\ UNCHANGED <<imported, vouched>>
    BY <1>2, ProceedShape DEF record
  <2>2. kind # "external_sync" => \A i \in Items : recorded'[i] = 1 \/ recorded'[i] = recorded[i]
    BY <1>2, <2>1 DEF record, RowsAfter, TypeOK
  <2>3. \A ref \in imported : ref[1] .. ref[2] \subseteq Items
    BY ImportedLines
  <2>4. kind # "external_sync" =>
           /\ \A i \in Items : recorded'[i] <= 1
           /\ \A ref \in imported : \A i \in ref[1] .. ref[2] : recorded'[i] = 1
    BY <2>2, <2>3 DEF RecordedOnce
  <2> QED
    BY <1>a, <1>b, <2>1, <2>4 DEF Grows, StatementsAreTheBanks, RecordedOnce
<1>3. ASSUME NEW w \in Workers, import(w)
      PROVE  StatementsAreTheBanks' /\ CompletedIsRecorded' /\ RecordedOnce'
  <2>1. Doing(w, "import") /\ Knows(w) /\ UNCHANGED vouched
    BY <1>3 DEF import, WorkersKnow
  <2>2. PICK first, last \in Items :
           /\ Reference(worker[w].left) = <<first, last>>
           /\ Range(worker[w].left) = first .. last
    BY <2>1, ReferenceType
  <2>3. kind = Bank
    BY <2>1 DEF Knows
  <2>4. /\ imported' = imported \cup {<<first, last>>}
        /\ recorded' = [i \in Items |-> IF i \in first .. last /\ <<first, last>> \notin imported
                                        THEN 1 ELSE recorded[i]]
    BY <1>3, <2>2, <2>3 DEF import, RowsAfter, Bank
  <2>5. /\ \A i \in Items : recorded[i] <= 1
        /\ \A ref \in imported : \A i \in ref[1] .. ref[2] : recorded[i] = 1
    BY <2>3 DEF RecordedOnce, Bank
  <2>6. \A ref \in imported : ref[1] .. ref[2] \subseteq Items
    BY ImportedLines
  <2>7. /\ \A i \in Items : recorded'[i] <= 1
        /\ \A ref \in imported : \A i \in ref[1] .. ref[2] : recorded'[i] = 1
    <3>1. \A i \in Items : recorded'[i] = 1 \/ recorded'[i] = recorded[i]
      BY <2>4
    <3>2. \A i \in Items : recorded'[i] <= 1
      BY <2>5, <3>1
    <3>3. ASSUME NEW ref \in imported, NEW i \in ref[1] .. ref[2] PROVE recorded'[i] = 1
      <4>1. i \in Items /\ recorded[i] = 1
        BY <2>5, <2>6
      <4> QED
        BY <3>1, <4>1
    <3> QED
      BY <3>2, <3>3
  <2>8. \A i \in first .. last : recorded'[i] = 1
    <3>1. first .. last \subseteq Items
      BY <2>3, LengthAssumption DEF Items
    <3>2. CASE <<first, last>> \notin imported
      BY <2>4, <3>1, <3>2
    <3>3. CASE <<first, last>> \in imported
      <4>1. <<first, last>>[1] = first /\ <<first, last>>[2] = last
        OBVIOUS
      <4> QED
        BY <2>7, <3>3, <4>1
    <3> QED
      BY <3>2, <3>3
  <2>9. RecordedOnce'
    BY <2>4, <2>7, <2>8 DEF RecordedOnce
  <2> QED
    BY <1>a, <1>b, <2>1, <2>3, <2>9 DEF Grows, StatementsAreTheBanks
<1>4. ASSUME NEW w \in Workers, completeJob(w)
      PROVE  StatementsAreTheBanks' /\ CompletedIsRecorded' /\ RecordedOnce'
  <2>1. UNCHANGED <<recorded, imported>> /\ vouched' \subseteq vouched \cup owed[w]
    BY <1>4 DEF completeJob
  <2>2. \A i \in owed[w] : recorded[i] > 0
    BY <1>4 DEF completeJob, WorkersKnow, Knows
  <2> QED
    BY <1>a, <2>1, <2>2
    DEF Grows, StatementsAreTheBanks, CompletedIsRecorded, RecordedOnce
<1> QED
  BY <1>1, <1>2, <1>3, <1>4
  DEF Next, vars, publish, authority_ends, trigger, TimePasses, LeaseExpires, BackoffElapses,
      claim_next_job, worker_dies, Proceeds, poll, poll_fails, poll_throws, record_skips,
      record_throws, record_raises, record_ends, import_raises, recordJobFailure

-----------------------------------------------------------------------------
(* Who attends to the jobs in progress.                                      *)

\* A step that leaves a job's row alone, and who is at it, leaves it tended.
LEMMA TendedStill ==
    ASSUME NEW j \in Jobs, Tended(j), jobs'[j] = jobs[j],
           \A w \in Workers : ~Doing(w, "idle")' /\ JobOf(w)' = j <=> ~Doing(w, "idle") /\ JobOf(w) = j
    PROVE  Tended(j)'
BY DEF Tended

\* So does a worker that goes on within its job.
LEMMA TendedGoesOn ==
    ASSUME TypeOK, NEW j \in Jobs, Tended(j), NEW w \in Workers, ~Doing(w, "idle"),
           NEW doing, GoesTo(w, doing), doing.at # "idle", doing.job = JobOf(w), UNCHANGED jobs
    PROVE  Tended(j)'
<1>1. worker'[w] = doing /\ \A v \in Workers : v # w => worker'[v] = worker[v]
  BY DEF GoesTo, TypeOK
<1>2. \A v \in Workers : Doing(v, "idle")' = Doing(v, "idle") /\ JobOf(v)' = JobOf(v)
  BY <1>1 DEF Doing, JobOf
<1> QED
  BY <1>2, TendedStill

\* And one that lets go of another job, whatever becomes of that.
LEMMA TendedElsewhere ==
    ASSUME TypeOK, NEW j \in Jobs, Tended(j), NEW w \in Workers, ~Doing(w, "idle"),
           JobOf(w) # j, GoesTo(w, Idle), jobs'[j] = jobs[j]
    PROVE  Tended(j)'
<1>1. worker'[w].at = "idle" /\ \A v \in Workers : v # w => worker'[v] = worker[v]
  BY DEF GoesTo, TypeOK, Idle
<1>2. \A v \in Workers : ~Doing(v, "idle")' /\ JobOf(v)' = j <=> ~Doing(v, "idle") /\ JobOf(v) = j
  BY <1>1 DEF Doing, JobOf
<1> QED
  BY <1>2, TendedStill

\* A worker that lets go of this job has taken it out of progress.
LEMMA TendedLetsGo ==
    ASSUME TypeOK, NEW w \in Workers, ~Doing(w, "idle"), NEW j \in Jobs, j = JobOf(w),
           Tended(j), GoesTo(w, Idle), NEW row \in Row, jobs'[j] = row,
           row.status # "in_progress", row.status = "pending" => row.attempts < MaxAttempts
    PROVE  Tended(j)'
<1>1. worker'[w].at = "idle" /\ \A v \in Workers : v # w => worker'[v] = worker[v]
  BY DEF GoesTo, TypeOK, Idle
<1>2. \A v \in Workers : v # w => ~(~Doing(v, "idle") /\ JobOf(v) = j)
  BY DEF Tended
<1>3. \A v \in Workers : ~(~Doing(v, "idle")' /\ JobOf(v)' = j)
  BY <1>1, <1>2 DEF Doing, JobOf
<1> QED
  BY <1>3 DEF Tended

LEMMA TendedClaim ==
    ASSUME TypeOK, NEW k \in Jobs, Tended(k), NEW w \in Workers, NEW j \in Jobs,
           claim_next_job(w, j)
    PROVE  Tended(k)'
<1>1. /\ worker'[w] = [at |-> "poll", job |-> j] /\ Doing(w, "idle")
      /\ \A v \in Workers : v # w => worker'[v] = worker[v]
  BY DEF claim_next_job, GoesTo, TypeOK
<1>2. ~Doing(w, "idle")' /\ JobOf(w)' = j
  BY <1>1 DEF Doing, JobOf
<1>3. \A v \in Workers : v # w => Doing(v, "idle")' = Doing(v, "idle") /\ JobOf(v)' = JobOf(v)
  BY <1>1 DEF Doing, JobOf
<1>4. \A i \in Jobs : jobs'[i] = IF i = j THEN ClaimedRow(jobs[j], w) ELSE jobs[i]
  BY DEF claim_next_job, TypeOK
<1>5. CASE k # j
  <2>1. \A v \in Workers : ~Doing(v, "idle")' /\ JobOf(v)' = k <=> ~Doing(v, "idle") /\ JobOf(v) = k
    BY <1>1, <1>2, <1>3, <1>5
  <2> QED
    BY <1>4, <1>5, <2>1, TendedStill
<1>6. CASE k = j
  <2>1. jobs[j].status = "pending" /\ jobs[j].attempts < MaxAttempts
    BY <1>6 DEF claim_next_job, Claimable, Tended
  <2>2. \A v \in Workers : v # w => ~(~Doing(v, "idle")' /\ JobOf(v)' = j)
    BY <1>3, <1>6, <2>1 DEF Tended
  <2>3. LET row == ClaimedRow(jobs[j], w)
        IN  /\ row.status = "in_progress" /\ row.locked_by = w
            /\ row.lease = "live" /\ row.attempts < MaxAttempts
    BY <2>1 DEF ClaimedRow
  <2> QED
    BY <1>2, <1>4, <1>6, <2>2, <2>3 DEF Tended
<1> QED
  BY <1>5, <1>6

\* A worker's step, unless it throws in the loop or at this job's poll.
LEMMA TendedWorker ==
    ASSUME TypeOK, ~Trouble, NEW k \in Jobs, Tended(k), k \notin nulled',
           NEW w \in Workers, Knows(w), Proceeds(w)
    PROVE  Tended(k)'
<1>1. CASE poll(w)
  <2>1. PICK doing : /\ GoesTo(w, doing) /\ doing.at # "idle" /\ doing.job = JobOf(w)
                     /\ ~Doing(w, "idle") /\ UNCHANGED jobs
    BY <1>1 DEF poll, Doing
  <2> QED
    BY <2>1, TendedGoesOn
<1>2. CASE poll_fails(w) \/ import_raises(w) \/ record_ends(w) \/ import(w)
  <2>1. PICK doing : /\ GoesTo(w, doing) /\ doing.at # "idle" /\ doing.job = JobOf(w)
                     /\ ~Doing(w, "idle") /\ UNCHANGED jobs
    BY <1>2 DEF poll_fails, import_raises, record_ends, import, LoopEnds, Doing
  <2> QED
    BY <2>1, TendedGoesOn
<1>3. CASE record_skips(w) \/ record(w)
  <2> DEFINE doing == [worker[w] EXCEPT !.left = Tail(@)]
  <2>1. GoesTo(w, doing) /\ Doing(w, "record") /\ UNCHANGED jobs
    BY <1>3 DEF record_skips, record, Proceed, InLoop
  <2>2. doing.at = "record" /\ doing.job = JobOf(w)
    BY <2>1, WorkTypes DEF Doing, JobOf
  <2> HIDE DEF doing
  <2> QED
    BY <2>1, <2>2, TendedGoesOn DEF Doing
<1>4. CASE record_raises(w) \/ record_throws(w)
  <2>1. /\ Doing(w, "record") /\ Next_item(w) \in Range(worker[w].left)
        /\ quality[Next_item(w)] \in {"refused", "null"} \/ ~authorized
    BY <1>4, ProceedShape DEF record_raises, record_throws
  <2>2. kind # Bank /\ Range(worker[w].left) \subseteq 1 .. published
    BY <2>1 DEF Knows
  <2> QED
    BY <2>1, <2>2 DEF Trouble
<1>5. CASE poll_throws(w)
  <2>1. ~Doing(w, "idle") /\ JobOf(w) # k /\ GoesTo(w, Idle) /\ UNCHANGED jobs
    BY <1>5 DEF poll_throws, ThrowsOrReturns, Doing
  <2> QED
    BY <2>1, TendedElsewhere
<1>6. CASE recordJobFailure(w)
  <2> DEFINE j == JobOf(w)  row == FailedRow(jobs[j], jobs[j].attempts)
  <2>1. ~Doing(w, "idle") /\ j \in Jobs /\ jobs[j] \in Row /\ GoesTo(w, Idle)
    BY <1>6, WorkTypes DEF recordJobFailure, ThrowsOrReturns, Doing, TypeOK
  <2>2. jobs' = jobs \/ jobs' = [jobs EXCEPT ![j] = row]
    BY <1>6 DEF recordJobFailure
  <2>3. CASE j # k
    <3>1. jobs'[k] = jobs[k]
      BY <2>1, <2>2, <2>3 DEF TypeOK
    <3> QED
      BY <2>1, <2>3, <3>1, TendedElsewhere
  <2>4. CASE j = k
    <3>1. jobs[j].status = "in_progress" /\ jobs[j].attempts < MaxAttempts
      BY <2>1, <2>4 DEF Tended
    <3>2. ~FailureRefused(jobs[j].status) /\ jobs_attempts_check(row)
      BY <2>1, <3>1, AttemptsAssumption DEF FailureRefused, jobs_attempts_check, FailedRow, Row
    <3>3. row \in Row
      BY <2>1, <3>2, RowsType
    <3>4. row.status # "in_progress" /\ (row.status = "pending" => row.attempts < MaxAttempts)
      BY <2>1, <3>1, AttemptsAssumption DEF FailedRow, Row
    <3>5. jobs'[j] = row
      BY <1>6, <2>1, <3>2 DEF recordJobFailure, TypeOK
    <3> HIDE DEF row
    <3> QED
      BY <2>1, <2>4, <3>3, <3>4, <3>5, TendedLetsGo
  <2> QED
    BY <2>3, <2>4
<1>7. CASE completeJob(w)
  <2> DEFINE j == JobOf(w)  row == CompletedRow(jobs[j])
  <2>1. ~Doing(w, "idle") /\ j \in Jobs /\ jobs[j] \in Row /\ GoesTo(w, Idle)
    BY <1>7, WorkTypes DEF completeJob, ThrowsOrReturns, Doing, TypeOK
  <2>2. jobs' = jobs \/ jobs' = [jobs EXCEPT ![j] = row]
    BY <1>7 DEF completeJob
  <2>3. CASE j # k
    <3>1. jobs'[k] = jobs[k]
      BY <2>1, <2>2, <2>3 DEF TypeOK
    <3> QED
      BY <2>1, <2>3, <3>1, TendedElsewhere
  <2>4. CASE j = k
    <3>1. jobs[j].status = "in_progress" /\ jobs[j].locked_by = w
      BY <2>1, <2>4 DEF Tended
    <3>2. row \in Row
      BY <2>1, RowsType
    <3>3. row.status = "completed"
      BY <2>1 DEF CompletedRow, Row
    <3>4. jobs'[j] = row
      BY <1>7, <2>1, <3>1 DEF completeJob, LeaseHeldBy, TypeOK
    <3> HIDE DEF row
    <3> QED
      BY <2>1, <2>4, <3>2, <3>3, <3>4, TendedLetsGo
  <2> QED
    BY <2>3, <2>4
<1> QED
  BY <1>1, <1>2, <1>3, <1>4, <1>5, <1>6, <1>7 DEF Proceeds

LEMMA TendedTime ==
    ASSUME TypeOK, NEW k \in Jobs, Tended(k), NEW j \in Jobs, TimePasses(j), ~Trouble'
    PROVE  Tended(k)'
<1>a. UNCHANGED worker /\ jobs \in [Jobs -> Row]
  BY DEF TimePasses, LeaseExpires, BackoffElapses, TypeOK
<1>1. CASE j # k
  <2>1. jobs'[k] = jobs[k]
    BY <1>1 DEF TimePasses, LeaseExpires, BackoffElapses, TypeOK
  <2> QED
    BY <1>a, <2>1, TendedStill DEF Doing, JobOf
<1>2. CASE j = k
  <2>1. ~LeaseExpires(j)
    <3> SUFFICES ASSUME LeaseExpires(j) PROVE FALSE
      OBVIOUS
    <3>1. PICK w \in Workers : ~Doing(w, "idle") /\ JobOf(w) = j
      BY <1>2 DEF LeaseExpires, Tended
    <3>2. jobs[j].locked_by = w
      BY <1>2, <3>1 DEF Tended
    <3>3. HolderAtWork(j)
      BY <3>1, <3>2 DEF HolderAtWork
    <3>4. mishaps' = mishaps + 1 /\ mishaps \in Nat
      BY <3>3, LengthAssumption DEF LeaseExpires, TypeOK
    <3> QED
      BY <3>4 DEF Trouble
  <2>2. jobs' = [jobs EXCEPT ![j].due = TRUE]
    BY <2>1 DEF TimePasses, BackoffElapses
  <2>3. /\ jobs'[k].status = jobs[k].status
        /\ jobs'[k].locked_by = jobs[k].locked_by
        /\ jobs'[k].lease = jobs[k].lease
        /\ jobs'[k].attempts = jobs[k].attempts
    BY <1>2, <1>a, <2>2 DEF Row
  <2> QED
    BY <1>a, <2>3 DEF Tended, Doing, JobOf
<1> QED
  BY <1>1, <1>2

LEMMA AttendedStep ==
    ASSUME TypeOK, WorkersKnow, Attended, [Next]_vars
    PROVE  Attended'
<1> SUFFICES ASSUME ~Trouble', NEW k \in Jobs, k \notin nulled' PROVE Tended(k)'
  BY DEF Attended
<1>1. ~Trouble /\ Tended(k)
  BY NextGrows DEF Grows, Attended
<1>2. CASE UNCHANGED <<jobs, worker>>
  BY <1>1, <1>2, TendedStill DEF Doing, JobOf
<1>3. ASSUME NEW j \in Jobs, trigger(j) PROVE Tended(k)'
  <2>1. /\ \A i \in Jobs : jobs'[i] = IF i = j THEN EnqueuedRow ELSE jobs[i]
        /\ UNCHANGED worker /\ jobs[j].status = "absent"
    BY <1>3 DEF trigger, TypeOK
  <2>2. EnqueuedRow.status = "pending" /\ EnqueuedRow.attempts = 0 /\ 0 < MaxAttempts
    BY AttemptsAssumption DEF EnqueuedRow, AbsentRow
  <2> QED
    BY <1>1, <2>1, <2>2 DEF Tended, Doing, JobOf
<1>4. ASSUME NEW j \in Jobs, TimePasses(j) PROVE Tended(k)'
  BY <1>1, <1>4, TendedTime
<1>5. ASSUME NEW w \in Workers, NEW j \in Jobs, claim_next_job(w, j) PROVE Tended(k)'
  BY <1>1, <1>5, TendedClaim
<1>6. ASSUME NEW w \in Workers, Proceeds(w) PROVE Tended(k)'
  BY <1>1, <1>6, TendedWorker DEF WorkersKnow
<1>7. ASSUME NEW w \in Workers, worker_dies(w) PROVE Tended(k)'
  <2>1. mishaps' = mishaps + 1 /\ mishaps \in Nat
    BY <1>7, LengthAssumption DEF worker_dies, TypeOK
  <2> QED
    BY <2>1 DEF Trouble
<1> QED
  BY <1>2, <1>3, <1>4, <1>5, <1>6, <1>7 DEF Next, vars, publish, authority_ends

-----------------------------------------------------------------------------
(* The theorems.                                                             *)

LEMMA InvInit == Init => IInv
<1> SUFFICES ASSUME Init PROVE IInv
  OBVIOUS
<1>1. \A w \in Workers : worker[w].at = "idle"
  BY DEF Init, Idle
<1>2. WorkersKnow /\ Attended
  BY <1>1 DEF Init, WorkersKnow, Knows, Attended, Tended, Doing, AbsentRow
<1>3. StatementsAreTheBanks /\ CompletedIsRecorded /\ RecordedOnce
  BY DEF Init, StatementsAreTheBanks, CompletedIsRecorded, RecordedOnce
<1> QED
  BY <1>2, <1>3, TypeInit DEF IInv

LEMMA Invariance == Spec => []IInv
<1>1. IInv /\ [Next]_vars => IInv'
  BY TypeStep, WorkersKnowStep, RecordedStep, AttendedStep DEF IInv
<1> QED
  BY <1>1, InvInit, PTL DEF Spec

\* Every row satisfies the table's constraints, and a worker of the loop never
\* holds more than a page.
THEOREM SyncTypeCorrect == Spec => []TypeOK
<1>1. IInv => TypeOK
  BY DEF IInv
<1> QED
  BY <1>1, Invariance, PTL

\* A completed job has recorded everything its response obliged it to, whatever
\* died, lapsed or overlapped on the way.
THEOREM CompletedSyncIsRecorded == Spec => []CompletedIsRecorded
<1>1. IInv => CompletedIsRecorded
  BY DEF IInv
<1> QED
  BY <1>1, Invariance, PTL

\* However often a poll is executed again, an event and a statement line have
\* one row, and a statement is imported whole.
THEOREM RepeatedSyncRecordsOnce == Spec => []RecordedOnce
<1>1. IInv => RecordedOnce
  BY DEF IInv
<1> QED
  BY <1>1, Invariance, PTL

\* A job makes the claims raise only after a mishap, a null answer to a poll of its
\* own, or an item or a user that makes the loop throw: neither a failed poll nor a
\* malformed item nor a refused statement ever does.
THEOREM OnlyThrowsBlock == Spec => []BlockedByThrowsOnly
<1>1. IInv => BlockedByThrowsOnly
  <2> SUFFICES ASSUME IInv, NEW j \in Jobs, Exhausted(j), j \notin nulled PROVE Trouble
    BY DEF BlockedByThrowsOnly, Trouble, Bank
  <2>1. jobs[j].status = "in_progress" /\ jobs[j].attempts = MaxAttempts
    BY DEF Exhausted
  <2> QED
    BY <2>1, AttemptsAssumption DEF IInv, Attended, Tended
<1> QED
  BY <1>1, Invariance, PTL
==============================================================================
