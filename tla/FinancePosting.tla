--------------------------- MODULE FinancePosting ---------------------------
(***************************************************************************)
(* The general ledger's journals and the fiscal periods they are posted    *)
(* into.  A manual journal goes from draft to posted through the hands of  *)
(* a preparer and an approver; the journal of a subledger batch or of a    *)
(* correction is inserted as posted, once per source; so is a historical   *)
(* one, which asks for no open period.  A posting takes its number from    *)
(* the counter of its company.                                             *)
(*                                                                         *)
(* The posting functions are transactions of several statements, each with *)
(* its own snapshot: the period and its locks are read without a lock, the *)
(* journal's row (if manual) and the counter's row are held to the end.    *)
(* Everything else is one step.  All journals have dates in one period of  *)
(* their company.  Callers hold the permissions they need, and the current *)
(* record_version: the others are refused and change nothing.              *)
(***************************************************************************)
EXTENDS Integers

CONSTANTS
    Manual, System, Migrated,   \* journals, by source_type
    Companies, Users,
    Sessions,                   \* database sessions that post
    Scopes,                     \* lock scopes
    Governed,                   \* bound: companies whose period is ever closed or locked
    LockRows,                   \* bound: the lock rows a period ever gets, <<whose, scope>>
    NoUser

Journals == Manual \cup System \cup Migrated

ASSUME SourcesAssumption ==
    /\ Manual \cap System = {} /\ Manual \cap Migrated = {} /\ System \cap Migrated = {}
\* A row is the company's, or the tenant's where it names no company.
ASSUME ScopesAssumption == {"all", "gl"} \subseteq Scopes
                           /\ LockRows \subseteq {"company", "tenant"} \X Scopes
ASSUME CompaniesAssumption == Governed \subseteq Companies /\ NoUser \notin Users

VARIABLES
    company,        \* company[j]: company_id
    status,         \* status[j]: "absent" without a row
    number,         \* number[j]: the sequence number in journal_number, 0 if null
    submitted_by,   \* submitted_by[j]: submitted_by_auth_user_id
    approved_by,    \* approved_by[j]: who approved it (history: the code keeps a label)
    posted_by,      \* posted_by[j]: who posted it (history)
    next_seq,       \* next_seq[c]: the counter of company c and the period's year
    period,         \* period[c]: status of the fiscal period
    lock,           \* lock[c][r]: its lock row r, "none" if absent; "lapsed" is "reopened" past its window
    tx,             \* tx[t]: the posting that session t is in
    lost            \* numbers of postings that found their source posted (history)

vars == <<company, status, number, submitted_by, approved_by, posted_by, next_seq, period, lock,
          tx, lost>>
journal_vars == <<company, status, number, submitted_by, approved_by, posted_by>>

Idle == [at |-> "idle"]
LockStatus == {"none", "locked", "reopen_requested", "reopened", "lapsed"}

Posting == [at : {"resolve", "assert", "number", "write"}, journal : Journals,
            user : Users \cup {NoUser},   \* compared with others for a manual journal only
            scope : Scopes \ {"all"},
            early : SUBSET LockRows,   \* windows that were open when the transaction began
            seq : Nat,                 \* the number taken
            overtaken : BOOLEAN]       \* closed or locked after it was let pass (history)

TypeOK ==
    /\ company \in [Journals -> Companies]
    /\ status \in [Journals -> {"absent", "draft", "submitted", "approved", "posted", "void"}]
    /\ number \in [Journals -> Nat]
    /\ submitted_by \in [Journals -> Users \cup {NoUser}]
    /\ approved_by \in [Journals -> Users \cup {NoUser}]
    /\ posted_by \in [Journals -> Users \cup {NoUser}]
    /\ next_seq \in [Companies -> Nat \ {0}]
    /\ period \in [Companies -> {"open", "soft_closed", "closed"}]
    /\ lock \in [Companies -> [LockRows -> LockStatus]]
    /\ tx \in [Sessions -> {Idle} \cup Posting]
    /\ lost \subseteq Companies \X Nat

Init ==
    /\ company \in [Journals -> Companies]
    /\ status = [j \in Journals |-> "absent"]
    /\ number = [j \in Journals |-> 0]
    /\ submitted_by = [j \in Journals |-> NoUser]
    /\ approved_by = [j \in Journals |-> NoUser]
    /\ posted_by = [j \in Journals |-> NoUser]
    /\ next_seq = [c \in Companies |-> 1]
    /\ period = [c \in Companies |-> "open"]
    /\ lock = [c \in Companies |-> [r \in LockRows |-> "none"]]
    /\ tx = [t \in Sessions |-> Idle]
    /\ lost = {}

-----------------------------------------------------------------------------
(* The life of a manual journal up to its posting.                          *)

Busy(t) == tx[t].at # "idle"

\* The row of a manual journal is locked by the transaction that posts it.
RowFree(j) == \A t \in Sessions : Busy(t) => tx[t].journal # j

Becomes(j, new) == status' = [status EXCEPT ![j] = new]

create_finance_journal_draft(j) ==
    /\ status[j] = "absent"
    /\ Becomes(j, "draft")
    /\ UNCHANGED <<company, number, submitted_by, approved_by, posted_by, next_seq, period, lock,
                   tx, lost>>

submit_finance_journal_for_approval(j, u) ==
    /\ status[j] = "draft"
    /\ Becomes(j, "submitted")
    /\ submitted_by' = [submitted_by EXCEPT ![j] = u]
    /\ UNCHANGED <<company, number, approved_by, posted_by, next_seq, period, lock, tx, lost>>

discard_finance_journal_draft(j) ==
    /\ status[j] \in {"draft", "submitted"}
    /\ Becomes(j, "void")
    /\ UNCHANGED <<company, number, submitted_by, approved_by, posted_by, next_seq, period, lock,
                   tx, lost>>

approve_finance_journal(j, u) ==
    /\ status[j] = "submitted" /\ submitted_by[j] # u
    /\ Becomes(j, "approved")
    /\ approved_by' = [approved_by EXCEPT ![j] = u]
    /\ UNCHANGED <<company, number, submitted_by, posted_by, next_seq, period, lock, tx, lost>>

-----------------------------------------------------------------------------
(* The posting transactions.                                                *)

CompanyOf(t) == company[tx[t].journal]

Begins(t, at, j, u, scope) ==
    tx' = [tx EXCEPT ![t] = [at |-> at, journal |-> j, user |-> u, scope |-> scope,
                             early |-> {}, seq |-> 0, overtaken |-> FALSE]]
GoesTo(t, at) == tx' = [tx EXCEPT ![t].at = at]
Ends(t) == tx' = [tx EXCEPT ![t] = Idle]

post_finance_journal_by_anyone(t, j, u) ==
    /\ ~Busy(t) /\ RowFree(j)
    /\ status[j] = "approved"
    /\ Begins(t, "resolve", j, u, "gl")
    /\ UNCHANGED <<journal_vars, next_seq, period, lock, lost>>

post_finance_journal_without_row_lock(t, j, u) ==
    /\ ~Busy(t)
    /\ status[j] = "approved" /\ submitted_by[j] # u
    /\ Begins(t, "resolve", j, u, "gl")
    /\ UNCHANGED <<journal_vars, next_seq, period, lock, lost>>

post_finance_journal(t, j, u) ==
    /\ ~Busy(t) /\ RowFree(j)
    /\ status[j] = "approved" /\ submitted_by[j] # u
    /\ Begins(t, "resolve", j, u, "gl")
    /\ UNCHANGED <<journal_vars, next_seq, period, lock, lost>>

\* The scope is the caller's: "ar" or "ap" for a subledger batch.
create_and_post_finance_system_journal(t, j, scope) ==
    /\ ~Busy(t)
    /\ status[j] = "absent"
    /\ Begins(t, "resolve", j, NoUser, scope)
    /\ UNCHANGED <<journal_vars, next_seq, period, lock, lost>>

import_historical_finance_journal(t, j) ==
    /\ ~Busy(t)
    /\ status[j] = "absent"
    /\ Begins(t, "number", j, NoUser, "gl")
    /\ UNCHANGED <<journal_vars, next_seq, period, lock, lost>>

\* Fails, and the caller's transaction with it, unless the period is open.
resolve_finance_period_for_date(t) ==
    /\ tx[t].at = "resolve"
    /\ IF period[CompanyOf(t)] = "open" THEN GoesTo(t, "assert") ELSE Ends(t)
    /\ UNCHANGED <<journal_vars, next_seq, period, lock, lost>>

\* now() is the time at which the transaction began.
LetsPass(c, r, early) ==
    \/ lock[c][r] \in {"none", "reopened"}
    \/ lock[c][r] = "lapsed" /\ r \in early

\* The company's rows and the tenant's, of the scope and of all scopes, all count.
RowsOf_the_company(scope) == {r \in LockRows : r[1] # "tenant" /\ r[2] \in {"all", scope}}

RowsOf(scope) == {r \in LockRows : r[2] \in {"all", scope}}

Unlocked(t) == \A r \in RowsOf(tx[t].scope) : LetsPass(CompanyOf(t), r, tx[t].early)

assert_finance_period_open_for_posting(t) ==
    /\ tx[t].at = "assert"
    /\ IF Unlocked(t) THEN GoesTo(t, "number") ELSE Ends(t)
    /\ UNCHANGED <<journal_vars, next_seq, period, lock, lost>>

\* The upsert waits for the transaction that holds the counter's row.
CounterFree(c) == \A t \in Sessions : tx[t].at = "write" => CompanyOf(t) # c

takes_number_unlocked(t) ==
    LET c == CompanyOf(t) IN
    /\ tx[t].at = "number"
    /\ next_seq' = [next_seq EXCEPT ![c] = @ + 1]
    /\ tx' = [tx EXCEPT ![t].at = "write", ![t].seq = next_seq[c]]
    /\ UNCHANGED <<journal_vars, period, lock, lost>>

takes_number(t) ==
    LET c == CompanyOf(t) IN
    /\ tx[t].at = "number" /\ CounterFree(c)
    /\ next_seq' = [next_seq EXCEPT ![c] = @ + 1]
    /\ tx' = [tx EXCEPT ![t].at = "write", ![t].seq = next_seq[c]]
    /\ UNCHANGED <<journal_vars, period, lock, lost>>

\* Numbers are unique in the tenant, not in the company.
NumberTaken(t) == \E j \in Journals : status[j] = "posted" /\ number[j] = tx[t].seq
SourcePosted(t) == tx[t].journal \notin Manual /\ status[tx[t].journal] = "posted"

writes_unchecked(t) ==
    LET j == tx[t].journal IN
    /\ tx[t].at = "write" /\ ~SourcePosted(t)
    /\ Becomes(j, "posted")
    /\ number' = [number EXCEPT ![j] = tx[t].seq]
    /\ posted_by' = [posted_by EXCEPT ![j] = tx[t].user]
    /\ Ends(t)
    /\ UNCHANGED <<company, submitted_by, approved_by, next_seq, period, lock, lost>>

\* The row is written, and the transaction commits.
writes(t) ==
    LET j == tx[t].journal IN
    /\ tx[t].at = "write" /\ ~NumberTaken(t) /\ ~SourcePosted(t)
    /\ Becomes(j, "posted")
    /\ number' = [number EXCEPT ![j] = tx[t].seq]
    /\ posted_by' = [posted_by EXCEPT ![j] = tx[t].user]
    /\ Ends(t)
    /\ UNCHANGED <<company, submitted_by, approved_by, next_seq, period, lock, lost>>

\* unique_violation, caught: the other's journal is the result, and the
\* transaction commits with the counter advanced.
returns_posted(t) ==
    /\ tx[t].at = "write" /\ tx[t].journal \in System /\ SourcePosted(t)
    /\ lost' = lost \cup {<<CompanyOf(t), tx[t].seq>>}
    /\ Ends(t)
    /\ UNCHANGED <<journal_vars, next_seq, period, lock>>

\* A constraint, a later statement of the caller or a lost connection undoes
\* the transaction, and what it did to the counter.
aborts(t) ==
    /\ Busy(t)
    /\ next_seq' = IF tx[t].at = "write" THEN [next_seq EXCEPT ![CompanyOf(t)] = tx[t].seq]
                   ELSE next_seq
    /\ Ends(t)
    /\ UNCHANGED <<journal_vars, period, lock, lost>>

-----------------------------------------------------------------------------
(* The fiscal period and its locks.                                         *)

\* Postings of c that have been let pass by the steps before these are overtaken.
Overtakes(c, steps) ==
    tx' = [t \in Sessions |-> IF tx[t].at \in steps /\ CompanyOf(t) = c
                              THEN [tx[t] EXCEPT !.overtaken = TRUE] ELSE tx[t]]

PeriodMoves(c, from, to) ==
    /\ period[c] = from
    /\ period' = [period EXCEPT ![c] = to]
    /\ UNCHANGED <<journal_vars, next_seq, lock, lost>>

soft_close_finance_period(c) ==
    PeriodMoves(c, "open", "soft_closed") /\ Overtakes(c, {"assert", "number", "write"})
close_finance_period(c) == PeriodMoves(c, "soft_closed", "closed") /\ tx' = tx
reopen_finance_period(c) == PeriodMoves(c, "closed", "open") /\ tx' = tx

LockMoves(c, r, to) ==
    /\ lock' = [lock EXCEPT ![c][r] = to]
    /\ UNCHANGED <<journal_vars, next_seq, period, lost>>

\* lock_finance_period, which may also insert the lock, and relock_finance_period
lock_finance_period(c, r) ==
    /\ lock[c][r] # "locked"
    /\ LockMoves(c, r, "locked")
    /\ Overtakes(c, {"number", "write"})

request_finance_period_reopen(c, r) ==
    /\ lock[c][r] = "locked"
    /\ LockMoves(c, r, "reopen_requested") /\ tx' = tx

approve_finance_period_reopen(c, r) ==
    /\ lock[c][r] = "reopen_requested"
    /\ LockMoves(c, r, "reopened") /\ tx' = tx

\* reopen_window_expires_at passes; the transactions under way began before.
window_expires(c, r) ==
    /\ lock[c][r] = "reopened"
    /\ LockMoves(c, r, "lapsed")
    /\ tx' = [t \in Sessions |-> IF Busy(t) /\ CompanyOf(t) = c
                                 THEN [tx[t] EXCEPT !.early = @ \cup {r}, !.overtaken = TRUE]
                                 ELSE tx[t]]

-----------------------------------------------------------------------------

JournalNext ==
    \E j \in Manual : \/ create_finance_journal_draft(j) \/ discard_finance_journal_draft(j)
                      \/ \E u \in Users : \/ submit_finance_journal_for_approval(j, u)
                                          \/ approve_finance_journal(j, u)

BeginNext(t) ==
    \/ \E j \in Manual, u \in Users : post_finance_journal(t, j, u)
    \/ \E j \in System, s \in Scopes \ {"all"} : create_and_post_finance_system_journal(t, j, s)
    \/ \E j \in Migrated : import_historical_finance_journal(t, j)

PostingNext(t) ==
    \/ resolve_finance_period_for_date(t) \/ assert_finance_period_open_for_posting(t)
    \/ takes_number(t) \/ writes(t) \/ returns_posted(t) \/ aborts(t)

PeriodNext(c) ==
    \/ soft_close_finance_period(c) \/ close_finance_period(c) \/ reopen_finance_period(c)
    \/ \E r \in LockRows : \/ lock_finance_period(c, r) \/ window_expires(c, r)
                           \/ request_finance_period_reopen(c, r)
                           \/ approve_finance_period_reopen(c, r)

Next ==
    \/ JournalNext
    \/ \E t \in Sessions : BeginNext(t) \/ PostingNext(t)
    \/ \E c \in Governed : PeriodNext(c)

Spec == Init /\ [][Next]_vars

-----------------------------------------------------------------------------
(* Properties.                                                              *)

Posted(j) == status[j] = "posted"

\* No two postings of the tenant have one number, though every company counts
\* for itself.
NumbersNameOnePosting == \A i, j \in Journals : Posted(i) /\ Posted(j) /\ number[i] = number[j] => i = j

\* The numbers a company has counted are all in its books, but for the one of
\* a posting under way and those lost to a source posted twice at a time; no
\* number in its books is handed out again.
NumbersAreAccountedFor ==
    \A c \in Companies :
        /\ \A n \in 1 .. next_seq[c] - 1 :
               \/ \E j \in Journals : Posted(j) /\ company[j] = c /\ number[j] = n
               \/ \E t \in Sessions : tx[t].at = "write" /\ CompanyOf(t) = c /\ tx[t].seq = n
               \/ <<c, n>> \in lost
        /\ \A j \in Journals : Posted(j) /\ company[j] = c =>
               /\ number[j] \in 1 .. next_seq[c] - 1
               /\ \A t \in Sessions : tx[t].at = "write" /\ CompanyOf(t) = c => tx[t].seq # number[j]

\* "the preparer may not reach posted status either": whoever submits a manual
\* journal is neither who approves it nor who posts it, and it is posted only
\* after both.
MakerIsNotChecker ==
    \A j \in Manual : Posted(j) => /\ submitted_by[j] \in Users
                                   /\ approved_by[j] \in Users \ {submitted_by[j]}
                                   /\ posted_by[j] \in Users \ {submitted_by[j]}

\* The books of c are open for scope: "treats an expired window as still-locked".
OpenFor(c, scope) == /\ period[c] = "open"
                     /\ \A r \in LockRows : r[2] \in {"all", scope} =>
                            lock[c][r] \in {"none", "reopened"}

\* Journals are posted into an open period and past its locks, imports of
\* history excepted, and those that had been let pass when it was closed or
\* locked, or had begun when its window ended.
GuardedPostings ==
    [][\A t \in Sessions :
           writes(t) /\ tx[t].journal \notin Migrated =>
               OpenFor(CompanyOf(t), tx[t].scope) \/ tx[t].overtaken]_vars

\* A posted journal is posted once: its number, and who posted it, stand.
\* (It shows in PostsAtOnce, and is proved by itself.)
PostedStands ==
    [][\A j \in Journals : Posted(j) => Posted(j)' /\ number'[j] = number[j]
                                        /\ posted_by'[j] = posted_by[j]]_vars

\* The counter of c as other transactions see it: without the number of a
\* posting that has not committed.
Committed(c) == IF CounterFree(c) THEN next_seq[c] ELSE next_seq[c] - 1

Books == INSTANCE Ledger WITH counted <- [c \in Companies |-> Committed(c)]

\* Whatever the statements of the posting transactions interleave with, an
\* observer sees postings that happen at once, each with the next number, in
\* the hands it was approved for, and with no trace of those that abort.
PostsAtOnce == Books!Spec
===============================================================================
