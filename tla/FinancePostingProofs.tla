------------------------- MODULE FinancePostingProofs -------------------------
(***************************************************************************)
(* For any journals, companies, users, sessions and lock scopes: numbers   *)
(* are unique and accounted for, makers are not checkers, postings are     *)
(* guarded by the period and its locks, and stand; and the posting         *)
(* transactions implement a ledger in which a posting is one step.         *)
(***************************************************************************)
EXTENDS FinancePosting, TLAPS

\* The row lock: a manual journal is posted by one session, and stays approved.
RowHeld ==
    /\ \A t \in Sessions : Busy(t) /\ tx[t].journal \in Manual =>
           /\ status[tx[t].journal] = "approved"
           /\ tx[t].user \in Users \ {submitted_by[tx[t].journal]}
    /\ \A t, v \in Sessions : t # v /\ Busy(t) /\ Busy(v) /\ tx[t].journal \in Manual =>
           tx[t].journal # tx[v].journal

\* The hands a manual journal has been through.
Hands ==
    \A j \in Manual :
        /\ status[j] \in {"submitted", "approved", "posted"} => submitted_by[j] \in Users
        /\ status[j] \in {"approved", "posted"} => approved_by[j] \in Users \ {submitted_by[j]}
        /\ status[j] = "posted" => posted_by[j] \in Users \ {submitted_by[j]}

\* The counter's row lock: whoever has taken a number took the last one.
CounterHeld ==
    /\ \A t \in Sessions : tx[t].at = "write" =>
           tx[t].seq # 0 /\ next_seq[CompanyOf(t)] = tx[t].seq + 1
    /\ \A t, v \in Sessions : t # v /\ tx[t].at = "write" /\ tx[v].at = "write" =>
           CompanyOf(t) # CompanyOf(v)

\* What has been let pass still may, unless it has been overtaken.
LetPass ==
    \A t \in Sessions :
        /\ Busy(t) /\ tx[t].early # {} => tx[t].overtaken
        /\ tx[t].at \in {"assert", "number", "write"} /\ tx[t].journal \notin Migrated =>
               period[CompanyOf(t)] = "open" \/ tx[t].overtaken
        /\ tx[t].at \in {"number", "write"} /\ tx[t].journal \notin Migrated =>
               OpenFor(CompanyOf(t), tx[t].scope) \/ tx[t].overtaken

IInv == TypeOK /\ RowHeld /\ Hands /\ CounterHeld /\ LetPass /\ NumbersNameOnePosting
               /\ NumbersAreAccountedFor

LEMMA TxTypes ==
    ASSUME TypeOK, NEW t \in Sessions
    PROVE  /\ ~Busy(t) => tx[t] = Idle
           /\ Busy(t) => tx[t] \in Posting /\ tx[t].journal \in Journals /\ tx[t].seq \in Nat
                         /\ CompanyOf(t) \in Companies
           /\ tx[t].at \in {"resolve", "assert", "number", "write"} => Busy(t)
BY DEF TypeOK, Posting, Idle, Busy, CompanyOf

LEMMA InitHolds == Init => IInv
<1> SUFFICES ASSUME Init PROVE IInv
  OBVIOUS
<1>1. TypeOK
  BY DEF Init, TypeOK, LockStatus
<1>2. \A t \in Sessions : ~Busy(t) /\ tx[t].at = "idle"
  BY DEF Init, Busy, Idle
<1>3. \A j \in Journals : status[j] = "absent"
  BY DEF Init
<1>4. RowHeld /\ Hands /\ CounterHeld /\ LetPass
  BY <1>2, <1>3 DEF RowHeld, Hands, CounterHeld, LetPass, Journals
<1>5. NumbersNameOnePosting
  BY <1>3 DEF NumbersNameOnePosting, Posted
<1>6. NumbersAreAccountedFor
  <2>1. \A c \in Companies : next_seq[c] = 1
    BY DEF Init
  <2>2. \A c \in Companies : 1 .. next_seq[c] - 1 = {}
    BY <2>1
  <2> QED BY <2>2, <1>3 DEF NumbersAreAccountedFor, Posted
<1> QED BY <1>1, <1>4, <1>5, <1>6 DEF IInv

\* A step that leaves the sessions and the numbers alone, and does not touch
\* posted journals or those being posted, keeps the books as they were.
LEMMA BooksKept ==
    ASSUME NumbersNameOnePosting, NumbersAreAccountedFor,
           UNCHANGED <<company, number, next_seq, lost>>,
           \A j \in Journals : Posted(j)' <=> Posted(j),
           \A t \in Sessions : tx'[t].at = "write" <=> tx[t].at = "write",
           \A t \in Sessions : tx[t].at = "write" =>
               tx'[t].journal = tx[t].journal /\ tx'[t].seq = tx[t].seq
    PROVE  NumbersNameOnePosting' /\ NumbersAreAccountedFor'
<1>1. NumbersNameOnePosting'
  BY DEF NumbersNameOnePosting
<1>2. ASSUME NEW c \in Companies
      PROVE  /\ \A n \in 1 .. next_seq'[c] - 1 :
                   \/ \E j \in Journals : Posted(j)' /\ company'[j] = c /\ number'[j] = n
                   \/ \E t \in Sessions : tx'[t].at = "write" /\ CompanyOf(t)' = c /\ tx'[t].seq = n
                   \/ <<c, n>> \in lost'
             /\ \A j \in Journals : Posted(j)' /\ company'[j] = c =>
                   /\ number'[j] \in 1 .. next_seq'[c] - 1
                   /\ \A t \in Sessions : tx'[t].at = "write" /\ CompanyOf(t)' = c =>
                          tx'[t].seq # number'[j]
  <2>1. \A t \in Sessions : tx[t].at = "write" => CompanyOf(t)' = CompanyOf(t)
    BY DEF CompanyOf
  <2> QED BY <2>1 DEF NumbersAreAccountedFor
<1> QED BY <1>1, <1>2 DEF NumbersAreAccountedFor

-----------------------------------------------------------------------------
(* The life of a manual journal up to its posting.                          *)

\* A manual journal that is not approved changes hands, no session posting it.
LEMMA HandsChange ==
    ASSUME IInv, NEW j \in Manual, status[j] \notin {"approved", "posted"},
           NEW new \in {"draft", "submitted", "approved", "void"}, Becomes(j, new),
           UNCHANGED <<company, number, posted_by, next_seq, period, lock, tx, lost>>,
           \A i \in Journals : i # j => submitted_by'[i] = submitted_by[i]
    PROVE  (RowHeld /\ CounterHeld /\ LetPass /\ NumbersNameOnePosting /\ NumbersAreAccountedFor)'
<1>1. j \in Journals /\ \A i \in Journals : i # j => status'[i] = status[i]
  BY DEF Becomes, IInv, TypeOK, Journals
<1>2. status'[j] = new
  BY <1>1 DEF Becomes, IInv, TypeOK
<1>3. \A i \in Journals : Posted(i)' <=> Posted(i)
  BY <1>1, <1>2 DEF Posted
<1>4. NumbersNameOnePosting' /\ NumbersAreAccountedFor'
  BY <1>3, BooksKept DEF IInv
<1>5. \A t \in Sessions : Busy(t) => tx[t].journal # j
  BY DEF IInv, RowHeld
<1>6. RowHeld'
  <2>1. \A t \in Sessions : Busy(t)' <=> Busy(t)
    BY DEF Busy
  <2>2. \A t \in Sessions : Busy(t) => tx[t].journal \in Journals
    BY TxTypes DEF IInv
  <2> QED BY <1>1, <1>5, <2>1, <2>2 DEF IInv, RowHeld
<1>7. CounterHeld' /\ LetPass'
  BY DEF IInv, CounterHeld, LetPass, CompanyOf, OpenFor, Busy
<1> QED BY <1>4, <1>6, <1>7

LEMMA JournalSteps ==
    ASSUME IInv, JournalNext
    PROVE  IInv'
<1>1. PICK j \in Manual :
          \/ create_finance_journal_draft(j) \/ discard_finance_journal_draft(j)
          \/ \E u \in Users : \/ submit_finance_journal_for_approval(j, u)
                              \/ approve_finance_journal(j, u)
  BY DEF JournalNext
<1>0. j \in Journals /\ TypeOK
  BY DEF Journals, IInv
<1>2. CASE create_finance_journal_draft(j)
  <2>1. TypeOK'
    BY <1>0, <1>2 DEF TypeOK, create_finance_journal_draft, Becomes, CompanyOf
  <2>2. Hands'
    BY <1>0, <1>2 DEF IInv, Hands, TypeOK, create_finance_journal_draft, Becomes, Journals
  <2> QED BY <1>2, <2>1, <2>2, HandsChange DEF create_finance_journal_draft, IInv
<1>3. CASE discard_finance_journal_draft(j)
  <2>1. TypeOK'
    BY <1>0, <1>3 DEF TypeOK, discard_finance_journal_draft, Becomes
  <2>2. Hands'
    BY <1>0, <1>3 DEF IInv, Hands, TypeOK, discard_finance_journal_draft, Becomes, Journals
  <2> QED BY <1>3, <2>1, <2>2, HandsChange DEF discard_finance_journal_draft, IInv
<1>4. ASSUME NEW u \in Users, submit_finance_journal_for_approval(j, u)
      PROVE  IInv'
  <2>1. TypeOK'
    BY <1>0, <1>4 DEF TypeOK, submit_finance_journal_for_approval, Becomes
  <2>2. Hands'
    BY <1>0, <1>4 DEF IInv, Hands, TypeOK, submit_finance_journal_for_approval, Becomes, Journals
  <2>3. \A i \in Journals : i # j => submitted_by'[i] = submitted_by[i]
    BY <1>0, <1>4 DEF submit_finance_journal_for_approval, TypeOK
  <2> QED BY <1>4, <2>1, <2>2, <2>3, HandsChange DEF submit_finance_journal_for_approval, IInv
<1>5. ASSUME NEW u \in Users, approve_finance_journal(j, u)
      PROVE  IInv'
  <2>1. TypeOK'
    BY <1>0, <1>5 DEF TypeOK, approve_finance_journal, Becomes
  <2>2. Hands'
    BY <1>0, <1>5 DEF IInv, Hands, TypeOK, approve_finance_journal, Becomes, Journals
  <2> QED BY <1>5, <2>1, <2>2, HandsChange DEF approve_finance_journal, IInv
<1> QED BY <1>1, <1>2, <1>3, <1>4, <1>5

-----------------------------------------------------------------------------
(* The posting transactions, up to the number.                              *)

LEMMA Beginnings ==
    ASSUME IInv, NEW t \in Sessions, BeginNext(t)
    PROVE  IInv'
<1> USE DEF IInv
<1> DEFINE Begun(j, u, s, at) ==
               /\ ~Busy(t) /\ Begins(t, at, j, u, s)
               /\ j \in Manual =>
                      RowFree(j) /\ status[j] = "approved" /\ u \in Users \ {submitted_by[j]}
               /\ at = "number" => j \in Migrated
               /\ UNCHANGED <<journal_vars, next_seq, period, lock, lost>>
<1>1. PICK j \in Journals, u \in Users \cup {NoUser}, s \in Scopes \ {"all"},
           at \in {"resolve", "number"} : Begun(j, u, s, at)
  <2>1. "gl" \in Scopes \ {"all"}
    BY ScopesAssumption
  <2>2. ASSUME NEW j \in Manual, NEW u \in Users, post_finance_journal(t, j, u)
        PROVE  j \in Journals /\ Begun(j, u, "gl", "resolve")
    BY <2>2 DEF post_finance_journal, Journals
  <2>3. ASSUME NEW j \in System, NEW s \in Scopes \ {"all"},
               create_and_post_finance_system_journal(t, j, s)
        PROVE  j \in Journals /\ Begun(j, NoUser, s, "resolve")
    BY <2>3, SourcesAssumption DEF create_and_post_finance_system_journal, Journals
  <2>4. ASSUME NEW j \in Migrated, import_historical_finance_journal(t, j)
        PROVE  j \in Journals /\ Begun(j, NoUser, "gl", "number")
    BY <2>4, SourcesAssumption DEF import_historical_finance_journal, Journals
  <2> HIDE DEF Begun
  <2> QED BY <2>1, <2>2, <2>3, <2>4 DEF BeginNext
<1> DEFINE new == [at |-> at, journal |-> j, user |-> u, scope |-> s,
                   early |-> {}, seq |-> 0, overtaken |-> FALSE]
<1>2. tx' = [tx EXCEPT ![t] = new]
  BY <1>1 DEF Begins
<1>3. tx'[t] = new /\ \A v \in Sessions : v # t => tx'[v] = tx[v]
  BY <1>2 DEF TypeOK
<1>4. TypeOK'
  <2>1. new \in Posting
    BY DEF Posting
  <2> QED BY <1>1, <1>2, <2>1 DEF TypeOK, journal_vars
<1>5. \A v \in Sessions : tx'[v].at = "write" <=> tx[v].at = "write"
  BY <1>1, <1>3 DEF Busy
<1>6. \A v \in Sessions : tx[v].at = "write" => v # t
  BY <1>1 DEF Busy
<1>7. NumbersNameOnePosting' /\ NumbersAreAccountedFor'
  BY <1>1, <1>3, <1>5, <1>6, BooksKept DEF journal_vars, Posted
<1>8. CounterHeld'
  BY <1>1, <1>3, <1>5, <1>6 DEF CounterHeld, CompanyOf, journal_vars
<1>9. RowHeld'
  <2>1. \A v \in Sessions : v # t => (Busy(v)' <=> Busy(v))
    BY <1>3 DEF Busy
  <2> QED BY <1>1, <1>3, <2>1 DEF RowHeld, RowFree, journal_vars
<1>10. Hands'
  BY <1>1 DEF Hands, journal_vars
<1>11. LetPass'
  BY <1>1, <1>3 DEF LetPass, CompanyOf, OpenFor, Busy, journal_vars
<1> QED BY <1>4, <1>7, <1>8, <1>9, <1>10, <1>11

\* A session ends without a trace, or goes on to its next read.
LEMMA ReadSteps ==
    ASSUME IInv, NEW t \in Sessions,
           resolve_finance_period_for_date(t) \/ assert_finance_period_open_for_posting(t)
    PROVE  IInv'
<1> USE DEF IInv
<1>1. Busy(t) /\ tx[t].at \in {"resolve", "assert"} /\ tx[t] \in Posting
      /\ UNCHANGED <<journal_vars, next_seq, period, lock, lost>>
  BY TxTypes DEF resolve_finance_period_for_date, assert_finance_period_open_for_posting
<1>2. PICK new : /\ tx' = [tx EXCEPT ![t] = new]
                 /\ \/ new = Idle
                    \/ /\ tx[t].at = "resolve" /\ new = [tx[t] EXCEPT !.at = "assert"]
                       /\ period[CompanyOf(t)] = "open"
                    \/ /\ tx[t].at = "assert" /\ new = [tx[t] EXCEPT !.at = "number"]
                       /\ Unlocked(t)
  BY DEF resolve_finance_period_for_date, assert_finance_period_open_for_posting, GoesTo, Ends
<1>3. tx'[t] = new /\ \A v \in Sessions : v # t => tx'[v] = tx[v]
  BY <1>2 DEF TypeOK
<1>4. new = Idle \/ /\ new \in Posting /\ new.at \in {"assert", "number"}
                    /\ new.journal = tx[t].journal /\ new.user = tx[t].user
                    /\ new.scope = tx[t].scope /\ new.early = tx[t].early
                    /\ new.overtaken = tx[t].overtaken
  BY <1>1, <1>2 DEF Posting
<1>5. TypeOK'
  BY <1>1, <1>2, <1>4 DEF TypeOK, journal_vars
<1>6. new.at # "write" /\ tx[t].at # "write"
  BY <1>1, <1>4 DEF Idle
<1>7. NumbersNameOnePosting' /\ NumbersAreAccountedFor'
  BY <1>1, <1>3, <1>6, BooksKept DEF journal_vars, Posted
<1>8. CounterHeld'
  BY <1>1, <1>3, <1>6 DEF CounterHeld, CompanyOf, journal_vars
<1>9. RowHeld' /\ Hands'
  <2>1. \A v \in Sessions : Busy(v)' => Busy(v) /\ tx'[v].journal = tx[v].journal
                                                /\ tx'[v].user = tx[v].user
    BY <1>1, <1>3, <1>4 DEF Busy, Idle
  <2> QED BY <1>1, <2>1 DEF RowHeld, Hands, journal_vars
<1>10. LetPass'
  <2>1. \A v \in Sessions : v # t =>
            /\ Busy(v)' = Busy(v) /\ CompanyOf(v)' = CompanyOf(v)
            /\ \A s : OpenFor(CompanyOf(v), s)' = OpenFor(CompanyOf(v), s)
    BY <1>1, <1>3 DEF Busy, CompanyOf, OpenFor, journal_vars
  <2>2. new = Idle \/ CompanyOf(t)' = CompanyOf(t)
    BY <1>1, <1>3, <1>4 DEF CompanyOf, journal_vars
  <2>3. tx[t].at = "assert" /\ Unlocked(t) /\ tx[t].journal \notin Migrated =>
            OpenFor(CompanyOf(t), tx[t].scope) \/ tx[t].overtaken
    <3> SUFFICES ASSUME tx[t].at = "assert", Unlocked(t), tx[t].journal \notin Migrated,
                        ~tx[t].overtaken
                 PROVE  OpenFor(CompanyOf(t), tx[t].scope)
      BY <1>1 DEF Posting
    <3>1. period[CompanyOf(t)] = "open" /\ tx[t].early = {}
      BY <1>1 DEF LetPass
    <3> QED BY <3>1 DEF OpenFor, Unlocked, LetsPass, RowsOf
  <2>4. new = Idle \/ OpenFor(CompanyOf(t), tx[t].scope)' = OpenFor(CompanyOf(t), tx[t].scope)
    BY <1>1, <1>3, <1>4, <2>2 DEF OpenFor
  <2> QED BY <1>1, <1>2, <1>3, <1>4, <2>1, <2>2, <2>3, <2>4 DEF LetPass, Busy, Idle, Posting
<1> QED BY <1>5, <1>7, <1>8, <1>9, <1>10

-----------------------------------------------------------------------------
(* The posting transactions, from the number to the end.                    *)

LEMMA NumberStep ==
    ASSUME IInv, NEW t \in Sessions, takes_number(t)
    PROVE  IInv'
<1> USE DEF IInv
<1> DEFINE c == CompanyOf(t)
           new == [tx[t] EXCEPT !.at = "write", !.seq = next_seq[c]]
<1>1. /\ tx[t].at = "number" /\ Busy(t) /\ tx[t] \in Posting /\ c \in Companies
      /\ next_seq[c] \in Nat \ {0} /\ CounterFree(c)
      /\ UNCHANGED <<journal_vars, period, lock, lost>>
  BY TxTypes DEF takes_number, TypeOK
<1>2. tx' = [tx EXCEPT ![t] = new] /\ next_seq' = [next_seq EXCEPT ![c] = @ + 1]
  BY DEF takes_number, TypeOK
<1>3. tx'[t] = new /\ \A v \in Sessions : v # t => tx'[v] = tx[v]
  BY <1>2 DEF TypeOK
<1>4. /\ new \in Posting /\ new.at = "write" /\ new.seq = next_seq[c] /\ new.scope = tx[t].scope
      /\ new.journal = tx[t].journal /\ new.user = tx[t].user /\ new.early = tx[t].early
      /\ new.overtaken = tx[t].overtaken
  BY <1>1 DEF Posting
<1>5. next_seq'[c] = next_seq[c] + 1 /\ \A d \in Companies : d # c => next_seq'[d] = next_seq[d]
  BY <1>1, <1>2 DEF TypeOK
<1> HIDE DEF new
<1>6. TypeOK'
  BY <1>1, <1>2, <1>4 DEF TypeOK, journal_vars
<1>7. \A v \in Sessions : CompanyOf(v)' = CompanyOf(v)
  BY <1>1, <1>3, <1>4 DEF CompanyOf, journal_vars
<1>8. \A v \in Sessions : v # t /\ tx'[v].at = "write" => CompanyOf(v) # c
  BY <1>1, <1>3 DEF CounterFree
<1>9. \A v \in Sessions : tx[v].at = "write" => CompanyOf(v) \in Companies
  BY TxTypes
<1>10. CounterHeld'
  BY <1>1, <1>3, <1>4, <1>5, <1>7, <1>8, <1>9 DEF CounterHeld
<1>11. RowHeld' /\ Hands'
  <2>1. \A v \in Sessions : (Busy(v)' => Busy(v)) /\ tx'[v].journal = tx[v].journal
                                                  /\ tx'[v].user = tx[v].user
    BY <1>1, <1>3, <1>4 DEF Busy
  <2> QED BY <1>1, <2>1 DEF RowHeld, Hands, journal_vars
<1>12. LetPass'
  <2>1. \A v \in Sessions : /\ (Busy(v)' => Busy(v)) /\ tx'[v].journal = tx[v].journal
                            /\ tx'[v].early = tx[v].early /\ tx'[v].scope = tx[v].scope
                            /\ tx'[v].overtaken = tx[v].overtaken
                            /\ tx'[v].at \in {"number", "write"} => tx[v].at \in {"number", "write"}
                            /\ tx'[v].at = "assert" => tx[v].at = "assert"
    BY <1>1, <1>3, <1>4 DEF Busy
  <2> QED BY <1>1, <1>7, <2>1 DEF LetPass, OpenFor, journal_vars
<1>13. NumbersNameOnePosting'
  BY <1>1 DEF NumbersNameOnePosting, Posted, journal_vars
<1>14. NumbersAreAccountedFor'
  <2> SUFFICES ASSUME NEW d \in Companies
               PROVE  /\ \A n \in 1 .. next_seq'[d] - 1 :
                            \/ \E j \in Journals : Posted(j) /\ company[j] = d /\ number[j] = n
                            \/ \E v \in Sessions :
                                   tx'[v].at = "write" /\ CompanyOf(v) = d /\ tx'[v].seq = n
                            \/ <<d, n>> \in lost
                      /\ \A j \in Journals : Posted(j) /\ company[j] = d =>
                            /\ number[j] \in 1 .. next_seq'[d] - 1
                            /\ \A v \in Sessions : tx'[v].at = "write" /\ CompanyOf(v) = d =>
                                   tx'[v].seq # number[j]
    BY <1>1, <1>7 DEF NumbersAreAccountedFor, Posted, journal_vars
  <2>1. next_seq[d] \in Nat \ {0}
    BY DEF TypeOK
  <2>2. ASSUME NEW n \in 1 .. next_seq'[d] - 1
        PROVE  \/ \E j \in Journals : Posted(j) /\ company[j] = d /\ number[j] = n
               \/ \E v \in Sessions : tx'[v].at = "write" /\ CompanyOf(v) = d /\ tx'[v].seq = n
               \/ <<d, n>> \in lost
    <3>1. CASE d = c /\ n = next_seq[c]
      BY <1>3, <1>4, <3>1
    <3>2. CASE ~(d = c /\ n = next_seq[c])
      <4>1. n \in 1 .. next_seq[d] - 1
        BY <1>5, <2>1, <3>2
      <4>2. \A v \in Sessions : tx[v].at = "write" => tx'[v] = tx[v]
        BY <1>1, <1>3
      <4> QED BY <4>1, <4>2 DEF NumbersAreAccountedFor
    <3> QED BY <3>1, <3>2
  <2>3. ASSUME NEW j \in Journals, Posted(j), company[j] = d
        PROVE  /\ number[j] \in 1 .. next_seq'[d] - 1
               /\ \A v \in Sessions : tx'[v].at = "write" /\ CompanyOf(v) = d =>
                      tx'[v].seq # number[j]
    <3>1. number[j] \in 1 .. next_seq[d] - 1
      BY <2>3 DEF NumbersAreAccountedFor
    <3>2. number[j] \in 1 .. next_seq'[d] - 1
      BY <1>5, <2>1, <3>1
    <3>3. ASSUME NEW v \in Sessions, tx'[v].at = "write", CompanyOf(v) = d
          PROVE  tx'[v].seq # number[j]
      <4>1. CASE v = t
        BY <1>3, <1>4, <2>1, <3>1, <3>3, <4>1
      <4>2. CASE v # t
        BY <1>3, <2>3, <3>3, <4>2 DEF NumbersAreAccountedFor
      <4> QED BY <4>1, <4>2
    <3> QED BY <3>2, <3>3
  <2> QED BY <2>2, <2>3
<1> QED BY <1>6, <1>10, <1>11, <1>12, <1>13, <1>14

\* What the end of a session leaves of the parts that speak of sessions and hands
LEMMA Ending ==
    ASSUME IInv, NEW t \in Sessions, Ends(t), UNCHANGED <<company, period, lock>>
    PROVE  /\ tx'[t] = Idle /\ ~Busy(t)' /\ tx'[t].at = "idle"
           /\ \A v \in Sessions : v # t => tx'[v] = tx[v] /\ CompanyOf(v)' = CompanyOf(v)
           /\ tx' \in [Sessions -> {Idle} \cup Posting]
           /\ LetPass'
<1> USE DEF IInv
<1>1. tx'[t] = Idle /\ \A v \in Sessions : v # t => tx'[v] = tx[v]
  BY DEF Ends, TypeOK
<1>2. tx' \in [Sessions -> {Idle} \cup Posting]
  BY DEF Ends, TypeOK
<1>3. ~Busy(t)' /\ tx'[t].at = "idle"
  BY <1>1 DEF Busy, Idle
<1>4. \A v \in Sessions : v # t => CompanyOf(v)' = CompanyOf(v) /\ Busy(v)' = Busy(v)
  BY <1>1 DEF CompanyOf, Busy
<1>5. LetPass'
  BY <1>1, <1>3, <1>4 DEF LetPass, OpenFor
<1> QED BY <1>1, <1>2, <1>3, <1>4, <1>5

LEMMA WriteStep ==
    ASSUME IInv, NEW t \in Sessions, writes(t)
    PROVE  IInv' /\ ~Posted(tx[t].journal)
<1> USE DEF IInv
<1> DEFINE j == tx[t].journal
           c == CompanyOf(t)
<1>1. /\ tx[t].at = "write" /\ Busy(t) /\ tx[t] \in Posting /\ c \in Companies /\ j \in Journals
      /\ tx[t].seq \in Nat
  BY TxTypes DEF writes
<1>2. /\ Becomes(j, "posted") /\ number' = [number EXCEPT ![j] = tx[t].seq]
      /\ posted_by' = [posted_by EXCEPT ![j] = tx[t].user] /\ Ends(t)
      /\ UNCHANGED <<company, submitted_by, approved_by, next_seq, period, lock, lost>>
      /\ ~NumberTaken(t) /\ ~SourcePosted(t)
  BY DEF writes
<1>3. /\ status'[j] = "posted" /\ number'[j] = tx[t].seq /\ posted_by'[j] = tx[t].user
      /\ \A i \in Journals : i # j => status'[i] = status[i] /\ number'[i] = number[i]
                                                              /\ posted_by'[i] = posted_by[i]
  BY <1>1, <1>2 DEF Becomes, TypeOK
<1>4. ~Posted(j)
  BY <1>1, <1>2 DEF SourcePosted, RowHeld, Posted
<1>5. /\ tx'[t] = Idle /\ ~Busy(t)' /\ tx'[t].at = "idle"
      /\ \A v \in Sessions : v # t => tx'[v] = tx[v] /\ CompanyOf(v)' = CompanyOf(v)
      /\ tx' \in [Sessions -> {Idle} \cup Posting]
      /\ LetPass'
  BY <1>2, Ending
<1>6. TypeOK'
  BY <1>1, <1>2, <1>5 DEF TypeOK, Becomes, Posting
<1>7. CounterHeld'
  BY <1>2, <1>5 DEF CounterHeld
<1>8. RowHeld'
  <2>1. \A v \in Sessions : Busy(v)' => v # t /\ Busy(v) /\ tx[v].journal \in Journals
    BY <1>5, TxTypes DEF Busy
  <2>2. \A v \in Sessions : v # t /\ Busy(v) /\ tx[v].journal \in Manual => tx[v].journal # j
    BY <1>1 DEF RowHeld
  <2> QED BY <1>2, <1>3, <1>5, <2>1, <2>2 DEF RowHeld
<1>9. Hands'
  <2>1. j \in Manual => status[j] = "approved" /\ tx[t].user \in Users \ {submitted_by[j]}
    BY <1>1 DEF RowHeld
  <2>2. \A i \in Manual : i \in Journals
    BY DEF Journals
  <2> QED BY <1>2, <1>3, <2>1, <2>2 DEF Hands
<1>10. NumbersNameOnePosting'
  BY <1>2, <1>3 DEF NumbersNameOnePosting, NumberTaken, Posted
<1>11. NumbersAreAccountedFor'
  <2> SUFFICES ASSUME NEW d \in Companies
               PROVE  /\ \A n \in 1 .. next_seq[d] - 1 :
                            \/ \E i \in Journals : Posted(i)' /\ company[i] = d /\ number'[i] = n
                            \/ \E v \in Sessions :
                                   tx'[v].at = "write" /\ CompanyOf(v)' = d /\ tx'[v].seq = n
                            \/ <<d, n>> \in lost
                      /\ \A i \in Journals : Posted(i)' /\ company[i] = d =>
                            /\ number'[i] \in 1 .. next_seq[d] - 1
                            /\ \A v \in Sessions : tx'[v].at = "write" /\ CompanyOf(v)' = d =>
                                   tx'[v].seq # number'[i]
    BY <1>2 DEF NumbersAreAccountedFor
  <2>1. \A i \in Journals : Posted(i)' <=> i = j \/ Posted(i)
    BY <1>3 DEF Posted
  <2>2. ASSUME NEW n \in 1 .. next_seq[d] - 1
        PROVE  \/ \E i \in Journals : Posted(i)' /\ company[i] = d /\ number'[i] = n
               \/ \E v \in Sessions : tx'[v].at = "write" /\ CompanyOf(v)' = d /\ tx'[v].seq = n
               \/ <<d, n>> \in lost
    <3>1. CASE \E i \in Journals : Posted(i) /\ company[i] = d /\ number[i] = n
      BY <1>3, <1>4, <2>1, <3>1
    <3>2. ASSUME NEW v \in Sessions, tx[v].at = "write", CompanyOf(v) = d, tx[v].seq = n
          PROVE  \/ \E i \in Journals : Posted(i)' /\ company[i] = d /\ number'[i] = n
                 \/ \E u \in Sessions :
                        tx'[u].at = "write" /\ CompanyOf(u)' = d /\ tx'[u].seq = n
      <4>1. CASE v = t
        BY <1>1, <1>3, <2>1, <3>2, <4>1 DEF CompanyOf
      <4>2. CASE v # t
        BY <1>5, <3>2, <4>2
      <4> QED BY <4>1, <4>2
    <3> QED BY <3>1, <3>2 DEF NumbersAreAccountedFor
  <2>3. ASSUME NEW i \in Journals, Posted(i)', company[i] = d
        PROVE  /\ number'[i] \in 1 .. next_seq[d] - 1
               /\ \A v \in Sessions : tx'[v].at = "write" /\ CompanyOf(v)' = d =>
                      tx'[v].seq # number'[i]
    <3>1. CASE i = j
      <4>1. d = c /\ next_seq[d] \in Nat
        BY <2>3, <3>1 DEF CompanyOf, TypeOK
      <4>2. tx[t].seq # 0 /\ next_seq[d] = tx[t].seq + 1
        BY <1>1, <4>1 DEF CounterHeld
      <4>3. tx[t].seq \in 1 .. next_seq[d] - 1
        BY <1>1, <4>2
      <4>4. \A v \in Sessions : tx'[v].at = "write" => CompanyOf(v)' # d
        BY <1>1, <1>5, <4>1 DEF CounterHeld
      <4> QED BY <1>3, <3>1, <4>3, <4>4
    <3>2. CASE i # j
      BY <1>3, <1>5, <2>1, <2>3, <3>2 DEF NumbersAreAccountedFor
    <3> QED BY <3>1, <3>2
  <2> QED BY <2>2, <2>3
<1> QED BY <1>4, <1>5, <1>6, <1>7, <1>8, <1>9, <1>10, <1>11

\* A transaction that ends without a row: the number it held is lost, or free again.
LEMMA EndSteps ==
    ASSUME IInv, NEW t \in Sessions, returns_posted(t) \/ aborts(t)
    PROVE  IInv'
<1> USE DEF IInv
<1> DEFINE c == CompanyOf(t)
<1>1. /\ Busy(t) /\ tx[t] \in Posting /\ c \in Companies /\ tx[t].seq \in Nat
      /\ Ends(t) /\ UNCHANGED <<journal_vars, period, lock>>
  BY TxTypes DEF returns_posted, aborts
<1>2. /\ tx'[t] = Idle /\ ~Busy(t)' /\ tx'[t].at = "idle"
      /\ \A v \in Sessions : v # t => tx'[v] = tx[v] /\ CompanyOf(v)' = CompanyOf(v)
      /\ tx' \in [Sessions -> {Idle} \cup Posting]
      /\ LetPass'
  BY <1>1, Ending DEF journal_vars
<1>3. PICK kept \in BOOLEAN :
          /\ lost' = IF kept THEN lost \cup {<<c, tx[t].seq>>} ELSE lost
          /\ next_seq' = IF tx[t].at = "write" /\ ~kept
                         THEN [next_seq EXCEPT ![c] = tx[t].seq] ELSE next_seq
          /\ kept => tx[t].at = "write"
  BY DEF returns_posted, aborts
<1>4. tx[t].at = "write" => tx[t].seq # 0 /\ next_seq[c] = tx[t].seq + 1
  BY DEF CounterHeld
<1>5. TypeOK'
  BY <1>1, <1>2, <1>3, <1>4 DEF TypeOK, journal_vars
<1>6. RowHeld' /\ Hands'
  <2>1. \A v \in Sessions : Busy(v)' => v # t /\ Busy(v)
    BY <1>2 DEF Busy
  <2> QED BY <1>1, <1>2, <2>1 DEF RowHeld, Hands, journal_vars
<1>7. NumbersNameOnePosting'
  BY <1>1 DEF NumbersNameOnePosting, Posted, journal_vars
<1>8. \A v \in Sessions : tx'[v].at = "write" =>
          /\ v # t /\ tx[v].at = "write" /\ CompanyOf(v) \in Companies
          /\ next_seq'[CompanyOf(v)] = next_seq[CompanyOf(v)]
  <2> SUFFICES ASSUME NEW v \in Sessions, tx'[v].at = "write"
               PROVE  /\ v # t /\ tx[v].at = "write" /\ CompanyOf(v) \in Companies
                      /\ next_seq'[CompanyOf(v)] = next_seq[CompanyOf(v)]
    OBVIOUS
  <2>1. v # t /\ tx[v].at = "write"
    BY <1>2
  <2>2. CompanyOf(v) \in Companies /\ (tx[t].at = "write" => CompanyOf(v) # c)
    BY <2>1, TxTypes DEF CounterHeld
  <2> QED BY <1>3, <2>1, <2>2 DEF TypeOK
<1>9. CounterHeld'
  BY <1>2, <1>8 DEF CounterHeld
<1>10. NumbersAreAccountedFor'
  <2> SUFFICES ASSUME NEW d \in Companies
               PROVE  /\ \A n \in 1 .. next_seq'[d] - 1 :
                            \/ \E i \in Journals : Posted(i) /\ company[i] = d /\ number[i] = n
                            \/ \E v \in Sessions :
                                   tx'[v].at = "write" /\ CompanyOf(v)' = d /\ tx'[v].seq = n
                            \/ <<d, n>> \in lost'
                      /\ \A i \in Journals : Posted(i) /\ company[i] = d =>
                            /\ number[i] \in 1 .. next_seq'[d] - 1
                            /\ \A v \in Sessions : tx'[v].at = "write" /\ CompanyOf(v)' = d =>
                                   tx'[v].seq # number[i]
    BY <1>1 DEF NumbersAreAccountedFor, Posted, journal_vars
  <2>1. next_seq[d] \in Nat \ {0} /\ next_seq'[d] \in Nat \ {0}
    BY <1>5 DEF TypeOK
  <2>2. \/ next_seq'[d] = next_seq[d] /\ (d = c /\ tx[t].at = "write" => <<d, tx[t].seq>> \in lost')
        \/ d = c /\ tx[t].at = "write" /\ next_seq'[d] = tx[t].seq
    BY <1>1, <1>3 DEF TypeOK
  <2>3. ASSUME NEW n \in 1 .. next_seq'[d] - 1
        PROVE  \/ \E i \in Journals : Posted(i) /\ company[i] = d /\ number[i] = n
               \/ \E v \in Sessions : tx'[v].at = "write" /\ CompanyOf(v)' = d /\ tx'[v].seq = n
               \/ <<d, n>> \in lost'
    <3>1. n \in 1 .. next_seq[d] - 1
      BY <1>1, <1>4, <2>1, <2>2
    <3>2. ~(tx[t].at = "write" /\ d = c /\ tx[t].seq = n) \/ <<d, n>> \in lost'
      BY <1>1, <2>1, <2>2
    <3>3. lost \subseteq lost'
      BY <1>3
    <3> QED BY <1>2, <3>1, <3>2, <3>3 DEF NumbersAreAccountedFor
  <2>4. ASSUME NEW i \in Journals, Posted(i), company[i] = d
        PROVE  /\ number[i] \in 1 .. next_seq'[d] - 1
               /\ \A v \in Sessions : tx'[v].at = "write" /\ CompanyOf(v)' = d =>
                      tx'[v].seq # number[i]
    <3>1. /\ number[i] \in 1 .. next_seq[d] - 1
          /\ \A v \in Sessions : tx[v].at = "write" /\ CompanyOf(v) = d => tx[v].seq # number[i]
      BY <2>4 DEF NumbersAreAccountedFor
    <3>2. number[i] \in 1 .. next_seq'[d] - 1
      BY <1>1, <1>4, <2>1, <2>2, <3>1
    <3> QED BY <1>2, <3>1, <3>2
  <2> QED BY <2>3, <2>4
<1> QED BY <1>2, <1>5, <1>6, <1>7, <1>9, <1>10

-----------------------------------------------------------------------------
(* The fiscal period and its locks.                                         *)

LEMMA PeriodSteps ==
    ASSUME IInv, NEW c \in Companies, PeriodNext(c)
    PROVE  IInv'
<1> USE DEF IInv
<1>1. UNCHANGED <<journal_vars, next_seq, lost>>
  BY DEF PeriodNext, soft_close_finance_period, close_finance_period, reopen_finance_period,
         lock_finance_period, request_finance_period_reopen, approve_finance_period_reopen,
         window_expires, PeriodMoves, LockMoves
<1> DEFINE Kept(v) == /\ tx'[v].at = tx[v].at
                      /\ Busy(v) => /\ tx'[v].journal = tx[v].journal /\ tx'[v].user = tx[v].user
                                    /\ tx'[v].seq = tx[v].seq /\ tx'[v].scope = tx[v].scope
                                    /\ tx[v].overtaken => tx'[v].overtaken
                                    /\ tx'[v].early = tx[v].early \/ tx'[v].overtaken
           Typed == /\ tx' \in [Sessions -> {Idle} \cup Posting]
                    /\ period' \in [Companies -> {"open", "soft_closed", "closed"}]
                    /\ lock' \in [Companies -> [LockRows -> LockStatus]]
           \* Whom the step leaves without an open period, or behind a lock, it overtakes.
           Overtaken(v) ==
               /\ tx[v].at \in {"assert", "number", "write"} /\ period[CompanyOf(v)] = "open" =>
                      period'[CompanyOf(v)] = "open" \/ tx'[v].overtaken
               /\ tx[v].at \in {"number", "write"} /\ OpenFor(CompanyOf(v), tx[v].scope) =>
                      \/ tx'[v].overtaken
                      \/ /\ period'[CompanyOf(v)] = "open"
                         /\ \A r \in LockRows : r[2] \in {"all", tx[v].scope} =>
                                lock'[CompanyOf(v)][r] \in {"none", "reopened"}
<1>2. Typed /\ \A v \in Sessions : Kept(v) /\ Overtaken(v)
  <2>0. /\ \A v \in Sessions : ~Busy(v) => tx[v] = Idle
        /\ \A v \in Sessions : Busy(v) => tx[v] \in Posting /\ CompanyOf(v) \in Companies
        /\ \A v \in Sessions : tx[v].at \in {"assert", "number", "write"} => Busy(v)
        /\ Idle.at = "idle"
    BY TxTypes DEF Idle
  <2>1. ASSUME NEW steps \in SUBSET {"assert", "number", "write"}, Overtakes(c, steps)
        PROVE  /\ tx' \in [Sessions -> {Idle} \cup Posting]
               /\ \A v \in Sessions : Kept(v) /\ (tx[v].at \in steps /\ CompanyOf(v) = c =>
                                                      tx'[v].overtaken)
    <3>1. \A v \in Sessions :
              tx'[v] = IF tx[v].at \in steps /\ CompanyOf(v) = c
                       THEN [tx[v] EXCEPT !.overtaken = TRUE] ELSE tx[v]
      BY <2>1 DEF Overtakes
    <3>2. ASSUME NEW v \in Sessions, tx[v].at \in steps
          PROVE  LET o == [tx[v] EXCEPT !.overtaken = TRUE] IN
                 /\ o \in Posting /\ o.overtaken /\ o.at = tx[v].at
                 /\ o.journal = tx[v].journal /\ o.user = tx[v].user /\ o.seq = tx[v].seq
                 /\ o.scope = tx[v].scope /\ o.early = tx[v].early
      BY <2>0, <3>2 DEF Posting
    <3>3. \A v \in Sessions : /\ Kept(v) /\ tx'[v] \in {Idle} \cup Posting
                              /\ tx[v].at \in steps /\ CompanyOf(v) = c => tx'[v].overtaken
      BY <2>0, <3>1, <3>2
    <3>4. tx' = [v \in Sessions |-> tx'[v]]
      BY <2>1 DEF Overtakes
    <3> QED BY <3>3, <3>4
  <2>2. CASE soft_close_finance_period(c)
    <3>1. /\ tx' \in [Sessions -> {Idle} \cup Posting]
          /\ \A v \in Sessions :
                 Kept(v) /\ (tx[v].at \in {"assert", "number", "write"} /\ CompanyOf(v) = c =>
                                 tx'[v].overtaken)
      BY <2>1, <2>2 DEF soft_close_finance_period
    <3>2. period' = [period EXCEPT ![c] = "soft_closed"] /\ lock' = lock
      BY <2>2 DEF soft_close_finance_period, PeriodMoves
    <3>3. Typed
      BY <3>1, <3>2 DEF TypeOK
    <3>4. \A d \in Companies : d # c => period'[d] = period[d]
      BY <3>2 DEF TypeOK
    <3> QED BY <2>0, <3>1, <3>2, <3>3, <3>4 DEF OpenFor
  <2>3. CASE close_finance_period(c) \/ reopen_finance_period(c)
    BY <2>0, <2>3 DEF close_finance_period, reopen_finance_period, PeriodMoves, TypeOK, OpenFor
  <2>4. ASSUME NEW r \in LockRows, lock_finance_period(c, r)
        PROVE  Typed /\ \A v \in Sessions : Kept(v) /\ Overtaken(v)
    <3>1. /\ tx' \in [Sessions -> {Idle} \cup Posting]
          /\ \A v \in Sessions : Kept(v) /\ (tx[v].at \in {"number", "write"} /\ CompanyOf(v) = c =>
                                                 tx'[v].overtaken)
      BY <2>1, <2>4 DEF lock_finance_period
    <3>2. lock' = [lock EXCEPT ![c][r] = "locked"] /\ period' = period
      BY <2>4 DEF lock_finance_period, LockMoves
    <3>3. Typed
      BY <3>1, <3>2 DEF TypeOK, LockStatus
    <3>4. \A d \in Companies : d # c => lock'[d] = lock[d]
      BY <3>2 DEF TypeOK
    <3> QED BY <2>0, <3>1, <3>2, <3>3, <3>4 DEF OpenFor
  <2>5. ASSUME NEW r \in LockRows,
               request_finance_period_reopen(c, r) \/ approve_finance_period_reopen(c, r)
        PROVE  Typed /\ \A v \in Sessions : Kept(v) /\ Overtaken(v)
    <3>1. PICK to \in {"reopen_requested", "reopened"} :
              /\ lock' = [lock EXCEPT ![c][r] = to] /\ period' = period /\ tx' = tx
              /\ lock[c][r] \notin {"none", "reopened"}
      BY <2>5 DEF request_finance_period_reopen, approve_finance_period_reopen, LockMoves
    <3>2. Typed
      BY <3>1 DEF TypeOK, LockStatus
    <3>3. \A d \in Companies, q \in LockRows : d # c \/ q # r => lock'[d][q] = lock[d][q]
      BY <3>1 DEF TypeOK
    <3> QED BY <2>0, <3>1, <3>2, <3>3 DEF OpenFor
  <2>6. ASSUME NEW r \in LockRows, window_expires(c, r)
        PROVE  Typed /\ \A v \in Sessions : Kept(v) /\ Overtaken(v)
    <3>1. lock' = [lock EXCEPT ![c][r] = "lapsed"] /\ period' = period
      BY <2>6 DEF window_expires, LockMoves
    <3>2. \A v \in Sessions :
              tx'[v] = IF Busy(v) /\ CompanyOf(v) = c
                       THEN [tx[v] EXCEPT !.early = @ \cup {r}, !.overtaken = TRUE] ELSE tx[v]
      BY <2>6 DEF window_expires
    <3>3. \A v \in Sessions : Busy(v) /\ CompanyOf(v) = c =>
              /\ tx'[v] \in Posting /\ tx'[v].overtaken /\ tx'[v].at = tx[v].at
              /\ tx'[v].journal = tx[v].journal /\ tx'[v].user = tx[v].user
              /\ tx'[v].seq = tx[v].seq /\ tx'[v].scope = tx[v].scope
      <4>1. ASSUME NEW v \in Sessions, Busy(v), CompanyOf(v) = c,
                   tx'[v] = [tx[v] EXCEPT !.early = tx[v].early \cup {r}, !.overtaken = TRUE]
            PROVE  /\ tx'[v] \in Posting /\ tx'[v].overtaken /\ tx'[v].at = tx[v].at
                   /\ tx'[v].journal = tx[v].journal /\ tx'[v].user = tx[v].user
                   /\ tx'[v].seq = tx[v].seq /\ tx'[v].scope = tx[v].scope
        <5>1. tx[v] \in Posting /\ tx[v].early \cup {r} \in SUBSET LockRows
          BY <2>0, <4>1 DEF Posting
        <5> QED BY <4>1, <5>1 DEF Posting
      <4> QED BY <3>2, <4>1
    <3>4. \A v \in Sessions : Kept(v) /\ tx'[v] \in {Idle} \cup Posting
      BY <2>0, <3>2, <3>3
    <3>5. DOMAIN tx' = Sessions /\ tx' = [v \in Sessions |-> tx'[v]]
      BY <2>6 DEF window_expires
    <3>6. Typed
      BY <3>1, <3>4, <3>5 DEF TypeOK, LockStatus
    <3>7. \A d \in Companies : d # c => lock'[d] = lock[d]
      BY <3>1 DEF TypeOK
    <3> QED BY <2>0, <3>1, <3>2, <3>3, <3>4, <3>6, <3>7 DEF OpenFor
  <2> QED BY <2>2, <2>3, <2>4, <2>5, <2>6 DEF PeriodNext
<1>3. TypeOK'
  BY <1>1, <1>2 DEF TypeOK, journal_vars
<1>4. \A v \in Sessions : /\ Busy(v)' = Busy(v)
                          /\ Busy(v) => CompanyOf(v)' = CompanyOf(v)
  BY <1>1, <1>2 DEF Busy, CompanyOf, journal_vars
<1>5. \A v \in Sessions : tx[v].at \in {"assert", "number", "write"} => Busy(v)
  BY TxTypes
<1>6. RowHeld' /\ Hands'
  BY <1>1, <1>2, <1>4 DEF RowHeld, Hands, journal_vars
<1>7. CounterHeld'
  BY <1>1, <1>2, <1>4, <1>5 DEF CounterHeld
<1>8. NumbersNameOnePosting' /\ NumbersAreAccountedFor'
  BY <1>1, <1>2, <1>5, BooksKept DEF journal_vars, Posted
<1>9. LetPass'
  BY <1>1, <1>2, <1>4, <1>5 DEF LetPass, OpenFor
<1> QED BY <1>3, <1>6, <1>7, <1>8, <1>9

-----------------------------------------------------------------------------

LEMMA InvariantStep == IInv /\ [Next]_vars => IInv'
<1> SUFFICES ASSUME IInv, [Next]_vars PROVE IInv'
  OBVIOUS
<1>1. CASE UNCHANGED vars
  BY <1>1 DEF vars, IInv, TypeOK, RowHeld, Hands, CounterHeld, LetPass, NumbersNameOnePosting,
              NumbersAreAccountedFor, Busy, Posted, CompanyOf, OpenFor
<1>2. ASSUME NEW t \in Sessions, BeginNext(t) \/ PostingNext(t)
      PROVE  IInv'
  BY <1>2, Beginnings, ReadSteps, NumberStep, WriteStep, EndSteps DEF PostingNext
<1>3. ASSUME NEW c \in Governed, PeriodNext(c)
      PROVE  IInv'
  BY <1>3, PeriodSteps, CompaniesAssumption
<1> QED BY <1>1, <1>2, <1>3, JournalSteps DEF Next

\* The invariant that the properties are part of or follow from
LEMMA Invariance == Spec => []IInv
BY InitHolds, InvariantStep, PTL DEF Spec

\* Every variable keeps its type.
THEOREM LedgerTypeCorrect == Spec => []TypeOK
<1>1. IInv => TypeOK
  BY DEF IInv
<1> QED BY <1>1, Invariance, PTL

\* post_finance_journal, create_and_post_finance_system_journal and the import
\* of history never give one number to two journals of the tenant.
THEOREM NumbersAreUnique == Spec => []NumbersNameOnePosting
<1>1. IInv => NumbersNameOnePosting
  BY DEF IInv
<1> QED BY <1>1, Invariance, PTL

\* A company's numbers have no gap but those of a source posted twice at a time,
\* and none of them is handed out again.
THEOREM NumbersHaveNoOtherGap == Spec => []NumbersAreAccountedFor
<1>1. IInv => NumbersAreAccountedFor
  BY DEF IInv
<1> QED BY <1>1, Invariance, PTL

\* Whoever submits a manual journal neither approves nor posts it.
THEOREM FourEyes == Spec => []MakerIsNotChecker
<1>1. IInv => MakerIsNotChecker
  BY DEF IInv, Hands, MakerIsNotChecker, Posted
<1> QED BY <1>1, Invariance, PTL

\* A posting lands behind a lock or in a period that is not open only if the
\* guard let it pass before: the gap between the guard's read and the commit
\* is the only one.
THEOREM PostingsAreGuarded == Spec => GuardedPostings
<1> DEFINE Guarded == \A t \in Sessions :
               writes(t) /\ tx[t].journal \notin Migrated =>
                   OpenFor(CompanyOf(t), tx[t].scope) \/ tx[t].overtaken
<1>1. IInv => Guarded
  BY DEF IInv, LetPass, writes
<1>2. IInv /\ [Next]_vars => [Guarded]_vars
  BY <1>1
<1> QED BY <1>2, Invariance, PTL DEF Spec, GuardedPostings

\* A posted journal is never posted again, by whomever and however often it is called.
THEOREM PostingsStand == Spec => PostedStands
<1> DEFINE Stands == \A j \in Journals : Posted(j) => Posted(j)' /\ number'[j] = number[j]
                                                      /\ posted_by'[j] = posted_by[j]
<1>1. ASSUME IInv, Next PROVE Stands
  <2>1. CASE JournalNext
    <3>1. PICK k \in Manual : /\ UNCHANGED <<number, posted_by>> /\ ~Posted(k)
                              /\ \E new : Becomes(k, new)
      BY <2>1 DEF JournalNext, create_finance_journal_draft, discard_finance_journal_draft,
                  submit_finance_journal_for_approval, approve_finance_journal, Posted
    <3>2. \A j \in Journals : j # k => status'[j] = status[j]
      BY <1>1, <3>1 DEF Becomes, IInv, TypeOK
    <3> QED BY <3>1, <3>2 DEF Posted
  <2>2. ASSUME NEW t \in Sessions, writes(t)
        PROVE  Stands
    <3>1. \A j \in Journals : j # tx[t].journal => /\ status'[j] = status[j]
                                                   /\ number'[j] = number[j]
                                                   /\ posted_by'[j] = posted_by[j]
      BY <1>1, <2>2 DEF writes, Becomes, IInv, TypeOK
    <3> QED BY <1>1, <2>2, <3>1, WriteStep DEF Posted
  <2>3. CASE journal_vars' = journal_vars
    BY <2>3 DEF journal_vars, Posted
  <2>4. ASSUME NEW t \in Sessions, BeginNext(t) \/ PostingNext(t), ~writes(t)
        PROVE  journal_vars' = journal_vars
    BY <2>4 DEF BeginNext, PostingNext, post_finance_journal, import_historical_finance_journal,
                create_and_post_finance_system_journal, resolve_finance_period_for_date,
                assert_finance_period_open_for_posting, takes_number, returns_posted, aborts
  <2>5. ASSUME NEW c \in Governed, PeriodNext(c)
        PROVE  journal_vars' = journal_vars
    BY <2>5 DEF PeriodNext, soft_close_finance_period, close_finance_period,
                reopen_finance_period, lock_finance_period, request_finance_period_reopen,
                approve_finance_period_reopen, window_expires, PeriodMoves, LockMoves
  <2> QED BY <1>1, <2>1, <2>2, <2>3, <2>4, <2>5 DEF Next
<1>2. IInv /\ [Next]_vars => [Stands]_vars
  BY <1>1
<1> QED BY <1>2, Invariance, PTL DEF Spec, PostedStands
-----------------------------------------------------------------------------
(* Postings happen at once: every step is a step of the abstract ledger, or  *)
(* one that an observer does not see.                                        *)

\* A source has no life before its posting, and is in nobody's hands.
SourcesKept ==
    /\ \A j \in Journals \ Manual : status[j] \in {"absent", "posted"}
    /\ \A t \in Sessions : Busy(t) /\ tx[t].journal \notin Manual => tx[t].user = NoUser

LEMMA PeriodKeepsPostings ==
    ASSUME TypeOK, NEW c \in Companies, PeriodNext(c)
    PROVE  \A v \in Sessions :
               /\ tx'[v].at = tx[v].at
               /\ Busy(v) => tx'[v].journal = tx[v].journal /\ tx'[v].user = tx[v].user
<1>1. ASSUME NEW p \in Posting, NEW early
      PROVE  /\ LET o == [p EXCEPT !.overtaken = TRUE] IN
                    o.at = p.at /\ o.journal = p.journal /\ o.user = p.user
             /\ LET o == [p EXCEPT !.early = early, !.overtaken = TRUE] IN
                    o.at = p.at /\ o.journal = p.journal /\ o.user = p.user
  BY DEF Posting
<1>2. CASE tx' = tx
  BY <1>2
<1>3. ASSUME NEW steps \in SUBSET {"assert", "number", "write"}, Overtakes(c, steps),
             NEW v \in Sessions
      PROVE  /\ tx'[v].at = tx[v].at
             /\ Busy(v) => tx'[v].journal = tx[v].journal /\ tx'[v].user = tx[v].user
  <2>1. tx'[v] = IF tx[v].at \in steps /\ CompanyOf(v) = c
                 THEN [tx[v] EXCEPT !.overtaken = TRUE] ELSE tx[v]
    BY <1>3 DEF Overtakes
  <2>2. tx[v].at \in steps => tx[v] \in Posting
    BY TxTypes, <1>3
  <2> QED BY <1>1, <2>1, <2>2
<1>4. ASSUME NEW r \in LockRows, window_expires(c, r), NEW v \in Sessions
      PROVE  /\ tx'[v].at = tx[v].at
             /\ Busy(v) => tx'[v].journal = tx[v].journal /\ tx'[v].user = tx[v].user
  <2>1. tx'[v] = IF Busy(v) /\ CompanyOf(v) = c
                 THEN [tx[v] EXCEPT !.early = tx[v].early \cup {r}, !.overtaken = TRUE]
                 ELSE tx[v]
    BY <1>4 DEF window_expires
  <2>2. Busy(v) => tx[v] \in Posting
    BY TxTypes
  <2> QED BY <1>1, <2>1, <2>2
<1> QED BY <1>2, <1>3, <1>4 DEF PeriodNext, soft_close_finance_period, close_finance_period,
           reopen_finance_period, lock_finance_period, request_finance_period_reopen,
           approve_finance_period_reopen

\* What happens to a posting between its first statement and its last.
LEMMA PostingGoesOn ==
    ASSUME TypeOK, NEW t \in Sessions,
           \/ resolve_finance_period_for_date(t) \/ assert_finance_period_open_for_posting(t)
           \/ takes_number(t) \/ writes(t) \/ returns_posted(t) \/ aborts(t)
    PROVE  /\ Busy(t)
           /\ \A v \in Sessions : v # t => tx'[v] = tx[v]
           /\ Busy(t)' => tx'[t].journal = tx[t].journal /\ tx'[t].user = tx[t].user
<1>1. Busy(t) /\ tx[t] \in Posting
  BY TxTypes DEF resolve_finance_period_for_date, assert_finance_period_open_for_posting,
     takes_number, writes, returns_posted, aborts
<1>2. ASSUME Ends(t)
      PROVE  ~Busy(t)' /\ \A v \in Sessions : v # t => tx'[v] = tx[v]
  BY <1>2 DEF Ends, TypeOK, Busy, Idle
<1>3. ASSUME NEW at, GoesTo(t, at)
      PROVE  /\ tx'[t].journal = tx[t].journal /\ tx'[t].user = tx[t].user
             /\ \A v \in Sessions : v # t => tx'[v] = tx[v]
  <2>1. tx'[t] = [tx[t] EXCEPT !.at = at] /\ \A v \in Sessions : v # t => tx'[v] = tx[v]
    BY <1>3 DEF GoesTo, TypeOK
  <2> QED BY <1>1, <2>1 DEF Posting
<1>4. ASSUME takes_number(t)
      PROVE  /\ tx'[t].journal = tx[t].journal /\ tx'[t].user = tx[t].user
             /\ \A v \in Sessions : v # t => tx'[v] = tx[v]
  <2>1. /\ tx'[t] = [tx[t] EXCEPT !.at = "write", !.seq = next_seq[CompanyOf(t)]]
        /\ \A v \in Sessions : v # t => tx'[v] = tx[v]
    BY <1>4 DEF takes_number, TypeOK
  <2> QED BY <1>1, <2>1 DEF Posting
<1> QED BY <1>1, <1>2, <1>3, <1>4 DEF resolve_finance_period_for_date, writes, returns_posted, aborts,
           assert_finance_period_open_for_posting

LEMMA SourcesStep ==
    ASSUME IInv, SourcesKept, [Next]_vars
    PROVE  SourcesKept'
<1> DEFINE Kept(v) == Busy(v)' => \/ Busy(v) /\ tx'[v].journal = tx[v].journal
                                                /\ tx'[v].user = tx[v].user
                                  \/ tx'[v].journal \in Manual \/ tx'[v].user = NoUser
           StatusKept == \A j \in Journals \ Manual :
                             status'[j] = status[j] \/ status'[j] = "posted"
<1>1. ASSUME StatusKept, \A v \in Sessions : Kept(v)
      PROVE  SourcesKept'
  BY <1>1 DEF SourcesKept
<1>2. TypeOK
  BY DEF IInv
<1>3. CASE UNCHANGED vars
  BY <1>1, <1>3 DEF vars, Busy
<1>4. CASE JournalNext
  <2>1. PICK j \in Manual : tx' = tx /\ \E new : Becomes(j, new)
    BY <1>4 DEF JournalNext, create_finance_journal_draft, discard_finance_journal_draft,
                submit_finance_journal_for_approval, approve_finance_journal
  <2>2. StatusKept
    BY <1>2, <2>1 DEF Becomes, TypeOK
  <2> QED BY <1>1, <2>1, <2>2 DEF Busy
<1>5. ASSUME NEW t \in Sessions, BeginNext(t)
      PROVE  SourcesKept'
  <2>1. PICK at, j, u, s : /\ Begins(t, at, j, u, s) /\ (j \in Manual \/ u = NoUser)
                           /\ status' = status
    BY <1>5 DEF BeginNext, post_finance_journal, create_and_post_finance_system_journal,
                import_historical_finance_journal, journal_vars
  <2>2. /\ tx'[t].journal = j /\ tx'[t].user = u
        /\ \A v \in Sessions : v # t => tx'[v] = tx[v]
    BY <1>2, <2>1 DEF Begins, TypeOK
  <2> QED BY <1>1, <2>1, <2>2 DEF Busy
<1>6. ASSUME NEW t \in Sessions, PostingNext(t)
      PROVE  SourcesKept'
  <2>1. /\ Busy(t) /\ \A v \in Sessions : v # t => tx'[v] = tx[v]
        /\ Busy(t)' => tx'[t].journal = tx[t].journal /\ tx'[t].user = tx[t].user
    BY <1>2, <1>6, PostingGoesOn DEF PostingNext
  <2>2. StatusKept
    BY <1>2, <1>6 DEF PostingNext, resolve_finance_period_for_date,
       assert_finance_period_open_for_posting, takes_number, writes, returns_posted, aborts,
       journal_vars, Becomes, TypeOK
  <2> QED BY <1>1, <2>1, <2>2 DEF Busy
<1>7. ASSUME NEW c \in Governed, PeriodNext(c)
      PROVE  SourcesKept'
  <2>1. \A v \in Sessions : Kept(v)
    BY <1>2, <1>7, PeriodKeepsPostings, CompaniesAssumption DEF Busy
  <2>2. status' = status
    BY <1>7 DEF PeriodNext, soft_close_finance_period, close_finance_period,
       reopen_finance_period, lock_finance_period, request_finance_period_reopen,
       approve_finance_period_reopen, window_expires, PeriodMoves, LockMoves, journal_vars
  <2> QED BY <1>1, <2>1, <2>2
<1> QED BY <1>3, <1>4, <1>5, <1>6, <1>7 DEF Next

\* Nobody else sees the counter move while the same postings hold it.
LEMMA NothingCounted ==
    ASSUME UNCHANGED <<company, next_seq>>,
           \A t \in Sessions : tx'[t].at = "write" <=> tx[t].at = "write",
           \A t \in Sessions : tx[t].at = "write" => tx'[t].journal = tx[t].journal
    PROVE  [c \in Companies |-> Committed(c)]' = [c \in Companies |-> Committed(c)]
<1>1. \A c \in Companies : CounterFree(c)' = CounterFree(c)
  BY DEF CounterFree, CompanyOf
<1>2. \A c \in Companies : Committed(c)' = Committed(c)
  BY <1>1 DEF Committed
<1> QED BY <1>2

LEMMA NothingSeen ==
    ASSUME UNCHANGED journal_vars,
           [c \in Companies |-> Committed(c)]' = [c \in Companies |-> Committed(c)]
    PROVE  UNCHANGED Books!vars
BY DEF journal_vars, Books!vars

\* Who takes a number shows it to nobody.
LEMMA NumberHidden ==
    ASSUME IInv, NEW t \in Sessions, takes_number(t)
    PROVE  [c \in Companies |-> Committed(c)]' = [c \in Companies |-> Committed(c)]
<1>1. PICK d \in Companies : d = CompanyOf(t)
  BY TxTypes DEF IInv, takes_number
<1>2. /\ tx'[t].at = "write" /\ CompanyOf(t)' = d /\ company' = company
      /\ \A v \in Sessions : v # t => tx'[v] = tx[v]
  <2>1. Busy(t) /\ Busy(t)' /\ tx'[t].at = "write"
    BY TxTypes DEF IInv, TypeOK, takes_number, Busy
  <2>2. tx'[t].journal = tx[t].journal /\ \A v \in Sessions : v # t => tx'[v] = tx[v]
    BY <2>1, PostingGoesOn DEF IInv
  <2> QED BY <1>1, <2>1, <2>2 DEF takes_number, journal_vars, CompanyOf
<1>3. /\ tx[t].at = "number" /\ CounterFree(d) /\ next_seq[d] \in Nat
      /\ next_seq'[d] = next_seq[d] + 1
      /\ \A c \in Companies : c # d => next_seq'[c] = next_seq[c]
  BY <1>1 DEF takes_number, IInv, TypeOK
<1>4. Committed(d)' = Committed(d)
  <2>1. ~CounterFree(d)'
    BY <1>2 DEF CounterFree
  <2> QED BY <1>3, <2>1 DEF Committed
<1>5. ASSUME NEW c \in Companies, c # d
      PROVE  Committed(c)' = Committed(c)
  <2>1. CounterFree(c)' = CounterFree(c)
    BY <1>1, <1>2, <1>3, <1>5 DEF CounterFree, CompanyOf
  <2> QED BY <1>3, <1>5, <2>1 DEF Committed
<1> QED BY <1>4, <1>5

\* When a session that has taken a number ends, its company's counter is seen
\* to move, from that number to whatever the session leaves.
LEMMA NumberRevealed ==
    ASSUME IInv, NEW t \in Sessions, tx[t].at = "write", Ends(t), company' = company,
           NEW d \in Companies, d = CompanyOf(t),
           \A c \in Companies : c # d => next_seq'[c] = next_seq[c]
    PROVE  /\ Committed(d) = tx[t].seq /\ Committed(d)' = next_seq'[d]
           /\ \A c \in Companies : c # d => Committed(c)' = Committed(c)
<1>1. tx'[t].at = "idle" /\ \A v \in Sessions : v # t => tx'[v] = tx[v]
  BY DEF Ends, IInv, TypeOK, Idle
<1>2. Committed(d) = tx[t].seq
  <2>1. ~CounterFree(d) /\ next_seq[d] = tx[t].seq + 1 /\ tx[t].seq \in Nat
    BY TxTypes DEF CounterFree, IInv, CounterHeld
  <2> QED BY <2>1 DEF Committed
<1>3. Committed(d)' = next_seq'[d]
  <2>1. CounterFree(d)'
    BY <1>1 DEF CounterFree, CompanyOf, IInv, CounterHeld
  <2> QED BY <2>1 DEF Committed
<1>4. ASSUME NEW c \in Companies, c # d
      PROVE  Committed(c)' = Committed(c)
  <2>1. CounterFree(c)' = CounterFree(c)
    BY <1>1, <1>4 DEF CounterFree, CompanyOf
  <2> QED BY <1>4, <2>1 DEF Committed
<1> QED BY <1>2, <1>3, <1>4

\* The write is the posting.
LEMMA WriteIsPosting ==
    ASSUME IInv, SourcesKept, NEW t \in Sessions, writes(t)
    PROVE  Books!Next
<1>0. /\ tx[t].journal \in Journals /\ tx[t].user \in Users \cup {NoUser}
      /\ CompanyOf(t) \in Companies
  BY TxTypes DEF IInv, writes, Posting
<1>1. PICK j \in Journals, u \in Users \cup {NoUser}, d \in Companies :
          j = tx[t].journal /\ u = tx[t].user /\ d = company[j] /\ d = CompanyOf(t)
  BY <1>0 DEF CompanyOf
<1>2. /\ Becomes(j, "posted") /\ number' = [number EXCEPT ![j] = tx[t].seq]
      /\ posted_by' = [posted_by EXCEPT ![j] = u] /\ Ends(t) /\ tx[t].at = "write" /\ Busy(t)
      /\ UNCHANGED <<company, submitted_by, approved_by, next_seq>>
      /\ ~NumberTaken(t) /\ ~SourcePosted(t)
  BY <1>1, TxTypes DEF writes, IInv
<1>3. /\ Committed(d) = tx[t].seq /\ Committed(d)' = tx[t].seq + 1
      /\ \A c \in Companies : c # d => Committed(c)' = Committed(c)
  <2>1. next_seq[d] = tx[t].seq + 1
    BY <1>1, <1>2 DEF IInv, CounterHeld
  <2> QED BY <1>1, <1>2, <2>1, NumberRevealed
<1>4. [c \in Companies |-> Committed(c)]' =
          [[c \in Companies |-> Committed(c)] EXCEPT ![d] = @ + 1]
  BY <1>3
<1>5. Books!Counts(company[j])
  BY <1>1, <1>4 DEF Books!Counts
<1>6. [c \in Companies |-> Committed(c)][company[j]] = tx[t].seq
  BY <1>1, <1>3
<1>7. ASSUME NEW from, status[j] = from
      PROVE  Books!Posts(j, from, u)
  BY <1>2, <1>5, <1>6, <1>7 DEF Books!Posts, Books!Moves, Becomes, NumberTaken, Books!Journals, Journals
<1>8. CASE j \in Manual
  <2>1. status[j] = "approved" /\ u \in Users /\ submitted_by[j] # u
    BY <1>1, <1>2, <1>8 DEF IInv, RowHeld
  <2> QED BY <1>7, <1>8, <2>1 DEF Books!Next, Books!PostManual
<1>9. CASE j \notin Manual
  <2>1. status[j] = "absent" /\ u = NoUser /\ j \in System \cup Migrated
    BY <1>1, <1>2, <1>9 DEF SourcesKept, SourcePosted, Journals
  <2> QED BY <1>7, <2>1 DEF Books!Next, Books!PostSource
<1> QED BY <1>8, <1>9

LEMMA ReturnIsPostingAgain ==
    ASSUME IInv, NEW t \in Sessions, returns_posted(t)
    PROVE  Books!Next
<1>1. PICK j \in System, d \in Companies :
          j = tx[t].journal /\ d = company[j] /\ d = CompanyOf(t)
  BY TxTypes DEF IInv, returns_posted, CompanyOf
<1>2. /\ status[j] = "posted" /\ tx[t].at = "write" /\ Ends(t)
      /\ UNCHANGED <<journal_vars, next_seq>>
  BY <1>1 DEF returns_posted, SourcePosted
<1>3. /\ Committed(d) = tx[t].seq /\ Committed(d)' = tx[t].seq + 1
      /\ \A c \in Companies : c # d => Committed(c)' = Committed(c)
  <2>1. next_seq[d] = tx[t].seq + 1
    BY <1>1, <1>2 DEF IInv, CounterHeld
  <2> QED BY <1>1, <1>2, <2>1, NumberRevealed DEF journal_vars
<1>4. [c \in Companies |-> Committed(c)]' =
          [[c \in Companies |-> Committed(c)] EXCEPT ![d] = @ + 1]
  BY <1>3
<1>5. Books!PostAgain(j)
  BY <1>1, <1>2, <1>4 DEF Books!PostAgain, Books!Counts, journal_vars
<1> QED BY <1>5 DEF Books!Next

\* An abort gives the number back.
LEMMA AbortIsHidden ==
    ASSUME IInv, NEW t \in Sessions, aborts(t)
    PROVE  [c \in Companies |-> Committed(c)]' = [c \in Companies |-> Committed(c)]
<1>1. PICK d \in Companies : d = CompanyOf(t)
  BY TxTypes DEF IInv, aborts
<1>2. CASE tx[t].at = "write"
  <2>1. next_seq'[d] = tx[t].seq /\ \A c \in Companies : c # d => next_seq'[c] = next_seq[c]
    BY <1>1, <1>2 DEF aborts, IInv, TypeOK
  <2>2. \A c \in Companies : Committed(c)' = Committed(c)
    BY <1>1, <1>2, <2>1, NumberRevealed DEF aborts, journal_vars
  <2> QED BY <2>2
<1>3. CASE tx[t].at # "write"
  <2>1. tx'[t].at = "idle" /\ \A v \in Sessions : v # t => tx'[v] = tx[v]
    BY DEF aborts, Ends, IInv, TypeOK, Idle
  <2> QED BY <1>3, <2>1, NothingCounted DEF aborts, journal_vars
<1> QED BY <1>2, <1>3

\* The life of a manual journal up to its posting is the abstract ledger's.
LEMMA JournalStepsSeen ==
    ASSUME JournalNext
    PROVE  Books!Next
<1>1. PICK j \in Manual :
          \/ create_finance_journal_draft(j) \/ discard_finance_journal_draft(j)
          \/ \E u \in Users : \/ submit_finance_journal_for_approval(j, u)
                              \/ approve_finance_journal(j, u)
  BY DEF JournalNext
<1>2. [c \in Companies |-> Committed(c)]' = [c \in Companies |-> Committed(c)]
  BY <1>1, NothingCounted DEF create_finance_journal_draft, discard_finance_journal_draft,
     submit_finance_journal_for_approval, approve_finance_journal
<1>3. create_finance_journal_draft(j) => Books!Draft(j)
  BY <1>2 DEF create_finance_journal_draft, Becomes, Books!Draft, Books!Moves
<1>4. discard_finance_journal_draft(j) => Books!Discard(j)
  BY <1>2 DEF discard_finance_journal_draft, Becomes, Books!Discard, Books!Moves
<1>5. \A u \in Users : submit_finance_journal_for_approval(j, u) => Books!Submit(j, u)
  BY <1>2 DEF submit_finance_journal_for_approval, Becomes, Books!Submit, Books!Moves
<1>6. \A u \in Users : approve_finance_journal(j, u) => Books!Approve(j, u)
  BY <1>2 DEF approve_finance_journal, Becomes, Books!Approve, Books!Moves
<1> QED BY <1>1, <1>3, <1>4, <1>5, <1>6 DEF Books!Next

\* Nobody sees the statements before the number, nor the periods and their locks.
LEMMA HiddenSteps ==
    ASSUME IInv,
           \/ \E t \in Sessions : \/ BeginNext(t) \/ resolve_finance_period_for_date(t)
                                  \/ assert_finance_period_open_for_posting(t)
           \/ \E c \in Companies : PeriodNext(c)
    PROVE  UNCHANGED Books!vars
<1>1. TypeOK
  BY DEF IInv
<1>2. UNCHANGED <<journal_vars, next_seq>>
  BY DEF BeginNext, post_finance_journal, create_and_post_finance_system_journal,
     import_historical_finance_journal, resolve_finance_period_for_date,
     assert_finance_period_open_for_posting, PeriodNext, soft_close_finance_period,
     close_finance_period, reopen_finance_period, lock_finance_period,
     request_finance_period_reopen, approve_finance_period_reopen, window_expires,
     PeriodMoves, LockMoves
<1>3. ASSUME NEW t \in Sessions, tx[t].at # "write", tx'[t].at # "write",
             \A v \in Sessions : v # t => tx'[v] = tx[v]
      PROVE  UNCHANGED Books!vars
  BY <1>2, <1>3, NothingCounted, NothingSeen DEF journal_vars
<1>4. ASSUME NEW t \in Sessions, BeginNext(t)
      PROVE  UNCHANGED Books!vars
  <2>1. ~Busy(t) /\ \E at, j, u, s : at # "write" /\ Begins(t, at, j, u, s)
    BY <1>4 DEF BeginNext, post_finance_journal, create_and_post_finance_system_journal,
                import_historical_finance_journal
  <2> QED BY <1>1, <1>3, <2>1 DEF Begins, TypeOK, Busy
<1>5. ASSUME NEW t \in Sessions,
             resolve_finance_period_for_date(t) \/ assert_finance_period_open_for_posting(t)
      PROVE  UNCHANGED Books!vars
  <2>1. tx[t] \in Posting /\ tx[t].at # "write"
    BY <1>1, <1>5, TxTypes DEF resolve_finance_period_for_date, assert_finance_period_open_for_posting
  <2>2. Ends(t) \/ GoesTo(t, "assert") \/ GoesTo(t, "number")
    BY <1>5 DEF resolve_finance_period_for_date, assert_finance_period_open_for_posting
  <2>3. tx'[t].at # "write" /\ \A v \in Sessions : v # t => tx'[v] = tx[v]
    BY <1>1, <2>1, <2>2 DEF Ends, GoesTo, Idle, TypeOK, Posting
  <2> QED BY <1>3, <2>1, <2>3
<1>6. ASSUME NEW c \in Companies, PeriodNext(c)
      PROVE  UNCHANGED Books!vars
  <2>1. \A v \in Sessions : tx'[v].at = tx[v].at /\ (Busy(v) => tx'[v].journal = tx[v].journal)
    BY <1>1, <1>6, PeriodKeepsPostings
  <2> QED BY <1>2, <2>1, NothingCounted, NothingSeen DEF journal_vars, Busy
<1> QED BY <1>4, <1>5, <1>6

LEMMA StepsOfTheLedger ==
    ASSUME IInv, SourcesKept, [Next]_vars
    PROVE  [Books!Next]_(Books!vars)
<1>1. CASE UNCHANGED vars
  BY <1>1, NothingCounted, NothingSeen DEF vars, journal_vars
<1>2. ASSUME NEW t \in Sessions, PostingNext(t)
      PROVE  [Books!Next]_(Books!vars)
  <2>1. CASE takes_number(t)
    BY <2>1, NumberHidden, NothingSeen DEF takes_number
  <2>2. CASE aborts(t)
    BY <2>2, AbortIsHidden, NothingSeen DEF aborts
  <2> QED BY <1>2, <2>1, <2>2, WriteIsPosting, ReturnIsPostingAgain, HiddenSteps DEF PostingNext
<1> QED BY <1>1, <1>2, JournalStepsSeen, HiddenSteps, CompaniesAssumption DEF Next

\* The posting functions, statement by statement, with whatever comes between
\* the statements and whatever becomes of the transaction, implement the ledger
\* in which a posting is one step.
THEOREM PostingsAreAtomic == Spec => PostsAtOnce
<1>1. Init => SourcesKept
  BY DEF Init, SourcesKept, Busy, Idle
<1>2. IInv /\ SourcesKept /\ [Next]_vars => SourcesKept'
  BY SourcesStep
<1>3. Init => Books!Init
  <2>1. Init => \A c \in Companies : Committed(c) = 1
    BY DEF Init, Committed, CounterFree, Idle
  <2> QED BY <2>1 DEF Init, Books!Init, Books!Journals, Journals
<1>4. IInv /\ SourcesKept /\ [Next]_vars => [Books!Next]_(Books!vars)
  BY StepsOfTheLedger
<1> QED BY <1>1, <1>2, <1>3, <1>4, Invariance, PTL DEF Spec, PostsAtOnce, Books!Spec
===============================================================================
