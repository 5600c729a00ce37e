-------------------------------- MODULE Ledger --------------------------------
(***************************************************************************)
(* What the general ledger promises its callers: a posting happens at      *)
(* once.  It takes the next number of the journal's company, which no      *)
(* journal of the tenant has, and the counter moves with it; before it     *)
(* there is neither the number nor the advance, and after it the journal   *)
(* is never touched again.  Only a source that was posted a second time    *)
(* costs a number and changes nothing else.                                *)
(*                                                                         *)
(* There are no sessions here, no locks and no aborts: FinancePosting has  *)
(* them and implements this.                                               *)
(***************************************************************************)
EXTENDS Integers

CONSTANTS Manual, System, Migrated, Companies, Users, NoUser

Journals == Manual \cup System \cup Migrated

VARIABLES company, status, number, submitted_by, approved_by, posted_by,
          counted   \* counted[c]: the next number of company c, as committed

vars == <<company, status, number, submitted_by, approved_by, posted_by, counted>>

Init ==
    /\ company \in [Journals -> Companies]
    /\ status = [j \in Journals |-> "absent"]
    /\ number = [j \in Journals |-> 0]
    /\ submitted_by = [j \in Journals |-> NoUser]
    /\ approved_by = [j \in Journals |-> NoUser]
    /\ posted_by = [j \in Journals |-> NoUser]
    /\ counted = [c \in Companies |-> 1]

Moves(j, from, to) == status[j] \in from /\ status' = [status EXCEPT ![j] = to]
Counts(c) == counted' = [counted EXCEPT ![c] = @ + 1]

Draft(j) ==
    /\ Moves(j, {"absent"}, "draft")
    /\ UNCHANGED <<company, number, submitted_by, approved_by, posted_by, counted>>

Submit(j, u) ==
    /\ Moves(j, {"draft"}, "submitted")
    /\ submitted_by' = [submitted_by EXCEPT ![j] = u]
    /\ UNCHANGED <<company, number, approved_by, posted_by, counted>>

Discard(j) ==
    /\ Moves(j, {"draft", "submitted"}, "void")
    /\ UNCHANGED <<company, number, submitted_by, approved_by, posted_by, counted>>

Approve(j, u) ==
    /\ Moves(j, {"submitted"}, "approved") /\ submitted_by[j] # u
    /\ approved_by' = [approved_by EXCEPT ![j] = u]
    /\ UNCHANGED <<company, number, submitted_by, posted_by, counted>>

\* The whole of a posting, by u: the checks of post_finance_journal still hold
\* when its last statement commits.
Posts(j, from, u) ==
    /\ Moves(j, {from}, "posted")
    /\ \A i \in Journals : status[i] = "posted" => number[i] # counted[company[j]]
    /\ number' = [number EXCEPT ![j] = counted[company[j]]]
    /\ posted_by' = [posted_by EXCEPT ![j] = u]
    /\ Counts(company[j])
    /\ UNCHANGED <<company, submitted_by, approved_by>>

PostManual(j, u) == submitted_by[j] # u /\ Posts(j, "approved", u)
PostSource(j) == Posts(j, "absent", NoUser)

\* A source that has been posted already takes a number with it.
PostAgain(j) ==
    /\ status[j] = "posted"
    /\ Counts(company[j])
    /\ UNCHANGED <<company, status, number, submitted_by, approved_by, posted_by>>

Next ==
    \/ \E j \in Manual : \/ Draft(j) \/ Discard(j)
                         \/ \E u \in Users : Submit(j, u) \/ Approve(j, u) \/ PostManual(j, u)
    \/ \E j \in System \cup Migrated : PostSource(j)
    \/ \E j \in System : PostAgain(j)

Spec == Init /\ [][Next]_vars
===============================================================================
