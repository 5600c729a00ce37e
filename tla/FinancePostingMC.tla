--------------------------- MODULE FinancePostingMC ---------------------------
(* A journal of each kind, two companies, two sessions that post.              *)
EXTENDS FinancePosting, TLC

\* The users and the sessions are alike.
Alike == Permutations(Users) \cup Permutations(Sessions)

\* Bound: the company's own row of one scope, and the tenant's of all.
CompanyAndTenant == {<<"company", "gl">>, <<"tenant", "all">>}

\* Bound: the manual journal is of the governed company; the other company is
\* there through its sources, which take the same numbers.
ManualIsGoverned == \A j \in Manual : company[j] \in Governed
===============================================================================
