----------------------------- MODULE JobQueueMC -----------------------------
(* A queue of two jobs, j1 ahead of j2, for TLC. *)
EXTENDS JobQueue, TLC

CONSTANTS j1, j2

TwoJobs == {j1, j2}
J1First == j1 :> 0 @@ j2 :> 1

\* Workers and users are interchangeable; the jobs, which are ranked, are not.
ActorSymmetry == Permutations(Workers) \cup Permutations(Users)

\* runs and leaseUp are history: no action reads them, and the invariants of the run
\* that uses this view constrain them only by their type.
WithoutHistory == <<jobs, call, work, spent>>
=============================================================================
