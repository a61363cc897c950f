------------------------------- MODULE MCWaits -------------------------------
(***************************************************************************)
(* Instances of Waits for TLC.                                             *)
(***************************************************************************)
EXTENDS Waits

Goal(kind, resumes, reconciles) ==
  [kind |-> kind, resumes |-> resumes, reconciles |-> reconciles]
Worker == Goal("WORKER", TRUE, TRUE)
Gate(kind) == Goal(kind, FALSE, FALSE)

\* Every policy is that of a first goal, before one that may be resumed.
WorkPlans ==
  {<<Goal("WORKER", resumes, reconciles), Worker>> : resumes, reconciles \in BOOLEAN}
    \cup {<<Gate("SKIP"), Worker>>, <<Gate("HUMAN")>>, <<Gate("TIME")>>}
GatedPlans == {<<Worker, Gate("HUMAN")>>}
SmallBudgets == {[calls |-> 1, compute |-> 2], [calls |-> 2, compute |-> 3]}
=============================================================================
