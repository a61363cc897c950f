------------------------------ MODULE MCKernel ------------------------------
(***************************************************************************)
(* An instance of Kernel for TLC: a goal that is repaired, then (or before *)
(* it, after a revision) an optional goal that may be skipped.             *)
(***************************************************************************)
EXTENDS Kernel, TLC

CONSTANTS worker, extra

TwoGoals == {worker, extra}
OneOptional == {extra}
Attempts == worker :> 2 @@ extra :> 1
FailurePolicy == worker :> "repair" @@ extra :> "fail"
BlockedPolicy == worker :> "wait" @@ extra :> "skip"
=============================================================================
