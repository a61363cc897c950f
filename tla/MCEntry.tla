------------------------------ MODULE MCEntry -------------------------------
(***************************************************************************)
(* Instances of Entry for TLC.                                             *)
(***************************************************************************)
EXTENDS Entry, TLC

CONSTANTS worker, extra, s1, s2

\* Syncs only differ in their names.
TwoSyncs == {s1, s2}
OneSync == {s1}
SyncSymmetry == Permutations({s1, s2})

\* One goal.
OneGoal == {worker}
TwoAttempts == worker :> 2
OneAttempt == worker :> 1
Repairs == worker :> "repair"
Fails == worker :> "fail"
WaitsWhenBlocked == worker :> "wait"
NoGoal == {}

\* Two goals, the second optional.
TwoGoals == {worker, extra}
OneOptional == {extra}
SingleAttempts == worker :> 1 @@ extra :> 1
WaitThenFail == worker :> "wait" @@ extra :> "fail"
WaitThenSkip == worker :> "wait" @@ extra :> "skip"
=============================================================================
