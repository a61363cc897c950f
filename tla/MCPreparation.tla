--------------------------- MODULE MCPreparation ----------------------------
(***************************************************************************)
(* Instances of Preparation for TLC.                                       *)
(***************************************************************************)
EXTENDS Preparation, TLC

\* What a request says beside its plan.
Request(plan) ==
  [plan |-> plan, allowed |-> {}, source |-> 300, kind |-> "json"]

\* Canonical plans: a goal that must be done, and one that needs git or the network.
Goal(i, need, requirement) ==
  [id |-> i, objective |-> ToString(i), size |-> 20, detail |-> 200, gate |-> "worker",
   requirement |-> requirement, blocked |-> IF requirement = "optional" THEN "skip" ELSE "wait",
   recovery |-> "resume", attempts |-> 2, capabilities |-> need,
   verifiers |-> {"artifact-changed"}, refs |-> {}]
CanonicalPlan(goals) ==
  [schema |-> "v2", objective |-> "1", goals |-> goals, mode |-> "STANDARD", reorders |-> 0,
   external |-> {}, scope |-> {"src"}, evidence |-> {"passes"}, stops |-> {"stuck"},
   requirements |-> {}, network |-> FALSE, local |-> TRUE, calls |-> 384, cost |-> 0,
   bytes |-> 3000]

Optional == Request(CanonicalPlan(<<Goal(1, {}, "required"), Goal(2, {"git"}, "optional")>>))
Required == Request(CanonicalPlan(<<Goal(1, {"git"}, "required")>>))

SomeRequests == <<Optional, Required>>

CONSTANTS c1, c2, t1, t2
TwoCalls == {c1, c2}
TwoTokens == {t1, t2}
PreparationSymmetry == Permutations({c1, c2}) \union Permutations({t1, t2})
=============================================================================
