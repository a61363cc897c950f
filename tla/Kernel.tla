------------------------------- MODULE Kernel --------------------------------
(***************************************************************************)
(* The canonical snapshot of one loop and the reducers that change it      *)
(* (v4_alpha/kernel.py), for a content-addressed Plan v2 loop.  Each       *)
(* reducer is a guard Can... and an action; a command whose guard is false *)
(* is rejected and changes nothing.  Next issues the commands the way the  *)
(* public entry (v4_entry/service.py) does.                                *)
(*                                                                         *)
(* A goal's chain (effect, Attempt, result, report, artifact, review) is   *)
(* named by the goal and its repair ordinal, since every reference of it   *)
(* is derived from those.  An effect and its Attempt always change         *)
(* together, and so do a result and its report: one variable stands for    *)
(* both.  Revisions of single subjects are left out: a command is accepted *)
(* only at the loop revision it was built from, which the store checks.    *)
(***************************************************************************)
EXTENDS Integers

CONSTANTS
  Goals,        \* goal identities of the confirmed plan
  GoalCount,    \* how many goals the plan orders
  Optional,     \* goals whose requirement is "optional"
  MaxAttempts,  \* the Attempts the plan allows per goal
  OnFailure,    \* "repair", "wait" or "fail", per goal
  OnBlocked,    \* "wait" or "skip", per goal
  MaxRevisions, \* max_roadmap_revisions; 1 for a STANDARD plan
  Failures,     \* failure fingerprints
  BudgetCap,    \* the most Host invocations a budget can be raised to
  None

ASSUME GoalCountAssumption == GoalCount \in Nat \ {0}
ASSUME NoneAssumption == None \notin Goals \cup (Goals \X (0..2))
ASSUME OptionalAssumption == Optional \subseteq Goals
ASSUME MaxAttemptsAssumption == MaxAttempts \in [Goals -> 1..3]
ASSUME OnFailureAssumption == OnFailure \in [Goals -> {"repair", "wait", "fail"}]
ASSUME OnBlockedAssumption ==
  /\ OnBlocked \in [Goals -> {"wait", "skip"}]
  /\ \A g \in Goals \ Optional : OnBlocked[g] = "wait"
ASSUME MaxRevisionsAssumption == MaxRevisions \in 1..17
ASSUME BudgetCapAssumption == BudgetCap \in Nat /\ BudgetCap >= GoalCount

VARIABLES
  execution,    \* lifecycle state, what a pause waits for, terminal disposition
  plan,         \* order of the goals, active position, revision, Host budget
  goals,        \* state of every goal
  repairs,      \* the repair ordinal of the chain a goal refers to
  effects,      \* state of every external effect
  results,      \* result, report and artifact of every chain
  reviews,      \* verdict on every chain
  current,      \* the chain of current_result_ref
  policy,       \* the repair counters
  finalization, \* the one finalization of the loop
  closure       \* closure assurance

kvars == <<execution, plan, goals, repairs, effects, results, reviews, current,
           policy, finalization, closure>>

Chains == Goals \X (0..2)
Positions == 1..GoalCount
Orders == {o \in [Positions -> Goals] : \A i, j \in Positions : o[i] = o[j] => i = j}

WaitKinds == {"BLOCKED", "BUDGET", "FAILURE", "HUMAN", "REPAIR", "TIME"}
Dispositions == {"SUCCEEDED", "SUCCEEDED_WITH_LIMITATIONS", "FAILED", "LIMITATION"}
GoalStates == {"ABSENT", "ACTIVE", "DONE", "SKIPPED", "FAILED", "LIMITATION", "STOPPED"}
Outcomes == {"PASS", "FAILED", "BLOCKED", "LIMITATION", "UNVERIFIABLE"}
Verifications == {"VERIFIED", "FAILED", "UNVERIFIABLE"}
Settled == {"OBSERVED", "UNKNOWN", "UNVERIFIABLE"}

\* What a Host receipt reports, and the effect state it is recorded as.
Receipts == {"observed", "unknown", "cooperative"}
Recorded(r) == CASE r = "observed" -> "OBSERVED"
                 [] r = "unknown" -> "UNKNOWN"
                 [] r = "cooperative" -> "UNVERIFIABLE"

Verdicts == {"PASS", "REPAIR", "LIMITATION"}
EffectStates == {"ABSENT", "COMMITTED"} \cup Settled

Executions == [state : {"NONE", "ACTIVE", "PAUSED", "FINALIZING", "TERMINAL"},
               wait : WaitKinds \cup {"NONE"},
               disposition : Dispositions \cup {"NONE", "STOPPED"}]
Plans == [order : Orders, active : 0..GoalCount, revision : Nat, budget : 0..BudgetCap]
ResultRecords == [state : {"ABSENT", "STAGED", "ACKNOWLEDGED"}, goal : Goals \cup {None},
                  outcome : Outcomes \cup {"NONE"}, artifact : Verifications \cup {"NONE"}]
Policies == [goal : Goals \cup {None}, attempts : 0..3, same : 0..2,
             failure : Failures \cup {None},
             state : {"IDLE", "EXHAUSTED", "AUTHORIZED", "REPAIR_SCHEDULED",
                      "EXECUTION_PENDING"}]
SubjectChains == [result : Chains, goal : GoalStates, effect : EffectStates,
                  stage : {"ABSENT", "STAGED", "ACKNOWLEDGED"}]
Finalizations == [state : {"NONE", "PREPARED", "EXECUTION_CLOSED"},
                  disposition : Dispositions \cup {"NONE"}, chain : SubjectChains \cup {None}]

NoResult == [state |-> "ABSENT", goal |-> None, outcome |-> "NONE", artifact |-> "NONE"]
NoFinalization == [state |-> "NONE", disposition |-> "NONE", chain |-> None]
NoPolicy == [goal |-> None, attempts |-> 0, same |-> 0, failure |-> None, state |-> "IDLE"]

ChainOf(g) == <<g, repairs[g]>>
IsOnlyActive(g) == \A h \in Goals : goals[h] = "ACTIVE" <=> h = g

-----------------------------------------------------------------------------
Init ==
  /\ execution = [state |-> "NONE", wait |-> "NONE", disposition |-> "NONE"]
  /\ plan \in [order : Orders, active : {0}, revision : {0}, budget : GoalCount..BudgetCap]
  /\ goals = [g \in Goals |-> "ABSENT"]
  /\ repairs = [g \in Goals |-> 0]
  /\ effects = [c \in Chains |-> "ABSENT"]
  /\ results = [c \in Chains |-> NoResult]
  /\ reviews = [c \in Chains |-> "ABSENT"]
  /\ current = None
  /\ policy = NoPolicy
  /\ finalization = NoFinalization
  /\ closure = "NONE"

\* The confirmed plan becomes a loop with its first goal active and the first
\* Attempt committed.
CreateLoop ==
  /\ execution.state = "NONE"
  /\ execution' = [execution EXCEPT !.state = "ACTIVE"]
  /\ plan' = [plan EXCEPT !.active = 1]
  /\ goals' = [goals EXCEPT ![plan.order[1]] = "ACTIVE"]
  /\ effects' = [effects EXCEPT ![<<plan.order[1], 0>>] = "COMMITTED"]
  /\ UNCHANGED <<repairs, results, reviews, current, policy, finalization, closure>>

-----------------------------------------------------------------------------
\* Only an authoritative observation may follow another observation.
CanObserve(c, r) ==
  /\ effects[c] # "ABSENT"
  /\ r = "observed" \/ effects[c] = "COMMITTED"

ObserveExternalEffect(c, r) ==
  /\ CanObserve(c, r)
  /\ effects' = [effects EXCEPT ![c] = Recorded(r)]
  /\ UNCHANGED <<execution, plan, goals, repairs, results, reviews, current, policy,
                 finalization, closure>>

\* The result is bound to whichever goal is active, not to the effect's goal.
CanStage(c) ==
  /\ effects[c] \in Settled
  /\ \E g \in Goals : IsOnlyActive(g)

\* Mutation of StageExternalResult: the result is stored per goal.
StagePerGoal(c, outcome) ==
  /\ CanStage(c)
  /\ results' = [results EXCEPT ![<<c[1], 0>>] =
       [state |-> "STAGED", goal |-> c[1], outcome |-> outcome, artifact |-> "NONE"]]
  /\ current' = c
  /\ UNCHANGED <<execution, plan, goals, repairs, effects, reviews, policy,
                 finalization, closure>>
StageExternalResult(c, outcome) ==
  /\ CanStage(c)
  /\ \E g \in Goals :
       /\ IsOnlyActive(g)
       /\ results' = [results EXCEPT ![c] =
            [state |-> "STAGED", goal |-> g, outcome |-> outcome, artifact |-> "NONE"]]
  /\ current' = c
  /\ UNCHANGED <<execution, plan, goals, repairs, effects, reviews, policy,
                 finalization, closure>>

CanAcknowledge(c) == results[c].state = "STAGED"

AcknowledgeResult(c, verification) ==
  /\ CanAcknowledge(c)
  /\ results' = [results EXCEPT ![c].state = "ACKNOWLEDGED", ![c].artifact = verification]
  /\ UNCHANGED <<execution, plan, goals, repairs, effects, reviews, current, policy,
                 finalization, closure>>

\* The subject chain of the current result: it needs an artifact and a bound
\* Host resource, which only an observed effect has.
ResultChainComplete ==
  /\ current # None
  /\ results[current].state = "ACKNOWLEDGED"
  /\ effects[current] = "OBSERVED"

CanReview(c) == results[c].state = "ACKNOWLEDGED" /\ ResultChainComplete

RecordReview(c, verdict) ==
  /\ CanReview(c)
  /\ reviews' = [reviews EXCEPT ![c] = verdict]
  /\ UNCHANGED <<execution, plan, goals, repairs, effects, results, current, policy,
                 finalization, closure>>

-----------------------------------------------------------------------------
Blocked == {"BLOCKED", "LIMITATION", "UNVERIFIABLE"}

Earned(g, c, disposition) ==
  CASE disposition = "DONE" -> results[c].outcome = "PASS" /\ reviews[c] = "PASS"
    [] disposition = "FAILED" ->
         results[c].outcome = "FAILED" /\ reviews[c] \in {"PASS", "LIMITATION"}
    [] disposition = "LIMITATION" -> reviews[c] = "LIMITATION"
    [] disposition = "SKIPPED" ->
         g \in Optional /\ reviews[c] = "LIMITATION" /\ results[c].outcome \in Blocked

\* DONE and SKIPPED move on along the plan; the other dispositions end it.
MovesOn(disposition) == disposition \in {"DONE", "SKIPPED"}
Activates(disposition) == MovesOn(disposition) /\ plan.active < GoalCount
NextGoal == plan.order[plan.active + 1]

CanAdvance(g, c, disposition) ==
  /\ reviews[c] # "ABSENT"
  /\ goals[g] = "ACTIVE"
  /\ results[c].state = "ACKNOWLEDGED"
  /\ results[c].goal = g /\ c[1] = g
  /\ Earned(g, c, disposition)
  /\ MovesOn(disposition) => plan.active \in Positions /\ plan.order[plan.active] = g
  /\ Activates(disposition) => goals[NextGoal] = "ABSENT" /\ effects[<<NextGoal, 0>>] = "ABSENT"

AdvanceGoal(g, c, disposition) ==
  /\ CanAdvance(g, c, disposition)
  /\ IF Activates(disposition)
     THEN /\ goals' = [goals EXCEPT ![g] = disposition, ![NextGoal] = "ACTIVE"]
          /\ effects' = [effects EXCEPT ![<<NextGoal, 0>>] = "COMMITTED"]
          /\ plan' = [plan EXCEPT !.active = plan.active + 1]
     ELSE /\ goals' = [goals EXCEPT ![g] = disposition]
          /\ UNCHANGED <<effects, plan>>
  /\ UNCHANGED <<execution, repairs, results, reviews, current, policy, finalization, closure>>

-----------------------------------------------------------------------------
\* The repair counters belong to one goal and start over with another one.
Counters(g) ==
  IF policy.goal = g THEN policy
  ELSE [policy EXCEPT !.goal = g, !.attempts = 0, !.same = 0, !.failure = None]

\* A count above 2 is never told apart: the same-failure budget is at most 2.
SameCount(g, f) ==
  IF Counters(g).failure = f THEN IF Counters(g).same = 0 THEN 1 ELSE 2 ELSE 1

Exhausted(g, f, budget) == Counters(g).attempts >= budget \/ SameCount(g, f) >= 2

\* Mutations of CanContinueRepair: no review is needed; any verdict will do.
CanContinueUnreviewed(g) == IsOnlyActive(g)
CanContinueReviewed(g) == IsOnlyActive(g) /\ reviews[ChainOf(g)] # "ABSENT"
CanContinueRepair(g) == IsOnlyActive(g) /\ reviews[ChainOf(g)] = "REPAIR"

\* Mutation of Decided: an exhausted decision is counted too.
DecidedCounting(g, f, budget) ==
  [goal |-> g, failure |-> f, same |-> SameCount(g, f), attempts |-> Counters(g).attempts + 1,
   state |-> IF Exhausted(g, f, budget) THEN "EXHAUSTED" ELSE "AUTHORIZED"]
Decided(g, f, budget) ==
  [goal |-> g, failure |-> f, same |-> SameCount(g, f),
   attempts |-> Counters(g).attempts + (IF Exhausted(g, f, budget) THEN 0 ELSE 1),
   state |-> IF Exhausted(g, f, budget) THEN "EXHAUSTED" ELSE "AUTHORIZED"]

\* CONTINUE_REPAIR without a chain to allocate: the decision is only counted.
AuthorizeRepair(g, f, budget) ==
  /\ CanContinueRepair(g)
  /\ policy' = Decided(g, f, budget)
  /\ UNCHANGED <<execution, plan, goals, repairs, effects, results, reviews, current,
                 finalization, closure>>

\* CONTINUE_REPAIR with the next repair chain: unless exhausted, the goal moves to
\* that chain and its Attempt is committed.
CanSchedule(g, f, budget) ==
  /\ CanContinueRepair(g)
  /\ ~Exhausted(g, f, budget) => effects[<<g, Counters(g).attempts + 1>>] = "ABSENT"

ScheduleRepair(g, f, budget) ==
  /\ CanSchedule(g, f, budget)
  /\ IF Exhausted(g, f, budget)
     THEN policy' = Decided(g, f, budget) /\ UNCHANGED <<repairs, effects>>
     ELSE LET ordinal == Counters(g).attempts + 1 IN
          /\ policy' = [Decided(g, f, budget) EXCEPT !.state = "REPAIR_SCHEDULED"]
          /\ repairs' = [repairs EXCEPT ![g] = ordinal]
          /\ effects' = [effects EXCEPT ![<<g, ordinal>>] = "COMMITTED"]
  /\ UNCHANGED <<execution, plan, goals, results, reviews, current, finalization, closure>>

\* Mutation of RecordDecision: a wait forgets the repair counters.
RecordDecisionAfresh ==
  /\ execution.state # "NONE"
  /\ policy' = [NoPolicy EXCEPT !.state = "EXECUTION_PENDING"]
  /\ UNCHANGED <<execution, plan, goals, repairs, effects, results, reviews, current,
                 finalization, closure>>
\* WAIT or STOP: recorded now, carried out by a lifecycle command of its own.
RecordDecision ==
  /\ execution.state # "NONE"
  /\ policy' = [policy EXCEPT !.state = "EXECUTION_PENDING"]
  /\ UNCHANGED <<execution, plan, goals, repairs, effects, results, reviews, current,
                 finalization, closure>>

-----------------------------------------------------------------------------
CanPause == execution.state = "ACTIVE"

PauseLoop(kind) ==
  /\ CanPause
  /\ execution' = [execution EXCEPT !.state = "PAUSED",
                     !.wait = IF kind = "NONE" THEN @ ELSE kind]
  /\ UNCHANGED <<plan, goals, repairs, effects, results, reviews, current, policy,
                 finalization, closure>>

\* A budget wait ends only with a budget at least as large, any other wait with the
\* budget unchanged.
CanResume(budget) ==
  /\ execution.state = "PAUSED"
  /\ IF execution.wait = "BUDGET" THEN plan.budget <= budget /\ budget <= BudgetCap
     ELSE budget = plan.budget

ResumeLoop(budget) ==
  /\ CanResume(budget)
  /\ plan' = [plan EXCEPT !.budget = budget]
  /\ execution' = [execution EXCEPT !.state = "ACTIVE", !.wait = "NONE"]
  /\ UNCHANGED <<goals, repairs, effects, results, reviews, current, policy,
                 finalization, closure>>

CanStop == execution.state \in {"ACTIVE", "PAUSED"} /\ \E g \in Goals : IsOnlyActive(g)

StopLoop ==
  /\ CanStop
  /\ goals' = [g \in Goals |-> IF goals[g] = "ACTIVE" THEN "STOPPED" ELSE goals[g]]
  /\ execution' = [execution EXCEPT !.state = "TERMINAL", !.disposition = "STOPPED"]
  /\ closure' = "LOCAL"
  /\ UNCHANGED <<plan, repairs, effects, results, reviews, current, policy, finalization>>

\* Mutation of CanRevise: the active goal may be moved too.
CanReviseActive(o) ==
  /\ execution.state # "NONE"
  /\ o \in Orders
  /\ {o[i] : i \in Positions} = {plan.order[i] : i \in Positions}
  /\ \A i \in 1..(plan.active - 1) : o[i] = plan.order[i]
  /\ plan.revision + 1 < MaxRevisions
\* The unstarted part of an adaptive plan is reordered; the active goal and what
\* precedes it stay where they are.
CanRevise(o) ==
  /\ execution.state # "NONE"
  /\ o \in Orders
  /\ {o[i] : i \in Positions} = {plan.order[i] : i \in Positions}
  /\ \A i \in 1..plan.active : o[i] = plan.order[i]
  /\ plan.revision + 1 < MaxRevisions

ReviseGoalPlan(o) ==
  /\ CanRevise(o)
  /\ plan' = [plan EXCEPT !.order = o, !.revision = plan.revision + 1]
  /\ UNCHANGED <<execution, goals, repairs, effects, results, reviews, current, policy,
                 finalization, closure>>

-----------------------------------------------------------------------------
\* What the subject-chain digest covers: the current result and how far each
\* subject of its chain has moved.
SubjectChain ==
  [result |-> current, goal |-> goals[results[current].goal],
   effect |-> effects[current], stage |-> results[current].state]

Supported(disposition) ==
  LET state == goals[results[current].goal]
      outcome == results[current].outcome
  IN CASE disposition = "SUCCEEDED" ->
            state = "DONE" /\ outcome = "PASS" /\ reviews[current] = "PASS"
       [] disposition = "SUCCEEDED_WITH_LIMITATIONS" ->
            state \in {"DONE", "SKIPPED"} /\ \E g \in Goals : goals[g] = "SKIPPED"
       [] disposition = "FAILED" -> state = "FAILED" /\ outcome = "FAILED"
       [] disposition = "LIMITATION" -> state # "FAILED"

\* No look at the execution state: a stopped loop can be finalized.
CanFinalize(disposition) ==
  /\ ResultChainComplete
  /\ reviews[current] # "ABSENT"
  /\ \A g \in Goals : goals[g] # "ACTIVE"
  /\ goals[results[current].goal] \in {"DONE", "SKIPPED", "FAILED", "LIMITATION"}
  /\ Supported(disposition)

PrepareFinalization(disposition) ==
  /\ CanFinalize(disposition)
  /\ finalization' =
       [state |-> "PREPARED", disposition |-> disposition, chain |-> SubjectChain]
  /\ execution' = [execution EXCEPT !.state = "FINALIZING"]
  /\ UNCHANGED <<plan, goals, repairs, effects, results, reviews, current, policy, closure>>

Succeeds(disposition) == disposition \in {"SUCCEEDED", "SUCCEEDED_WITH_LIMITATIONS"}

\* Mutations of CanClose: a success needs no strict receipt; a closed loop closes again.
CanCloseUnconfirmed(strict) ==
  /\ finalization.state = "PREPARED"
  /\ ResultChainComplete /\ reviews[current] # "ABSENT"
  /\ finalization.chain = SubjectChain
CanCloseAgain(strict) ==
  /\ finalization.state \in {"PREPARED", "EXECUTION_CLOSED"}
  /\ ResultChainComplete /\ reviews[current] # "ABSENT"
  /\ finalization.chain = SubjectChain
  /\ Succeeds(finalization.disposition) => strict
CanClose(strict) ==
  /\ finalization.state = "PREPARED"
  /\ ResultChainComplete /\ reviews[current] # "ABSENT"
  /\ finalization.chain = SubjectChain
  /\ Succeeds(finalization.disposition) => strict

CloseExecution(strict) ==
  /\ CanClose(strict)
  /\ finalization' = [finalization EXCEPT !.state = "EXECUTION_CLOSED"]
  /\ execution' = [execution EXCEPT !.state = "TERMINAL",
                     !.disposition = finalization.disposition]
  /\ closure' = IF strict THEN "STRICT" ELSE "COOPERATIVE"
  /\ UNCHANGED <<plan, goals, repairs, effects, results, reviews, current, policy>>

\* A late acknowledged receipt strengthens a cooperative closing.
StrengthenClosureAssurance ==
  /\ execution.state = "TERMINAL" /\ finalization.state = "EXECUTION_CLOSED"
  /\ closure = "COOPERATIVE"
  /\ closure' = "STRICT"
  /\ UNCHANGED <<execution, plan, goals, repairs, effects, results, reviews, current,
                 policy, finalization>>

-----------------------------------------------------------------------------
(***************************************************************************)
(* What the entry decides from the snapshot it builds a command from.      *)
(***************************************************************************)
\* Mutation of Verdict: the artifact need not be verified.
VerdictByOutcome(c) ==
  IF results[c].outcome = "PASS" THEN "PASS"
  ELSE IF OnFailure[c[1]] = "repair" /\ results[c].outcome = "FAILED" THEN "REPAIR"
  ELSE "LIMITATION"
Verdict(c) ==
  LET g == c[1]
      outcome == results[c].outcome
      artifact == results[c].artifact
  IN IF outcome = "PASS" /\ artifact = "VERIFIED" THEN "PASS"
     ELSE IF OnFailure[g] = "repair" /\ outcome \in {"PASS", "FAILED"} THEN "REPAIR"
     ELSE "LIMITATION"

GoalDisposition(c) ==
  LET outcome == results[c].outcome
  IN IF outcome = "PASS" /\ reviews[c] = "PASS" THEN "DONE"
     ELSE IF /\ c[1] \in Optional /\ OnBlocked[c[1]] = "skip"
             /\ reviews[c] = "LIMITATION" /\ outcome \in Blocked THEN "SKIPPED"
     ELSE IF outcome = "FAILED" THEN "FAILED"
     ELSE "LIMITATION"

FinalDisposition(c) ==
  LET states == {goals[g] : g \in Goals} \ {"ABSENT"}
  IN IF "FAILED" \in states THEN "FAILED"
     ELSE IF "SKIPPED" \in states /\ states \subseteq {"DONE", "SKIPPED"}
          THEN "SUCCEEDED_WITH_LIMITATIONS"
     ELSE IF results[c].outcome = "PASS" /\ reviews[c] = "PASS" THEN "SUCCEEDED"
     ELSE "LIMITATION"

\* The plan's budget for repairs, on top of the first Attempt.
RepairBudget(g) == MaxAttempts[g] - 1

\* The entry stages and reviews a chain once, and only the chain the goal refers to,
\* after its effect was observed.
StagedByEntry(c) ==
  /\ effects[c] = "OBSERVED" /\ results[c].state = "ABSENT"
  /\ goals[c[1]] = "ACTIVE" /\ c = ChainOf(c[1])
ReviewedByEntry(c) == reviews[c] = "ABSENT" /\ c = current
\* A sync that was held up finalizes with the chain it began with, current or not.
FinalizedByEntry(c) == reviews[c] # "ABSENT" /\ finalization = NoFinalization
ScheduledByEntry(g) ==
  OnFailure[g] = "repair" /\ RepairBudget(g) >= 1 /\ Counters(g).attempts < RepairBudget(g)

Observations == \E c \in Chains, r \in Receipts : ObserveExternalEffect(c, r)

ChainSteps ==
  \/ \E c \in Chains, outcome \in Outcomes : StagedByEntry(c) /\ StageExternalResult(c, outcome)
  \/ \E c \in Chains, v \in Verifications : AcknowledgeResult(c, v)
  \/ \E c \in Chains : ReviewedByEntry(c) /\ RecordReview(c, Verdict(c))
  \/ \E g \in Goals : AdvanceGoal(g, ChainOf(g), GoalDisposition(ChainOf(g)))

Decisions ==
  \/ \E g \in Goals, f \in Failures : ScheduledByEntry(g) /\ ScheduleRepair(g, f, RepairBudget(g))
  \/ \E g \in Goals, f \in Failures : policy.state # "EXHAUSTED" /\ AuthorizeRepair(g, f, 3)
  \/ execution.state # "TERMINAL" /\ RecordDecision

Controls ==
  \/ \E kind \in WaitKinds \cup {"NONE"} : PauseLoop(kind)
  \/ \E budget \in 0..BudgetCap : ResumeLoop(budget)
  \/ StopLoop
  \/ \E o \in Orders : ReviseGoalPlan(o)

Closing ==
  \/ \E c \in Chains : FinalizedByEntry(c) /\ PrepareFinalization(FinalDisposition(c))
  \/ \E strict \in BOOLEAN : CloseExecution(strict)
  \/ StrengthenClosureAssurance

Next == CreateLoop \/ Observations \/ ChainSteps \/ Decisions \/ Controls \/ Closing

Spec == Init /\ [][Next]_kvars
-----------------------------------------------------------------------------
(***************************************************************************)
(* Properties.                                                             *)
(***************************************************************************)

\* Every snapshot the reducers build is well formed.
TypeOK ==
  /\ execution \in Executions
  /\ plan \in Plans
  /\ goals \in [Goals -> GoalStates]
  /\ repairs \in [Goals -> 0..2]
  /\ effects \in [Chains -> EffectStates]
  /\ results \in [Chains -> ResultRecords]
  /\ reviews \in [Chains -> Verdicts \cup {"ABSENT"}]
  /\ current \in Chains \cup {None}
  /\ policy \in Policies
  /\ finalization \in Finalizations
  /\ closure \in {"NONE", "LOCAL", "COOPERATIVE", "STRICT"}

\* The plan is walked in order however often its rest is reordered: every goal before
\* the active position moved the loop on, the goal at that position was started, and
\* no later one was (kernel.py _advance_goal, _revise_goal_plan).
PlanOrder ==
  execution.state # "NONE" =>
    /\ plan.active \in Positions
    /\ \A i \in Positions :
         LET state == goals[plan.order[i]] IN
         /\ i < plan.active => MovesOn(state)
         /\ i = plan.active => state # "ABSENT"
         /\ i > plan.active => state = "ABSENT"

\* Never more than one Host Attempt is unanswered, and it is the one the active goal
\* refers to; with two, sync_loop could no longer choose what to execute.
OneOpenAttempt ==
  \A c \in Chains : effects[c] \in {"COMMITTED", "UNKNOWN", "UNVERIFIABLE"} =>
    plan.active \in Positions /\ c = ChainOf(plan.order[plan.active])

\* A goal the entry finished rests on a whole chain of its own: an observed effect, an
\* acknowledged result bound to that very goal, and a review; DONE also needs a PASS
\* result whose artifact was verified locally.
FinishedGoalsAreProven ==
  \A g \in Goals : goals[g] \in {"DONE", "SKIPPED", "FAILED", "LIMITATION"} =>
    LET c == ChainOf(g) IN
    /\ effects[c] = "OBSERVED"
    /\ results[c].state = "ACKNOWLEDGED" /\ results[c].goal = g
    /\ reviews[c] # "ABSENT"
    /\ goals[g] = "DONE" => results[c].outcome = "PASS" /\ results[c].artifact = "VERIFIED"

\* A repair Attempt exists only after an earlier chain of the same goal was reviewed
\* REPAIR, and never beyond the Attempts the plan allows that goal.
RepairsFollowFailures ==
  \A g \in Goals, k \in 1..2 : effects[<<g, k>>] # "ABSENT" =>
    /\ k < MaxAttempts[g]
    /\ k <= repairs[g]
    /\ \E j \in 0..(k - 1) : reviews[<<g, j>>] = "REPAIR"

\* The repair counters are scoped to the active goal: starting them over for a goal
\* never gives it back a repair it has already used.
RepairBudgetPerGoal ==
  \A g \in Goals : goals[g] = "ACTIVE" =>
    repairs[g] <= (IF policy.goal = g THEN policy.attempts ELSE 0)

\* Unless a goal was stopped, a loop that closes as a success has finished its whole
\* plan (SUCCEEDED: with every goal DONE) and was acknowledged strictly.
SuccessIsWhole ==
  Succeeds(execution.disposition) /\ (\A g \in Goals : goals[g] # "STOPPED") =>
    /\ closure = "STRICT"
    /\ \A i \in Positions : MovesOn(goals[plan.order[i]])
    /\ execution.disposition = "SUCCEEDED" => \A i \in Positions : goals[plan.order[i]] = "DONE"

Strength(assurance) ==
  CASE assurance = "NONE" -> 0 [] assurance = "LOCAL" -> 1
    [] assurance = "COOPERATIVE" -> 2 [] assurance = "STRICT" -> 3

\* Closure assurance is monotone (docs/adr/0011, ClosureAssurance): no command, not even
\* one that closes a loop again, weakens it.
AssuranceNeverWeakens == [][Strength(closure') >= Strength(closure)]_kvars
=============================================================================
