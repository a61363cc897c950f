---------------------------- MODULE KernelProofs -----------------------------
(***************************************************************************)
(* Proofs about Kernel: the inductive invariant and what follows from it.  *)
(***************************************************************************)
EXTENDS Kernel, TLAPS

(***************************************************************************)
(* The strengthening.                                                      *)
(***************************************************************************)

\* Before CreateLoop there is nothing.
Unstarted ==
  execution.state = "NONE" =>
    /\ plan.active = 0 /\ finalization = NoFinalization
    /\ \A g \in Goals : goals[g] = "ABSENT"

\* Goals are started in plan order only, and a goal that moved on left the last
\* position unless it is the plan's last goal.
PlanReach ==
  /\ \A g \in Goals : goals[g] # "ABSENT" =>
       \E i \in Positions : i <= plan.active /\ plan.order[i] = g
  /\ plan.active \in Positions /\ MovesOn(goals[plan.order[plan.active]])
       => plan.active = GoalCount

\* A goal that was not started owns nothing; one that was has a chain in use and no
\* effect beyond its repair ordinal.
EffectReach ==
  \A g \in Goals :
    /\ goals[g] = "ABSENT" => repairs[g] = 0
    /\ goals[g] # "ABSENT" => effects[ChainOf(g)] # "ABSENT"
    /\ \A k \in 0..2 : effects[<<g, k>>] # "ABSENT" => goals[g] # "ABSENT" /\ k <= repairs[g]

\* Results are staged for observed effects of the goal they are bound to, and the last
\* chain of the plan that has one is the current result.
ResultsBound ==
  \A c \in Chains : results[c].state # "ABSENT" =>
    /\ effects[c] = "OBSERVED" /\ results[c].goal = c[1]
    /\ plan.active \in Positions /\ c = ChainOf(plan.order[plan.active]) => current = c

\* Reviews follow acknowledged results.
ReviewsBound ==
  \A c \in Chains : reviews[c] # "ABSENT" =>
    /\ results[c].state = "ACKNOWLEDGED"
    /\ reviews[c] = "PASS" => results[c].outcome = "PASS" /\ results[c].artifact = "VERIFIED"

\* A goal that ended in LIMITATION carries that verdict.
LimitsBound ==
  \A g \in Goals : goals[g] = "LIMITATION" => reviews[ChainOf(g)] = "LIMITATION"

PlanDone(disposition) ==
  /\ \A i \in Positions : MovesOn(goals[plan.order[i]])
  /\ disposition = "SUCCEEDED" => \A i \in Positions : goals[plan.order[i]] = "DONE"

\* After finalization no goal runs, and a success was prepared for a finished plan.
ClosingSound ==
  /\ execution.disposition \in {"NONE", "STOPPED"} \cup {finalization.disposition}
  /\ Succeeds(execution.disposition) => closure = "STRICT"
  /\ closure \in {"COOPERATIVE", "STRICT"} => finalization.state = "EXECUTION_CLOSED"
  /\ finalization = NoFinalization \/ finalization.state \in {"PREPARED", "EXECUTION_CLOSED"}
  /\ finalization # NoFinalization =>
       /\ finalization.disposition \in Dispositions
       /\ \A g \in Goals : goals[g] # "ACTIVE"
       /\ Succeeds(finalization.disposition) /\ (\A g \in Goals : goals[g] # "STOPPED")
            => PlanDone(finalization.disposition)

\* What depends on the work done so far only, and not on the lifecycle.
Work ==
  /\ PlanReach /\ EffectReach /\ OneOpenAttempt
  /\ ResultsBound /\ ReviewsBound /\ LimitsBound
  /\ FinishedGoalsAreProven /\ RepairsFollowFailures

IInv ==
  /\ TypeOK /\ Unstarted /\ PlanOrder
  /\ Work /\ RepairBudgetPerGoal
  /\ ClosingSound
-----------------------------------------------------------------------------
\* Chains in use are chains, and positions of the plan hold goals, each only once.
LEMMA ChainTypes ==
  ASSUME TypeOK
  PROVE  /\ \A g \in Goals : ChainOf(g) \in Chains /\ ChainOf(g)[1] = g
         /\ \A g \in Goals, k \in 0..2 : <<g, k>> \in Chains
         /\ \A c \in Chains : c[1] \in Goals /\ c[2] \in 0..2 /\ c = <<c[1], c[2]>>
         /\ plan.order \in [Positions -> Goals]
         /\ \A i, j \in Positions : plan.order[i] = plan.order[j] => i = j
BY DEF TypeOK, ChainOf, Chains, Orders, Plans

\* The goal that is active is the one at the active position, the only one, and the
\* loop is not being finalized.
LEMMA ActiveGoal ==
  ASSUME IInv, NEW g \in Goals, goals[g] = "ACTIVE"
  PROVE  /\ execution.state # "NONE"
         /\ plan.active \in Positions /\ plan.order[plan.active] = g
         /\ IsOnlyActive(g)
         /\ finalization = NoFinalization
         /\ closure \in {"NONE", "LOCAL"}
<1>1. execution.state # "NONE"
  BY DEF IInv, Unstarted
<1>2. \A h \in Goals : goals[h] = "ACTIVE" =>
        plan.active \in Positions /\ plan.order[plan.active] = h
  <2> SUFFICES ASSUME NEW h \in Goals, goals[h] = "ACTIVE"
               PROVE  plan.active \in Positions /\ plan.order[plan.active] = h
    OBVIOUS
  <2>1. plan.active \in Positions
    BY <1>1 DEF IInv, PlanOrder
  <2>2. PICK i \in Positions : i <= plan.active /\ plan.order[i] = h
    BY DEF IInv, Work, PlanReach
  <2>3. ~(i < plan.active)
    BY <1>1, <2>2 DEF IInv, PlanOrder, MovesOn
  <2>4. i = plan.active
    BY <2>1, <2>2, <2>3, GoalCountAssumption DEF Positions
  <2> QED BY <2>1, <2>2, <2>4
<1>3. IsOnlyActive(g)
  BY <1>2 DEF IsOnlyActive
<1>4. finalization = NoFinalization
  BY DEF IInv, ClosingSound
<1>5. closure \in {"NONE", "LOCAL"}
  BY <1>4 DEF IInv, ClosingSound, TypeOK, NoFinalization
<1> QED BY <1>1, <1>2, <1>3, <1>4, <1>5

\* The initial states.
LEMMA InitIInv == Init => IInv
<1> SUFFICES ASSUME Init PROVE IInv
  OBVIOUS
<1>1. TypeOK
  BY GoalCountAssumption, BudgetCapAssumption
  DEF Init, TypeOK, NoResult, NoPolicy, NoFinalization, GoalStates, Executions, Plans,
      EffectStates, ResultRecords, Policies, Finalizations
<1>2. PlanReach /\ PlanOrder /\ Unstarted
  BY GoalCountAssumption DEF Init, PlanReach, PlanOrder, Unstarted, Positions
<1>3. EffectReach
  BY <1>1, ChainTypes DEF Init, EffectReach
<1>4. OneOpenAttempt
  BY DEF Init, OneOpenAttempt
<1>7. RepairsFollowFailures
  BY DEF Init, RepairsFollowFailures, Chains
<1>8. RepairBudgetPerGoal
  BY DEF Init, RepairBudgetPerGoal
<1>5. ResultsBound /\ ReviewsBound /\ LimitsBound /\ FinishedGoalsAreProven
  BY DEF Init, ResultsBound, ReviewsBound, LimitsBound, FinishedGoalsAreProven, NoResult
<1>6. ClosingSound
  BY DEF Init, ClosingSound, Succeeds, NoFinalization
<1> QED BY <1>1, <1>2, <1>3, <1>4, <1>5, <1>6, <1>7, <1>8 DEF IInv, Work

-----------------------------------------------------------------------------
\* Lifecycle commands leave the work alone.
LEMMA WorkKept ==
  ASSUME Work, UNCHANGED <<goals, repairs, effects, results, reviews, current>>,
         plan'.order = plan.order, plan'.active = plan.active
  PROVE  Work'
BY DEF Work, PlanReach, EffectReach, OneOpenAttempt, ResultsBound, ReviewsBound,
       LimitsBound, FinishedGoalsAreProven, RepairsFollowFailures, ChainOf

\* A pause changes only the lifecycle.
LEMMA PausePreserves ==
  ASSUME IInv, NEW kind \in WaitKinds \cup {"NONE"}, PauseLoop(kind)
  PROVE  IInv'
<1>1. TypeOK'
  BY DEF IInv, TypeOK, PauseLoop, Executions
<1>2. Unstarted' /\ PlanOrder'
  BY DEF IInv, TypeOK, PauseLoop, CanPause, Unstarted, PlanOrder
<1>3. Work' /\ RepairBudgetPerGoal'
  BY WorkKept DEF IInv, PauseLoop, RepairBudgetPerGoal
<1>4. ClosingSound'
  BY DEF IInv, TypeOK, PauseLoop, ClosingSound, PlanDone
<1> QED BY <1>1, <1>2, <1>3, <1>4 DEF IInv

\* A resume changes the lifecycle and, after a budget wait, the budget.
LEMMA ResumePreserves ==
  ASSUME IInv, NEW budget \in 0..BudgetCap, ResumeLoop(budget)
  PROVE  IInv'
<1>1. TypeOK'
  BY DEF IInv, TypeOK, ResumeLoop, Executions, Plans
<1>2. plan'.order = plan.order /\ plan'.active = plan.active
  BY DEF IInv, TypeOK, ResumeLoop, Plans
<1>3. Unstarted' /\ PlanOrder'
  BY <1>2 DEF IInv, TypeOK, ResumeLoop, CanResume, Unstarted, PlanOrder
<1>4. Work' /\ RepairBudgetPerGoal'
  BY <1>2, WorkKept DEF IInv, ResumeLoop, RepairBudgetPerGoal
<1>5. ClosingSound'
  BY <1>2 DEF IInv, TypeOK, ResumeLoop, ClosingSound, PlanDone
<1> QED BY <1>1, <1>3, <1>4, <1>5 DEF IInv

\* A WAIT or STOP decision changes only the policy state.
LEMMA DecisionPreserves ==
  ASSUME IInv, RecordDecision
  PROVE  IInv'
<1>1. TypeOK'
  BY DEF IInv, TypeOK, RecordDecision, Policies
<1>2. Unstarted' /\ PlanOrder'
  BY DEF IInv, RecordDecision, Unstarted, PlanOrder
<1>3. Work'
  BY WorkKept DEF IInv, RecordDecision
<1>4. RepairBudgetPerGoal'
  BY DEF IInv, TypeOK, RecordDecision, RepairBudgetPerGoal
<1>5. ClosingSound'
  BY DEF IInv, RecordDecision, ClosingSound, PlanDone
<1> QED BY <1>1, <1>2, <1>3, <1>4, <1>5 DEF IInv

\* A late acknowledged receipt changes only the closure assurance.
LEMMA StrengthenPreserves ==
  ASSUME IInv, StrengthenClosureAssurance
  PROVE  IInv'
<1>1. TypeOK' /\ Unstarted' /\ PlanOrder' /\ RepairBudgetPerGoal'
  BY DEF IInv, StrengthenClosureAssurance, TypeOK, Unstarted, PlanOrder, RepairBudgetPerGoal
<1>2. Work'
  BY WorkKept DEF IInv, StrengthenClosureAssurance
<1>3. ClosingSound'
  BY DEF IInv, StrengthenClosureAssurance, ClosingSound, PlanDone
<1> QED BY <1>1, <1>2, <1>3 DEF IInv

\* Stopping ends the active goal: no finalization exists yet, and the goal keeps its chain.
LEMMA StopPreserves ==
  ASSUME IInv, StopLoop
  PROVE  IInv'
<1>1. TypeOK'
  BY DEF IInv, TypeOK, StopLoop, GoalStates, Executions
<1>2. PICK g \in Goals : goals[g] = "ACTIVE"
  BY DEF StopLoop, CanStop, IsOnlyActive
<1>3. /\ plan.active \in Positions /\ plan.order[plan.active] = g
      /\ IsOnlyActive(g) /\ finalization = NoFinalization
  BY <1>2, ActiveGoal
<1>4. \A h \in Goals : goals'[h] = IF h = g THEN "STOPPED" ELSE goals[h]
  BY <1>3 DEF StopLoop, IsOnlyActive
<1>5. Unstarted'
  BY DEF IInv, TypeOK, StopLoop, Unstarted
<1>6. PlanOrder'
  BY <1>2, <1>3, <1>4, ChainTypes DEF IInv, TypeOK, StopLoop, CanStop, PlanOrder, MovesOn
<1>7. PlanReach'
  BY <1>3, <1>4, <1>2 DEF IInv, Work, StopLoop, PlanReach, MovesOn
<1>8. EffectReach' /\ OneOpenAttempt' /\ ResultsBound' /\ ReviewsBound'
      /\ RepairsFollowFailures'
  BY <1>2, <1>4 DEF IInv, Work, StopLoop, EffectReach, OneOpenAttempt, ResultsBound, ReviewsBound,
     RepairsFollowFailures, ChainOf
<1>9. LimitsBound' /\ FinishedGoalsAreProven' /\ RepairBudgetPerGoal'
  BY <1>4 DEF IInv, Work, StopLoop, LimitsBound, FinishedGoalsAreProven, RepairBudgetPerGoal, ChainOf
<1>10. ClosingSound'
  BY <1>3, ActiveGoal, <1>2 DEF IInv, TypeOK, StopLoop, ClosingSound, NoFinalization, Succeeds
<1> QED BY <1>1, <1>5, <1>6, <1>7, <1>8, <1>9, <1>10 DEF IInv, Work

\* A revision permutes goals that were not started: the positions that matter to a
\* finished plan are all before the active one.
LEMMA RevisePreserves ==
  ASSUME IInv, NEW o \in Orders, ReviseGoalPlan(o)
  PROVE  IInv'
<1>1. TypeOK'
  <2>1. plan.revision + 1 \in Nat
    BY DEF IInv, TypeOK, Plans
  <2>2. plan' \in Plans
    BY <2>1 DEF IInv, TypeOK, ReviseGoalPlan, Plans
  <2> QED BY <2>2 DEF IInv, TypeOK, ReviseGoalPlan
<1>2. plan'.order = o /\ plan'.active = plan.active
  BY DEF IInv, TypeOK, ReviseGoalPlan, Plans
<1>3. /\ plan.active \in Positions
      /\ \A i \in Positions : i <= plan.active => o[i] = plan.order[i]
  BY GoalCountAssumption DEF IInv, PlanOrder, ReviseGoalPlan, CanRevise, Positions
<1>4. \A i \in Positions : i > plan.active => goals[o[i]] = "ABSENT"
  <2> SUFFICES ASSUME NEW i \in Positions, i > plan.active, goals[o[i]] # "ABSENT"
               PROVE  FALSE
    OBVIOUS
  <2>1. PICK j \in Positions : j <= plan.active /\ plan.order[j] = o[i]
    BY DEF IInv, Work, PlanReach, Orders
  <2>2. o[j] = o[i]
    BY <1>3, <2>1
  <2> QED BY <1>3, <2>1, <2>2, GoalCountAssumption DEF Orders, Positions
<1>5. Unstarted' /\ PlanOrder'
  BY <1>2, <1>3, <1>4, GoalCountAssumption
  DEF IInv, ReviseGoalPlan, CanRevise, Unstarted, PlanOrder, Positions
<1>6. PlanReach' /\ OneOpenAttempt' /\ ResultsBound'
  BY <1>2, <1>3, GoalCountAssumption
  DEF IInv, Work, ReviseGoalPlan, PlanReach, OneOpenAttempt, ResultsBound, ChainOf, Positions
<1>7. EffectReach' /\ ReviewsBound' /\ LimitsBound' /\ FinishedGoalsAreProven'
      /\ RepairsFollowFailures' /\ RepairBudgetPerGoal'
  BY DEF IInv, Work, ReviseGoalPlan, EffectReach, ReviewsBound, LimitsBound,
     FinishedGoalsAreProven, RepairsFollowFailures, RepairBudgetPerGoal, ChainOf
<1>8. ASSUME NEW d, PlanDone(d) PROVE PlanDone(d)'
  <2>2. \A i \in Positions : i <= plan.active
    <3> SUFFICES ASSUME NEW i \in Positions, i > plan.active PROVE FALSE
      BY <1>3 DEF Positions
    <3> QED BY <1>3, <1>8 DEF IInv, PlanOrder, PlanDone, MovesOn, ReviseGoalPlan, CanRevise
  <2> QED BY <1>2, <1>3, <1>8, <2>2 DEF PlanDone, ReviseGoalPlan
<1>9. ClosingSound'
  BY <1>8 DEF IInv, ReviseGoalPlan, ClosingSound
<1> QED BY <1>1, <1>5, <1>6, <1>7, <1>9 DEF IInv, Work

\* Creation starts the first goal on a chain that nothing else uses.
LEMMA CreatePreserves ==
  ASSUME IInv, CreateLoop
  PROVE  IInv'
<1> DEFINE first == plan.order[1]
<1>1. /\ plan.active = 0 /\ finalization = NoFinalization
      /\ \A g \in Goals : goals[g] = "ABSENT"
      /\ 1 \in Positions /\ first \in Goals /\ <<first, 0>> \in Chains
  <2>1. 1 \in Positions
    BY GoalCountAssumption DEF Positions
  <2>2. first \in Goals
    BY <2>1, ChainTypes DEF IInv
  <2>3. <<first, 0>> \in Chains
    BY <2>2 DEF Chains
  <2> QED BY <2>1, <2>2, <2>3 DEF IInv, CreateLoop, Unstarted
<1>2. /\ plan'.order = plan.order /\ plan'.active = 1
      /\ \A g \in Goals : goals'[g] = IF g = first THEN "ACTIVE" ELSE "ABSENT"
      /\ \A c \in Chains : effects'[c] = IF c = <<first, 0>> THEN "COMMITTED" ELSE effects[c]
      /\ execution'.state = "ACTIVE" /\ execution'.disposition = execution.disposition
  BY <1>1 DEF IInv, TypeOK, CreateLoop, Plans, Executions
<1>3. TypeOK'
  <2>1. plan' \in Plans /\ execution' \in Executions
    BY GoalCountAssumption DEF IInv, TypeOK, CreateLoop, Plans, Executions
  <2>2. goals' \in [Goals -> GoalStates] /\ effects' \in [Chains -> EffectStates]
    BY <1>1 DEF IInv, TypeOK, CreateLoop, GoalStates, EffectStates
  <2> QED BY <2>1, <2>2 DEF IInv, TypeOK, CreateLoop
<1>4. Unstarted' /\ PlanOrder'
  BY <1>1, <1>2, ChainTypes, GoalCountAssumption DEF IInv, Unstarted, PlanOrder, Positions
<1>5. PlanReach'
  BY <1>1, <1>2 DEF PlanReach, MovesOn
<1>6. /\ \A c \in Chains : effects[c] = "ABSENT" /\ results[c].state = "ABSENT" /\ reviews[c] = "ABSENT"
      /\ \A g \in Goals : repairs[g] = 0
  <2>1. ASSUME NEW c \in Chains PROVE effects[c] = "ABSENT"
    <3>1. c[1] \in Goals /\ c[2] \in 0..2 /\ c = <<c[1], c[2]>>
      BY DEF Chains
    <3>2. goals[c[1]] = "ABSENT"
      BY <1>1, <3>1
    <3>3. EffectReach
      BY DEF IInv, Work
    <3> QED BY <3>1, <3>2, <3>3, Zenon DEF EffectReach
  <2>2. ASSUME NEW c \in Chains PROVE results[c].state = "ABSENT" /\ reviews[c] = "ABSENT"
    BY <2>1 DEF IInv, Work, ResultsBound, ReviewsBound
  <2> QED BY <1>1, <2>1, <2>2 DEF IInv, Work, EffectReach
<1>7. EffectReach'
  <2>1. ASSUME NEW g \in Goals
        PROVE  /\ repairs'[g] = 0 /\ ChainOf(g)' = <<g, 0>>
               /\ goals'[g] # "ABSENT" => effects'[<<g, 0>>] = "COMMITTED"
    BY <1>1, <1>2, <1>6 DEF CreateLoop, ChainOf
  <2>2. ASSUME NEW g \in Goals, NEW k \in 0..2, effects'[<<g, k>>] # "ABSENT"
        PROVE  g = first /\ k = 0
    <3>1. <<g, k>> \in Chains
      BY DEF Chains
    <3> QED BY <1>2, <1>6, <2>2, <3>1
  <2>3. goals'[first] = "ACTIVE"
    BY <1>1, <1>2
  <2>4. ASSUME NEW g \in Goals
        PROVE  /\ (goals[g] = "ABSENT" => repairs[g] = 0)'
               /\ (goals[g] # "ABSENT" => effects[ChainOf(g)] # "ABSENT")'
               /\ (\A k \in 0..2 : effects[<<g, k>>] # "ABSENT" => goals[g] # "ABSENT" /\ k <= repairs[g])'
    BY <2>1, <2>2, <2>3
  <2> QED BY <2>4 DEF EffectReach
<1>8. OneOpenAttempt'
  BY <1>1, <1>2, <1>6 DEF CreateLoop, OneOpenAttempt, ChainOf
<1>9. ResultsBound' /\ ReviewsBound'
  BY <1>6 DEF CreateLoop, ResultsBound, ReviewsBound
<1>10. LimitsBound' /\ FinishedGoalsAreProven'
  BY <1>2 DEF LimitsBound, FinishedGoalsAreProven
<1>11. RepairsFollowFailures'
  BY <1>2, <1>6, ChainTypes DEF IInv, RepairsFollowFailures, Chains
<1>12. RepairBudgetPerGoal'
  <2>1. \A g \in Goals : repairs'[g] = 0
    BY <1>6 DEF CreateLoop
  <2>2. policy'.attempts \in 0..3
    BY DEF IInv, TypeOK, CreateLoop, Policies
  <2> QED BY <2>1, <2>2 DEF RepairBudgetPerGoal
<1>13. ClosingSound'
  <2>1. \A g \in Goals : goals[g] # "ACTIVE"
    BY <1>1
  <2> QED BY <1>1, <1>2 DEF IInv, CreateLoop, ClosingSound, Succeeds
<1> QED BY <1>3, <1>4, <1>5, <1>7, <1>8, <1>9, <1>10, <1>11, <1>12, <1>13 DEF IInv, Work

\* An observation settles an effect, and a settled one can only become OBSERVED.
LEMMA ObservePreserves ==
  ASSUME IInv, NEW c \in Chains, NEW r \in Receipts, ObserveExternalEffect(c, r)
  PROVE  IInv'
<1>1. /\ effects[c] # "ABSENT"
      /\ Recorded(r) \in Settled
      /\ effects[c] = "OBSERVED" => Recorded(r) = "OBSERVED"
      /\ effects'= [effects EXCEPT ![c] = Recorded(r)]
  BY DEF ObserveExternalEffect, CanObserve, Recorded, Receipts, Settled
<1>2. \A d \in Chains : /\ effects'[d] = IF d = c THEN Recorded(r) ELSE effects[d]
                        /\ effects[d] = "OBSERVED" => effects'[d] = "OBSERVED"
                        /\ effects'[d] = "ABSENT" <=> effects[d] = "ABSENT"
                        /\ effects[d] = "OBSERVED" /\ d = c => effects'[d] = "OBSERVED"
  BY <1>1 DEF IInv, TypeOK, Settled
<1>3. TypeOK'
  BY <1>1 DEF IInv, TypeOK, ObserveExternalEffect, EffectStates
<1>4. Unstarted' /\ PlanOrder' /\ RepairBudgetPerGoal' /\ ClosingSound'
  BY DEF IInv, ObserveExternalEffect, Unstarted, PlanOrder, RepairBudgetPerGoal, ClosingSound, PlanDone
<1>5. PlanReach' /\ ReviewsBound' /\ LimitsBound'
  BY DEF IInv, Work, ObserveExternalEffect, PlanReach, ReviewsBound, LimitsBound, ChainOf
<1>6. EffectReach' /\ RepairsFollowFailures'
  BY <1>2, ChainTypes DEF IInv, Work, ObserveExternalEffect, EffectReach, RepairsFollowFailures, ChainOf, Chains
<1>7. OneOpenAttempt'
  BY <1>1, <1>2 DEF IInv, Work, TypeOK, ObserveExternalEffect, OneOpenAttempt, ChainOf, EffectStates, Settled
<1>8. ResultsBound' /\ FinishedGoalsAreProven'
  BY <1>2, ChainTypes DEF IInv, Work, ObserveExternalEffect, ResultsBound, FinishedGoalsAreProven, ChainOf
<1> QED BY <1>3, <1>4, <1>5, <1>6, <1>7, <1>8 DEF IInv, Work

\* The entry stages the chain the active goal refers to, so the result is that goal's.
LEMMA StagePreserves ==
  ASSUME IInv, NEW c \in Chains, NEW outcome \in Outcomes,
         StagedByEntry(c), StageExternalResult(c, outcome)
  PROVE  IInv'
<1>1. /\ goals[c[1]] = "ACTIVE" /\ c[1] \in Goals /\ c = ChainOf(c[1])
      /\ plan.active \in Positions /\ plan.order[plan.active] = c[1]
      /\ effects[c] = "OBSERVED" /\ results[c].state = "ABSENT"
      /\ finalization = NoFinalization
  BY ChainTypes, ActiveGoal DEF IInv, StagedByEntry
<1>2. results' = [results EXCEPT ![c] =
        [state |-> "STAGED", goal |-> c[1], outcome |-> outcome, artifact |-> "NONE"]]
  BY <1>1 DEF StageExternalResult, IsOnlyActive
<1>3. /\ \A d \in Chains : d # c => results'[d] = results[d]
      /\ results'[c].state = "STAGED" /\ results'[c].goal = c[1]
      /\ current' = c
  BY <1>2 DEF IInv, TypeOK, StageExternalResult
<1>4. TypeOK'
  BY <1>1, <1>2 DEF IInv, TypeOK, StageExternalResult, ResultRecords
<1>5. Unstarted' /\ PlanOrder' /\ RepairBudgetPerGoal' /\ ClosingSound'
  BY DEF IInv, StageExternalResult, Unstarted, PlanOrder, RepairBudgetPerGoal, ClosingSound, PlanDone
<1>6. PlanReach' /\ EffectReach' /\ OneOpenAttempt' /\ LimitsBound' /\ RepairsFollowFailures'
  BY DEF IInv, Work, StageExternalResult, PlanReach, EffectReach, OneOpenAttempt, LimitsBound,
     RepairsFollowFailures, ChainOf
<1>7. ResultsBound'
  BY <1>1, <1>3 DEF IInv, Work, StageExternalResult, ResultsBound, ChainOf
<1>8. ReviewsBound'
  <2>1. reviews[c] = "ABSENT"
    BY <1>1 DEF IInv, Work, ReviewsBound
  <2> QED BY <1>3, <2>1 DEF IInv, Work, StageExternalResult, ReviewsBound
<1>9. FinishedGoalsAreProven'
  <2>1. \A g \in Goals : results[ChainOf(g)].state = "ACKNOWLEDGED" => ChainOf(g) # c
    BY <1>1
  <2> QED BY <1>3, <2>1, ChainTypes
      DEF IInv, Work, StageExternalResult, FinishedGoalsAreProven, ChainOf
<1> QED BY <1>9, <1>4, <1>5, <1>6, <1>7, <1>8 DEF IInv, Work

\* An acknowledgement adds the artifact of a staged result.
LEMMA AcknowledgePreserves ==
  ASSUME IInv, NEW c \in Chains, NEW v \in Verifications, AcknowledgeResult(c, v)
  PROVE  IInv'
<1>1. /\ results[c].state = "STAGED"
      /\ results' = [results EXCEPT ![c].state = "ACKNOWLEDGED", ![c].artifact = v]
  BY DEF AcknowledgeResult, CanAcknowledge
<1>2. /\ \A d \in Chains : d # c => results'[d] = results[d]
      /\ results'[c].state = "ACKNOWLEDGED" /\ results'[c].goal = results[c].goal
  BY <1>1 DEF IInv, TypeOK, ResultRecords
<1>3. TypeOK'
  <2>1. results[c] \in ResultRecords
    BY DEF IInv, TypeOK
  <2>2. [results[c] EXCEPT !.state = "ACKNOWLEDGED", !.artifact = v] \in ResultRecords
    BY <2>1 DEF ResultRecords
  <2>3. results' \in [Chains -> ResultRecords]
    BY <1>1, <2>2 DEF IInv, TypeOK
  <2> QED BY <2>3 DEF IInv, TypeOK, AcknowledgeResult
<1>4. Unstarted' /\ PlanOrder' /\ RepairBudgetPerGoal' /\ ClosingSound'
  BY DEF IInv, AcknowledgeResult, Unstarted, PlanOrder, RepairBudgetPerGoal, ClosingSound, PlanDone
<1>5. PlanReach' /\ EffectReach' /\ OneOpenAttempt' /\ LimitsBound' /\ RepairsFollowFailures'
  BY DEF IInv, Work, AcknowledgeResult, PlanReach, EffectReach, OneOpenAttempt, LimitsBound,
     RepairsFollowFailures, ChainOf
<1>6. ResultsBound'
  BY <1>1, <1>2 DEF IInv, Work, AcknowledgeResult, ResultsBound, ChainOf
<1>7. reviews[c] = "ABSENT" /\ \A g \in Goals : results[ChainOf(g)].state = "ACKNOWLEDGED" => ChainOf(g) # c
  BY <1>1 DEF IInv, Work, ReviewsBound
<1>8. ReviewsBound'
  BY <1>2, <1>7 DEF IInv, Work, AcknowledgeResult, ReviewsBound
<1>9. FinishedGoalsAreProven'
  <2>1. UNCHANGED <<goals, repairs, effects, reviews>>
    BY DEF AcknowledgeResult
  <2>2. ASSUME NEW g \in Goals, goals[g] \in {"DONE", "SKIPPED", "FAILED", "LIMITATION"}
        PROVE  results'[ChainOf(g)] = results[ChainOf(g)]
    BY <1>2, <1>7, <2>2, ChainTypes DEF IInv, Work, FinishedGoalsAreProven
  <2> QED BY <2>1, <2>2 DEF IInv, Work, FinishedGoalsAreProven, ChainOf
<1> QED BY <1>8, <1>9, <1>3, <1>4, <1>5, <1>6, <1>7 DEF IInv, Work

\* The entry reviews a chain once, and PASS needs a verified PASS result.
LEMMA ReviewPreserves ==
  ASSUME IInv, NEW c \in Chains, ReviewedByEntry(c), RecordReview(c, Verdict(c))
  PROVE  IInv'
<1>1. /\ reviews[c] = "ABSENT" /\ results[c].state = "ACKNOWLEDGED"
      /\ reviews' = [reviews EXCEPT ![c] = Verdict(c)]
  BY DEF ReviewedByEntry, RecordReview, CanReview
<1>2. /\ Verdict(c) \in Verdicts
      /\ Verdict(c) = "PASS" => results[c].outcome = "PASS" /\ results[c].artifact = "VERIFIED"
  BY DEF Verdict, Verdicts
<1>3. \A d \in Chains : reviews'[d] = IF d = c THEN Verdict(c) ELSE reviews[d]
  BY <1>1 DEF IInv, TypeOK
<1>4. TypeOK'
  BY <1>1, <1>2 DEF IInv, TypeOK, RecordReview
<1>5. Unstarted' /\ PlanOrder' /\ RepairBudgetPerGoal' /\ ClosingSound'
  BY DEF IInv, RecordReview, Unstarted, PlanOrder, RepairBudgetPerGoal, ClosingSound, PlanDone
<1>6. PlanReach' /\ EffectReach' /\ OneOpenAttempt' /\ ResultsBound'
  BY DEF IInv, Work, RecordReview, PlanReach, EffectReach, OneOpenAttempt, ResultsBound, ChainOf
<1>7. ReviewsBound'
  BY <1>1, <1>2, <1>3 DEF IInv, Work, RecordReview, ReviewsBound
<1>8. FinishedGoalsAreProven' /\ LimitsBound'
  BY <1>1, <1>2, <1>3, ChainTypes
  DEF IInv, Work, RecordReview, FinishedGoalsAreProven, LimitsBound, ChainOf, Verdicts
<1>9. RepairsFollowFailures'
  <2>1. \A g \in Goals, k \in 1..2 : \A j \in 0..(k - 1) :
          reviews[<<g, j>>] = "REPAIR" => reviews'[<<g, j>>] = "REPAIR"
    BY <1>1, <1>3 DEF Chains
  <2> QED BY <2>1 DEF IInv, Work, RecordReview, RepairsFollowFailures
<1> QED BY <1>4, <1>5, <1>6, <1>7, <1>8, <1>9 DEF IInv, Work

\* Where the loop stands when goal g is finished with disposition d.
Finishing(g, d) ==
  /\ goals[g] = "ACTIVE" /\ execution.state # "NONE"
  /\ plan.active \in Positions /\ plan.order[plan.active] = g
  /\ finalization = NoFinalization
  /\ ChainOf(g) \in Chains /\ effects[ChainOf(g)] = "OBSERVED"
  /\ results[ChainOf(g)].state = "ACKNOWLEDGED" /\ results[ChainOf(g)].goal = g
  /\ reviews[ChainOf(g)] # "ABSENT"
  /\ d \in {"DONE", "SKIPPED", "FAILED", "LIMITATION"}
  /\ d = "DONE" => results[ChainOf(g)].outcome = "PASS" /\ results[ChainOf(g)].artifact = "VERIFIED"
  /\ d = "LIMITATION" => reviews[ChainOf(g)] = "LIMITATION"

\* What the guards of AdvanceGoal say of the chain a goal is finished with.
LEMMA AdvanceFacts ==
  ASSUME IInv, NEW g \in Goals, NEW d,
         d = GoalDisposition(ChainOf(g)), AdvanceGoal(g, ChainOf(g), d)
  PROVE  Finishing(g, d)
<1>1. /\ goals[g] = "ACTIVE" /\ reviews[ChainOf(g)] # "ABSENT"
      /\ results[ChainOf(g)].state = "ACKNOWLEDGED" /\ results[ChainOf(g)].goal = g
      /\ Earned(g, ChainOf(g), d)
  BY DEF AdvanceGoal, CanAdvance
<1>2. ChainOf(g) \in Chains
  BY ChainTypes DEF IInv
<1>3. effects[ChainOf(g)] = "OBSERVED"
  BY <1>1, <1>2 DEF IInv, Work, ResultsBound
<1>4. d \in {"DONE", "SKIPPED", "FAILED", "LIMITATION"}
  BY DEF GoalDisposition
<1>5. d = "DONE" => results[ChainOf(g)].outcome = "PASS" /\ results[ChainOf(g)].artifact = "VERIFIED"
  BY <1>1, <1>2 DEF Earned, IInv, Work, ReviewsBound
<1>6. d = "LIMITATION" => reviews[ChainOf(g)] = "LIMITATION"
  BY <1>1 DEF Earned
<1> QED BY <1>1, <1>2, <1>3, <1>4, <1>5, <1>6, ActiveGoal DEF Finishing

\* A goal that ends the plan, or is its last one, leaves every later position absent.
LEMMA FinishPreserves ==
  ASSUME IInv, NEW g \in Goals, NEW d, d = GoalDisposition(ChainOf(g)),
         AdvanceGoal(g, ChainOf(g), d), ~Activates(d)
  PROVE  IInv'
<1> Finishing(g, d)
  BY AdvanceFacts
<1> USE DEF Finishing
<1>1. /\ goals' = [goals EXCEPT ![g] = d]
      /\ UNCHANGED <<execution, plan, repairs, effects, results, reviews, current, policy,
                     finalization, closure>>
  BY DEF AdvanceGoal
<1>2. \A h \in Goals : goals'[h] = IF h = g THEN d ELSE goals[h]
  BY <1>1 DEF IInv, TypeOK
<1>3. TypeOK'
  BY <1>1 DEF IInv, TypeOK, GoalStates
<1>4. Unstarted' /\ RepairBudgetPerGoal' /\ ClosingSound'
  BY <1>1, <1>2 DEF IInv, Unstarted, RepairBudgetPerGoal, ClosingSound, NoFinalization, Succeeds
<1>5. PlanOrder'
  BY <1>1, <1>2, ChainTypes DEF IInv, PlanOrder
<1>6. PlanReach'
  <2>1. MovesOn(d) => plan.active = GoalCount
    BY GoalCountAssumption DEF Activates, Positions
  <2> QED BY <1>1, <1>2, <2>1 DEF IInv, Work, PlanReach
<1>7. EffectReach' /\ OneOpenAttempt' /\ ResultsBound' /\ ReviewsBound' /\ RepairsFollowFailures'
  BY <1>1, <1>2 DEF IInv, Work, EffectReach, OneOpenAttempt, ResultsBound, ReviewsBound,
     RepairsFollowFailures, ChainOf
<1>8. LimitsBound' /\ FinishedGoalsAreProven'
  BY <1>1, <1>2 DEF IInv, Work, LimitsBound, FinishedGoalsAreProven, ChainOf
<1> QED BY <1>3, <1>4, <1>5, <1>6, <1>7, <1>8 DEF IInv, Work

\* Moving on starts exactly the next goal of the plan, on its first chain.
LEMMA ActivatePreserves ==
  ASSUME IInv, NEW g \in Goals, NEW d, d = GoalDisposition(ChainOf(g)),
         AdvanceGoal(g, ChainOf(g), d), Activates(d)
  PROVE  IInv'
<1> DEFINE next == NextGoal
           start == <<next, 0>>
<1> Finishing(g, d)
  BY AdvanceFacts
<1> USE DEF Finishing
<1>1. /\ MovesOn(d) /\ plan.active + 1 \in Positions
      /\ next \in Goals /\ goals[next] = "ABSENT" /\ next # g
      /\ start \in Chains /\ effects[start] = "ABSENT"
  <2>1. MovesOn(d) /\ plan.active + 1 \in Positions
    BY GoalCountAssumption DEF Activates, Positions
  <2>2. goals[next] = "ABSENT" /\ effects[start] = "ABSENT"
    BY DEF AdvanceGoal, CanAdvance
  <2>3. next \in Goals /\ start \in Chains
    <3>1. next \in Goals
      BY <2>1, ChainTypes DEF IInv, NextGoal
    <3> QED BY <3>1 DEF Chains
  <2> QED BY <2>1, <2>2, <2>3
<1>2. /\ goals' = [goals EXCEPT ![g] = d, ![next] = "ACTIVE"]
      /\ effects' = [effects EXCEPT ![start] = "COMMITTED"]
      /\ plan' = [plan EXCEPT !.active = plan.active + 1]
      /\ UNCHANGED <<execution, repairs, results, reviews, current, policy, finalization, closure>>
  BY DEF AdvanceGoal
<1>2a. UNCHANGED <<execution, repairs, results, reviews, current, policy, finalization, closure>>
  BY <1>2
<1>3. /\ \A h \in Goals : goals'[h] = IF h = next THEN "ACTIVE" ELSE IF h = g THEN d ELSE goals[h]
      /\ \A c \in Chains : effects'[c] = IF c = start THEN "COMMITTED" ELSE effects[c]
      /\ plan'.order = plan.order /\ plan'.active = plan.active + 1
  BY <1>1, <1>2 DEF IInv, TypeOK, Plans
<1>4. \A k \in 0..2 : effects[<<next, k>>] = "ABSENT"
  BY <1>1 DEF IInv, Work, EffectReach
<1>5. repairs'[next] = 0
  BY <1>1, <1>2 DEF IInv, Work, EffectReach
<1>6. TypeOK'
  <2>1. goals' \in [Goals -> GoalStates] /\ effects' \in [Chains -> EffectStates]
    BY <1>1, <1>2 DEF IInv, TypeOK, GoalStates, EffectStates
  <2>2. plan' \in Plans
    BY <1>1, <1>2, GoalCountAssumption DEF IInv, TypeOK, Plans, Positions
  <2> QED BY <1>2, <2>1, <2>2 DEF IInv, TypeOK
<1> HIDE DEF next, start
<1>7. Unstarted'
  BY <1>2 DEF Unstarted
<1>8. PlanOrder'
  <2>1. plan.order[plan.active + 1] = next
    BY DEF next, NextGoal
  <2> SUFFICES ASSUME NEW i \in Positions
               PROVE  /\ i < plan.active + 1 => MovesOn(goals'[plan.order[i]])
                      /\ i = plan.active + 1 => goals'[plan.order[i]] # "ABSENT"
                      /\ i > plan.active + 1 => goals'[plan.order[i]] = "ABSENT"
    BY <1>1, <1>3 DEF PlanOrder
  <2>2. plan.order[i] \in Goals /\ (plan.order[i] = g => i = plan.active)
        /\ (plan.order[i] = next => i = plan.active + 1)
    BY <1>1, <2>1, ChainTypes DEF IInv
  <2>3. /\ i < plan.active => MovesOn(goals[plan.order[i]])
        /\ i > plan.active => goals[plan.order[i]] = "ABSENT"
    BY DEF IInv, PlanOrder
  <2> QED BY <1>1, <1>3, <2>1, <2>2, <2>3, GoalCountAssumption DEF Positions
<1>9. PlanReach'
  <2>1. plan.order[plan.active + 1] = next
    BY DEF next, NextGoal
  <2>2. ASSUME NEW h \in Goals, goals'[h] # "ABSENT"
        PROVE  \E i \in Positions : i <= plan.active + 1 /\ plan.order[i] = h
    <3>1. CASE h = next
      BY <1>1, <2>1, <3>1, GoalCountAssumption DEF Positions
    <3>2. CASE h # next
      <4>1. goals[h] # "ABSENT"
        BY <1>3, <2>2, <3>2
      <4>2. PICK i \in Positions : i <= plan.active /\ plan.order[i] = h
        BY <4>1 DEF IInv, Work, PlanReach
      <4> QED BY <4>2, GoalCountAssumption DEF Positions
    <3> QED BY <3>1, <3>2
  <2>3. ~MovesOn(goals'[plan.order[plan.active + 1]])
    BY <1>1, <1>3, <2>1 DEF MovesOn
  <2> QED BY <1>3, <2>2, <2>3 DEF PlanReach
<1>10. EffectReach'
  <2>1. ASSUME NEW h \in Goals
        PROVE  /\ (goals[h] = "ABSENT" => repairs[h] = 0)'
               /\ (goals[h] # "ABSENT" => effects[ChainOf(h)] # "ABSENT")'
               /\ (\A k \in 0..2 : effects[<<h, k>>] # "ABSENT" => goals[h] # "ABSENT" /\ k <= repairs[h])'
    <3>1. CASE h = next
      <4>1. \A k \in 0..2 : <<h, k>> \in Chains /\ (<<h, k>> = start <=> k = 0)
        BY <3>1 DEF Chains, start
      <4>2. goals'[h] = "ACTIVE" /\ repairs'[h] = 0 /\ ChainOf(h)' = start
        BY <1>3, <1>5, <3>1 DEF ChainOf, start
      <4>3. effects'[start] = "COMMITTED"
        BY <1>1, <1>3
      <4>4. \A k \in 0..2 : k # 0 => effects'[<<h, k>>] = "ABSENT"
        BY <1>3, <1>4, <3>1, <4>1
      <4> QED BY <4>2, <4>3, <4>4
    <3>2. CASE h # next
      <4>1. \A k \in 0..2 : <<h, k>> \in Chains /\ <<h, k>> # start
        BY <3>2 DEF Chains, start
      <4>2. ChainOf(h)' = ChainOf(h) /\ ChainOf(h) \in Chains /\ ChainOf(h) # start
        BY <1>2, <3>2, ChainTypes DEF IInv, ChainOf, start
      <4>3. goals'[h] = "ABSENT" <=> goals[h] = "ABSENT"
        BY <1>3, <3>2
      <4> QED BY <1>2a, <1>3, <4>1, <4>2, <4>3 DEF IInv, Work, EffectReach
    <3> QED BY <3>1, <3>2
  <2> QED BY <2>1 DEF EffectReach
<1>11. OneOpenAttempt'
  <2> SUFFICES ASSUME NEW c \in Chains, effects'[c] \in {"COMMITTED", "UNKNOWN", "UNVERIFIABLE"}
               PROVE  c = start
    BY <1>1, <1>3, <1>5 DEF OneOpenAttempt, next, NextGoal, ChainOf, start
  <2> QED BY <1>3 DEF IInv, Work, OneOpenAttempt
<1>12. ResultsBound' /\ ReviewsBound'
  <2>1. ReviewsBound'
    BY <1>2 DEF IInv, Work, ReviewsBound
  <2>2. results[start].state = "ABSENT"
    BY <1>1 DEF IInv, Work, ResultsBound
  <2>3. plan'.order[plan'.active] = next
    BY <1>3 DEF next, NextGoal
  <2>4. ASSUME NEW c \in Chains, results[c].state # "ABSENT"
        PROVE  effects'[c] = "OBSERVED" /\ results[c].goal = c[1] /\ c # start
    BY <1>3, <2>2, <2>4 DEF IInv, Work, ResultsBound
  <2> QED BY <1>2, <1>5, <2>1, <2>3, <2>4 DEF ResultsBound, ChainOf, start
<1>13. LimitsBound'
  BY <1>1, <1>2, <1>3 DEF IInv, Work, LimitsBound, ChainOf
<1>14. FinishedGoalsAreProven'
  <2>1. ASSUME NEW h \in Goals, goals'[h] \in {"DONE", "SKIPPED", "FAILED", "LIMITATION"}
        PROVE  (/\ effects[ChainOf(h)] = "OBSERVED"
                /\ results[ChainOf(h)].state = "ACKNOWLEDGED" /\ results[ChainOf(h)].goal = h
                /\ reviews[ChainOf(h)] # "ABSENT"
                /\ goals[h] = "DONE" => results[ChainOf(h)].outcome = "PASS"
                                      /\ results[ChainOf(h)].artifact = "VERIFIED")'
    <3>1. h # next
      BY <1>3, <2>1
    <3>2. ChainOf(h)' = ChainOf(h) /\ ChainOf(h) \in Chains
      BY <1>2, ChainTypes DEF IInv, ChainOf
    <3>3. effects[ChainOf(h)] = "OBSERVED" => effects'[ChainOf(h)] = "OBSERVED"
      BY <1>1, <1>3, <3>2
    <3>4. CASE h = g
      BY <1>2a, <1>3, <3>1, <3>2, <3>3, <3>4
    <3>5. CASE h # g
      BY <1>2a, <1>3, <2>1, <3>1, <3>2, <3>3, <3>5 DEF IInv, Work, FinishedGoalsAreProven
    <3> QED BY <3>4, <3>5
  <2> QED BY <2>1 DEF FinishedGoalsAreProven
<1>15. RepairsFollowFailures'
  <2>1. \A h \in Goals, k \in 1..2 : effects'[<<h, k>>] = effects[<<h, k>>]
    BY <1>3 DEF Chains, start
  <2>2. RepairsFollowFailures /\ repairs' = repairs /\ reviews' = reviews
    BY <1>2 DEF IInv, Work
  <2>3. ASSUME NEW h \in Goals, NEW k \in 1..2, (effects[<<h, k>>])' # "ABSENT"
        PROVE  k < MaxAttempts[h] /\ k <= repairs[h]
               /\ \E j \in 0..(k - 1) : reviews[<<h, j>>] = "REPAIR"
    BY <2>1, <2>2, <2>3, Zenon DEF RepairsFollowFailures
  <2> QED BY <2>2, <2>3, Zenon DEF RepairsFollowFailures
<1>16. RepairBudgetPerGoal'
  <2>1. policy.attempts \in 0..3
    BY DEF IInv, TypeOK, Policies
  <2> QED BY <1>2, <1>3, <1>5, <2>1 DEF IInv, RepairBudgetPerGoal
<1>17. ClosingSound'
  BY <1>2 DEF IInv, ClosingSound, NoFinalization, Succeeds
<1> QED BY <1>6, <1>7, <1>8, <1>9, <1>10, <1>11, <1>12, <1>13, <1>14, <1>15, <1>16, <1>17 DEF IInv, Work

\* The counters of the active goal bound its repair ordinal, whoever's they were before.
LEMMA CountersTyped ==
  ASSUME IInv, NEW g \in Goals, NEW f \in Failures, CanContinueRepair(g)
  PROVE  /\ goals[g] = "ACTIVE" /\ IsOnlyActive(g)
         /\ Counters(g).attempts \in 0..3 /\ SameCount(g, f) \in 1..2
         /\ repairs[g] <= Counters(g).attempts
<1>1. goals[g] = "ACTIVE" /\ IsOnlyActive(g)
  BY DEF CanContinueRepair, IsOnlyActive
<1>2. policy.attempts \in 0..3 /\ policy \in Policies
  BY DEF IInv, TypeOK, Policies
<1>3. Counters(g).attempts = IF policy.goal = g THEN policy.attempts ELSE 0
  BY <1>2 DEF Counters, Policies
<1>4. SameCount(g, f) \in 1..2
  BY DEF SameCount
<1>5. repairs[g] <= Counters(g).attempts
  BY <1>1, <1>3 DEF IInv, RepairBudgetPerGoal
<1> QED BY <1>1, <1>2, <1>3, <1>4, <1>5

\* A repair decision never lowers the count, and raises it by one unless exhausted.
LEMMA DecidedTyped ==
  ASSUME IInv, NEW g \in Goals, NEW f \in Failures, NEW budget \in 0..3, CanContinueRepair(g)
  PROVE  /\ Decided(g, f, budget) \in Policies
         /\ Decided(g, f, budget).goal = g
         /\ Decided(g, f, budget).attempts >= Counters(g).attempts
         /\ Exhausted(g, f, budget) \/ Counters(g).attempts < budget
         /\ ~Exhausted(g, f, budget) => Decided(g, f, budget).attempts = Counters(g).attempts + 1
<1>1. Counters(g).attempts \in 0..3 /\ SameCount(g, f) \in 1..2
  BY CountersTyped
<1>2. Exhausted(g, f, budget) \/ Counters(g).attempts < budget
  BY <1>1 DEF Exhausted
<1>3. Decided(g, f, budget) \in Policies
  BY <1>1, <1>2 DEF Decided, Policies
<1> QED BY <1>1, <1>2, <1>3 DEF Decided

\* Authorizing a repair without scheduling it only uses up the counters.
LEMMA AuthorizePreserves ==
  ASSUME IInv, NEW g \in Goals, NEW f \in Failures, AuthorizeRepair(g, f, 3)
  PROVE  IInv'
<1>1. CanContinueRepair(g) /\ policy' = Decided(g, f, 3)
  BY DEF AuthorizeRepair
<1>2. TypeOK'
  BY <1>1, DecidedTyped DEF IInv, TypeOK, AuthorizeRepair
<1>3. Work'
  BY WorkKept DEF IInv, AuthorizeRepair
<1>4. Unstarted' /\ PlanOrder' /\ ClosingSound'
  BY DEF IInv, AuthorizeRepair, Unstarted, PlanOrder, ClosingSound, PlanDone
<1>5. RepairBudgetPerGoal'
  <2>1. /\ \A h \in Goals : goals[h] = "ACTIVE" <=> h = g
        /\ repairs[g] <= Counters(g).attempts /\ Counters(g).attempts \in 0..3
    BY <1>1, CountersTyped DEF IsOnlyActive
  <2>2. policy'.goal = g /\ policy'.attempts >= Counters(g).attempts /\ policy'.attempts \in 0..3
    BY <1>1, DecidedTyped DEF Policies
  <2>3. repairs[g] \in 0..2
    BY DEF IInv, TypeOK
  <2> QED BY <2>1, <2>2, <2>3 DEF AuthorizeRepair, RepairBudgetPerGoal
<1> QED BY <1>2, <1>3, <1>4, <1>5 DEF IInv

\* Scheduling moves the goal to the next ordinal, whose chain was never used.
LEMMA SchedulePreserves ==
  ASSUME IInv, NEW g \in Goals, NEW f \in Failures,
         ScheduleRepair(g, f, RepairBudget(g))
  PROVE  IInv'
<1> DEFINE budget == RepairBudget(g)
           ordinal == Counters(g).attempts + 1
           start == <<g, ordinal>>
<1>1. budget \in 0..2 /\ CanSchedule(g, f, budget) /\ CanContinueRepair(g)
  BY MaxAttemptsAssumption DEF RepairBudget, ScheduleRepair, CanSchedule
<1>2. /\ goals[g] = "ACTIVE" /\ \A h \in Goals : goals[h] = "ACTIVE" <=> h = g
      /\ Counters(g).attempts \in 0..3 /\ repairs[g] <= Counters(g).attempts
      /\ repairs[g] \in 0..2
      /\ plan.active \in Positions /\ plan.order[plan.active] = g
      /\ execution.state # "NONE"
  BY <1>1, CountersTyped, ActiveGoal DEF IsOnlyActive, IInv, TypeOK
<1>3. UNCHANGED <<execution, plan, goals, results, reviews, current, finalization, closure>>
  BY DEF ScheduleRepair
<1>4. Unstarted' /\ PlanOrder' /\ ClosingSound'
  BY <1>3 DEF IInv, Unstarted, PlanOrder, ClosingSound, PlanDone
<1>5. PlanReach' /\ ReviewsBound'
  BY <1>3 DEF IInv, Work, PlanReach, ReviewsBound
<1>6. CASE Exhausted(g, f, budget)
  <2>1. policy' = Decided(g, f, budget) /\ UNCHANGED <<repairs, effects>>
    BY <1>6 DEF ScheduleRepair
  <2>2. TypeOK'
    BY <1>1, <1>3, <2>1, DecidedTyped DEF IInv, TypeOK
  <2>3. Work'
    BY <1>3, <2>1, WorkKept DEF IInv
  <2>4. RepairBudgetPerGoal'
    <3>1. policy'.goal = g /\ policy'.attempts >= Counters(g).attempts /\ policy'.attempts \in 0..3
      BY <1>1, <2>1, DecidedTyped DEF Policies
    <3> QED BY <1>2, <1>3, <2>1, <3>1 DEF RepairBudgetPerGoal
  <2> QED BY <1>4, <2>2, <2>3, <2>4 DEF IInv
<1>7. CASE ~Exhausted(g, f, budget)
  <2>1. /\ policy' = [Decided(g, f, budget) EXCEPT !.state = "REPAIR_SCHEDULED"]
        /\ repairs' = [repairs EXCEPT ![g] = ordinal]
        /\ effects' = [effects EXCEPT ![start] = "COMMITTED"]
        /\ effects[start] = "ABSENT"
    BY <1>1, <1>7 DEF ScheduleRepair, CanSchedule
  <2>2. ordinal \in 1..2 /\ ordinal < MaxAttempts[g] /\ repairs[g] < ordinal
    BY <1>1, <1>2, <1>7, DecidedTyped, MaxAttemptsAssumption DEF RepairBudget
  <2>3. start \in Chains
    BY <2>2 DEF Chains
  <2>4. TypeOK'
    <3>1. Decided(g, f, budget) \in Policies
      BY <1>1, DecidedTyped
    <3>2. policy' \in Policies
      BY <2>1, <3>1 DEF Policies
    <3>3. repairs' \in [Goals -> 0..2] /\ effects' \in [Chains -> EffectStates]
      BY <2>1, <2>2, <2>3 DEF IInv, TypeOK, EffectStates
    <3> QED BY <1>3, <3>2, <3>3 DEF IInv, TypeOK
  <2>5. /\ \A h \in Goals : repairs'[h] = IF h = g THEN ordinal ELSE repairs[h]
        /\ \A c \in Chains : effects'[c] = IF c = start THEN "COMMITTED" ELSE effects[c]
        /\ policy'.goal = g /\ policy'.attempts = ordinal
    <3>1. Decided(g, f, budget).goal = g /\ Decided(g, f, budget).attempts = ordinal
          /\ Decided(g, f, budget) \in Policies
      BY <1>1, <1>7, DecidedTyped
    <3>2. policy'.goal = g /\ policy'.attempts = ordinal
      BY <2>1, <3>1 DEF Policies
    <3> QED BY <2>1, <2>3, <3>2 DEF IInv, TypeOK
  <2>6. RepairBudgetPerGoal'
    BY <1>2, <1>3, <2>2, <2>5 DEF RepairBudgetPerGoal
  <2>7. /\ reviews[ChainOf(g)] = "REPAIR" /\ ChainOf(g) \in Chains
        /\ effects[ChainOf(g)] = "OBSERVED"
        /\ results[start].state = "ABSENT"
    <3>1. reviews[ChainOf(g)] = "REPAIR" /\ ChainOf(g) \in Chains
      BY <1>1, ChainTypes DEF CanContinueRepair, IInv
    <3>2. results[ChainOf(g)].state = "ACKNOWLEDGED"
      BY <3>1 DEF IInv, Work, ReviewsBound
    <3> QED BY <2>1, <2>3, <3>1, <3>2 DEF IInv, Work, ResultsBound
  <2> HIDE DEF ordinal, start, budget
  <2>8. EffectReach'
    <3>1. ASSUME NEW h \in Goals
          PROVE  /\ (goals[h] = "ABSENT" => repairs[h] = 0)'
                 /\ (goals[h] # "ABSENT" => effects[ChainOf(h)] # "ABSENT")'
                 /\ (\A k \in 0..2 : effects[<<h, k>>] # "ABSENT" => goals[h] # "ABSENT" /\ k <= repairs[h])'
      <4>0. \A k \in 0..2 : <<h, k>> \in Chains
        BY DEF Chains
      <4>1. CASE h = g
        <5>1. goals'[h] = "ACTIVE" /\ repairs'[h] = ordinal /\ ChainOf(h)' = start
          BY <1>2, <1>3, <2>5, <4>1 DEF ChainOf, start
        <5>2. effects'[start] = "COMMITTED"
          BY <2>3, <2>5
        <5>3. \A k \in 0..2 : effects'[<<h, k>>] # "ABSENT" => k <= ordinal
          <6>1. \A k \in 0..2 : effects[<<h, k>>] # "ABSENT" => k <= repairs[h]
            BY DEF IInv, Work, EffectReach
          <6>2. \A k \in 0..2 : <<h, k>> = start => k = ordinal
            BY DEF start
          <6> QED BY <1>2, <2>2, <2>5, <4>0, <4>1, <6>1, <6>2
        <5> QED BY <5>1, <5>2, <5>3
      <4>2. CASE h # g
        <5>1. \A k \in 0..2 : <<h, k>> # start
          BY <4>2 DEF start
        <5>2. repairs'[h] = repairs[h] /\ ChainOf(h)' = ChainOf(h) /\ repairs[h] \in 0..2
          BY <2>5, <4>2 DEF ChainOf, IInv, TypeOK
        <5>3. \A k \in 0..2 : effects'[<<h, k>>] = effects[<<h, k>>]
          BY <2>5, <4>0, <5>1
        <5> QED BY <1>3, <5>2, <5>3 DEF IInv, Work, EffectReach, ChainOf
      <4> QED BY <4>1, <4>2
    <3> QED BY <3>1 DEF EffectReach
  <2>9. OneOpenAttempt'
    <3> SUFFICES ASSUME NEW c \in Chains, effects'[c] \in {"COMMITTED", "UNKNOWN", "UNVERIFIABLE"}
                 PROVE  c = start
      BY <1>2, <1>3, <2>5 DEF OneOpenAttempt, ChainOf, start
    <3> QED BY <1>2, <2>5, <2>7 DEF IInv, Work, OneOpenAttempt
  <2>10. ResultsBound'
    <3>1. ASSUME NEW c \in Chains, results[c].state # "ABSENT"
          PROVE  effects'[c] = "OBSERVED" /\ results[c].goal = c[1] /\ c # start
      BY <2>5, <2>7, <3>1 DEF IInv, Work, ResultsBound
    <3>2. ChainOf(g)' = start
      BY <2>5 DEF ChainOf, start
    <3> QED BY <1>2, <1>3, <3>1, <3>2 DEF ResultsBound
  <2>11. LimitsBound' /\ FinishedGoalsAreProven'
    <3>1. ASSUME NEW h \in Goals, goals[h] # "ACTIVE"
          PROVE  ChainOf(h)' = ChainOf(h) /\ ChainOf(h) \in Chains /\ ChainOf(h) # start
      BY <1>2, <2>5, <3>1, ChainTypes DEF IInv, ChainOf, start
    <3>2. LimitsBound'
      BY <1>3, <3>1 DEF IInv, Work, LimitsBound
    <3>3. FinishedGoalsAreProven'
      BY <1>3, <2>5, <3>1 DEF IInv, Work, FinishedGoalsAreProven
    <3> QED BY <3>2, <3>3
  <2>12. RepairsFollowFailures'
    <3> SUFFICES ASSUME NEW h \in Goals, NEW k \in 1..2, effects'[<<h, k>>] # "ABSENT"
                 PROVE  /\ k < MaxAttempts[h] /\ k <= repairs'[h]
                        /\ \E j \in 0..(k - 1) : reviews[<<h, j>>] = "REPAIR"
      BY <1>3 DEF RepairsFollowFailures
    <3>1. CASE <<h, k>> = start
      <4>1. h = g /\ k = ordinal
        BY <3>1 DEF start
      <4> QED BY <1>2, <2>2, <2>5, <2>7, <4>1 DEF ChainOf
    <3>2. CASE <<h, k>> # start
      <4>1. effects[<<h, k>>] # "ABSENT"
        BY <2>5, <3>2 DEF Chains
      <4>2. repairs[h] \in 0..2 /\ repairs[h] <= repairs'[h] /\ repairs'[h] \in 0..2
        BY <2>2, <2>5 DEF IInv, TypeOK
      <4>3. /\ k < MaxAttempts[h] /\ k <= repairs[h]
            /\ \E j \in 0..(k - 1) : reviews[<<h, j>>] = "REPAIR"
        BY <4>1 DEF IInv, Work, RepairsFollowFailures
      <4>4. k <= repairs'[h]
        BY <4>2, <4>3
      <4> QED BY <4>3, <4>4
    <3> QED BY <3>1, <3>2
  <2> QED BY <1>4, <1>5, <2>4, <2>6, <2>8, <2>9, <2>10, <2>11, <2>12 DEF IInv, Work
<1> QED BY <1>6, <1>7

\* A success that is prepared, with whatever chain, was earned: the current result is the
\* chain of the plan's last goal, and every goal before it moved on.
LEMMA SuccessMeansDone ==
  ASSUME IInv, NEW c \in Chains, FinalizedByEntry(c), CanFinalize(FinalDisposition(c)),
         Succeeds(FinalDisposition(c)), \A g \in Goals : goals[g] # "STOPPED"
  PROVE  PlanDone(FinalDisposition(c))
<1> DEFINE last == plan.order[plan.active]
<1>1. /\ current \in Chains /\ reviews[current] # "ABSENT"
      /\ results[current].state = "ACKNOWLEDGED"
      /\ \A g \in Goals : goals[g] # "ACTIVE"
  BY DEF CanFinalize, ResultChainComplete, IInv, TypeOK
<1>2. execution.state # "NONE"
  <2>1. current[1] \in Goals /\ current[2] \in 0..2 /\ effects[<<current[1], current[2]>>] # "ABSENT"
    BY <1>1, ChainTypes DEF IInv, Work, ResultsBound
  <2>2. goals[current[1]] # "ABSENT"
    BY <2>1 DEF IInv, Work, EffectReach
  <2> QED BY <2>1, <2>2 DEF IInv, Unstarted
<1>3. /\ plan.active \in Positions /\ last \in Goals
      /\ goals[last] # "ABSENT"
  BY <1>2, ChainTypes DEF IInv, PlanOrder
<1>4. goals[last] \in {"DONE", "SKIPPED", "FAILED", "LIMITATION"}
  BY <1>1, <1>3 DEF IInv, TypeOK, GoalStates
<1>5. current = ChainOf(last)
  BY <1>3, <1>4, ChainTypes DEF IInv, Work, FinishedGoalsAreProven, ResultsBound
<1>6. goals[last] # "FAILED" /\ \A g \in Goals : goals[g] # "FAILED"
  BY <1>3 DEF FinalDisposition, Succeeds
<1>7. goals[last] # "LIMITATION"
  <2>1. results[current].goal = last
    <3>1. results[current].goal = current[1]
      BY <1>1 DEF IInv, Work, ResultsBound
    <3> QED BY <1>3, <1>5, <3>1, ChainTypes DEF IInv
  <2>2. FinalDisposition(c) = "SUCCEEDED" => goals[last] = "DONE"
    BY <2>1 DEF CanFinalize, Supported
  <2>3. FinalDisposition(c) = "SUCCEEDED_WITH_LIMITATIONS" => goals[last] \in {"DONE", "SKIPPED"}
    <3>1. goals[last] \in {goals[g] : g \in Goals} \ {"ABSENT"}
      BY <1>3
    <3> QED BY <3>1 DEF FinalDisposition
  <2> QED BY <2>2, <2>3 DEF Succeeds
<1>8. plan.active = GoalCount
  BY <1>3, <1>4, <1>6, <1>7 DEF IInv, Work, PlanReach, MovesOn
<1>9. \A i \in Positions : MovesOn(goals[plan.order[i]])
  <2> SUFFICES ASSUME NEW i \in Positions PROVE MovesOn(goals[plan.order[i]])
    OBVIOUS
  <2>1. CASE i < plan.active
    BY <1>2, <2>1 DEF IInv, PlanOrder
  <2>2. CASE i = plan.active
    BY <1>4, <1>6, <1>7, <2>2 DEF MovesOn
  <2> QED BY <1>8, <2>1, <2>2, GoalCountAssumption DEF Positions
<1>10. ASSUME FinalDisposition(c) = "SUCCEEDED"
       PROVE  \A i \in Positions : goals[plan.order[i]] = "DONE"
  <2> SUFFICES ASSUME NEW i \in Positions, goals[plan.order[i]] = "SKIPPED" PROVE FALSE
    BY <1>9 DEF MovesOn
  <2> DEFINE states == {goals[g] : g \in Goals} \ {"ABSENT"}
  <2>1. plan.order[i] \in Goals
    BY ChainTypes DEF IInv
  <2>2. "SKIPPED" \in states
    BY <2>1
  <2>3. \A g \in Goals : goals[g] # "ABSENT" => goals[g] \in {"DONE", "SKIPPED"}
    BY <1>9 DEF IInv, Work, PlanReach, MovesOn
  <2>4. states \subseteq {"DONE", "SKIPPED"}
    BY <2>3
  <2> QED BY <1>10, <2>2, <2>4 DEF FinalDisposition
<1> QED BY <1>9, <1>10 DEF PlanDone

\* Preparing the finalization records a success only for a finished plan.
LEMMA FinalizePreserves ==
  ASSUME IInv, NEW c \in Chains, FinalizedByEntry(c),
         PrepareFinalization(FinalDisposition(c))
  PROVE  IInv'
<1> DEFINE d == FinalDisposition(c)
<1>1. /\ d \in Dispositions /\ CanFinalize(d)
      /\ \A g \in Goals : goals[g] # "ACTIVE"
  BY DEF FinalDisposition, Dispositions, PrepareFinalization, CanFinalize
<1>2. /\ finalization'.state = "PREPARED" /\ finalization'.disposition = d
      /\ finalization' # NoFinalization
      /\ UNCHANGED <<plan, goals, repairs, effects, results, reviews, current, policy, closure>>
  BY DEF PrepareFinalization, NoFinalization
<1>3. execution'.state = "FINALIZING" /\ execution'.disposition = execution.disposition
      /\ execution' \in Executions
  BY DEF IInv, TypeOK, PrepareFinalization, Executions
<1>4. TypeOK'
  <2>1. current \in Chains /\ results[current].state = "ACKNOWLEDGED"
    BY <1>1 DEF CanFinalize, ResultChainComplete, IInv, TypeOK
  <2>2. results[current].goal \in Goals
    BY <2>1, ChainTypes DEF IInv, Work, ResultsBound
  <2>3. SubjectChain \in SubjectChains
    BY <2>1, <2>2 DEF IInv, TypeOK, SubjectChain, SubjectChains
  <2>4. finalization' \in Finalizations
    BY <1>1, <2>3 DEF PrepareFinalization, Finalizations
  <2> QED BY <1>2, <1>3, <2>4 DEF IInv, TypeOK
<1>5. Work' /\ RepairBudgetPerGoal'
  BY <1>2, WorkKept DEF IInv, RepairBudgetPerGoal
<1>6. execution.state # "NONE"
  <2>1. current \in Chains /\ results[current].state = "ACKNOWLEDGED"
    BY <1>1 DEF CanFinalize, ResultChainComplete, IInv, TypeOK
  <2>2. current[1] \in Goals /\ current[2] \in 0..2 /\ effects[<<current[1], current[2]>>] # "ABSENT"
    BY <2>1, ChainTypes DEF IInv, Work, ResultsBound
  <2>3. goals[current[1]] # "ABSENT"
    BY <2>2 DEF IInv, Work, EffectReach
  <2> QED BY <2>2, <2>3 DEF IInv, Unstarted
<1>7. Unstarted' /\ PlanOrder'
  BY <1>2, <1>3, <1>6 DEF IInv, Unstarted, PlanOrder
<1>8. Succeeds(d) /\ (\A g \in Goals : goals[g] # "STOPPED") => PlanDone(d)
  BY <1>1, SuccessMeansDone
<1>9. execution.disposition \in {"NONE", "STOPPED"} /\ closure \notin {"COOPERATIVE", "STRICT"}
  BY DEF FinalizedByEntry, IInv, ClosingSound, NoFinalization
<1>10. PlanDone(d) => PlanDone(finalization.disposition)'
  BY <1>2 DEF PlanDone
<1> HIDE DEF d
<1>11. ClosingSound'
  BY <1>1, <1>2, <1>3, <1>8, <1>9, <1>10 DEF ClosingSound, Succeeds
<1> QED BY <1>4, <1>5, <1>7, <1>11 DEF IInv

\* Closing carries the prepared disposition over, and a success with a strict receipt.
LEMMA ClosePreserves ==
  ASSUME IInv, NEW strict \in BOOLEAN, CloseExecution(strict)
  PROVE  IInv'
<1>1. /\ finalization.state = "PREPARED" /\ finalization # NoFinalization
      /\ Succeeds(finalization.disposition) => strict
      /\ UNCHANGED <<plan, goals, repairs, effects, results, reviews, current, policy>>
  BY DEF CloseExecution, CanClose, NoFinalization
<1>2. finalization.disposition \in Dispositions
  BY <1>1 DEF IInv, ClosingSound
<1>3. /\ execution'.state = "TERMINAL" /\ execution'.disposition = finalization.disposition
      /\ execution' \in Executions
  BY <1>2 DEF IInv, TypeOK, CloseExecution, Executions
<1>4. /\ finalization'.state = "EXECUTION_CLOSED" /\ finalization' # NoFinalization
      /\ finalization'.disposition = finalization.disposition
      /\ closure' = IF strict THEN "STRICT" ELSE "COOPERATIVE"
      /\ finalization' \in Finalizations
  <2>1. finalization'= [finalization EXCEPT !.state = "EXECUTION_CLOSED"]
    BY DEF CloseExecution
  <2>2. finalization \in Finalizations
    BY DEF IInv, TypeOK
  <2> QED BY <1>1, <2>1, <2>2 DEF CloseExecution, Finalizations, NoFinalization
<1>5. TypeOK'
  BY <1>1, <1>3, <1>4 DEF IInv, TypeOK
<1>6. Work' /\ RepairBudgetPerGoal'
  BY <1>1, WorkKept DEF IInv, RepairBudgetPerGoal
<1>7. Unstarted' /\ PlanOrder'
  BY <1>1, <1>3 DEF IInv, Unstarted, PlanOrder
<1>8. ClosingSound'
  BY <1>1, <1>2, <1>3, <1>4 DEF IInv, ClosingSound, PlanDone
<1> QED BY <1>5, <1>6, <1>7, <1>8 DEF IInv

-----------------------------------------------------------------------------
(***************************************************************************)
(* The theorems.                                                           *)
(***************************************************************************)

\* Every command the entry issues keeps the inductive invariant.
LEMMA StepPreserves == IInv /\ [Next]_kvars => IInv'
<1> SUFFICES ASSUME IInv, [Next]_kvars PROVE IInv'
  OBVIOUS
<1>1. CASE CreateLoop
  BY <1>1, CreatePreserves
<1>2. CASE Observations
  BY <1>2, ObservePreserves DEF Observations
<1>3. CASE ChainSteps
  <2>1. ASSUME NEW g \in Goals, AdvanceGoal(g, ChainOf(g), GoalDisposition(ChainOf(g)))
        PROVE  IInv'
    <3>1. CASE Activates(GoalDisposition(ChainOf(g)))
      BY <2>1, <3>1, ActivatePreserves
    <3>2. CASE ~Activates(GoalDisposition(ChainOf(g)))
      BY <2>1, <3>2, FinishPreserves
    <3> QED BY <3>1, <3>2
  <2> QED BY <1>3, <2>1, StagePreserves, AcknowledgePreserves, ReviewPreserves DEF ChainSteps
<1>4. CASE Decisions
  BY <1>4, SchedulePreserves, AuthorizePreserves, DecisionPreserves DEF Decisions
<1>5. CASE Controls
  BY <1>5, PausePreserves, ResumePreserves, StopPreserves, RevisePreserves DEF Controls
<1>6. CASE Closing
  BY <1>6, FinalizePreserves, ClosePreserves, StrengthenPreserves DEF Closing
<1>7. CASE UNCHANGED kvars
  <2>1. /\ UNCHANGED <<execution, plan, goals, repairs, effects, results, reviews, current,
                       policy, finalization, closure>>
    BY <1>7 DEF kvars
  <2>2. Work'
    BY <2>1, WorkKept DEF IInv
  <2> QED BY <2>1, <2>2 DEF IInv, TypeOK, Unstarted, PlanOrder, RepairBudgetPerGoal,
          ClosingSound, PlanDone
<1> QED BY <1>1, <1>2, <1>3, <1>4, <1>5, <1>6, <1>7 DEF Next

\* The inductive invariant holds in every reachable snapshot.
THEOREM KernelInvariant == Spec => []IInv
<1> QED BY InitIInv, StepPreserves, PTL DEF Spec

\* Every reachable snapshot is well formed.
THEOREM KernelTypeOK == Spec => []TypeOK
<1>1. IInv => TypeOK
  BY DEF IInv
<1> QED BY <1>1, KernelInvariant, PTL

\* The plan is walked in order, whatever revisions reorder its rest.
THEOREM KernelPlanOrder == Spec => []PlanOrder
<1>1. IInv => PlanOrder
  BY DEF IInv
<1> QED BY <1>1, KernelInvariant, PTL

\* At most one Host Attempt is open, and it belongs to the active goal.
THEOREM KernelOneOpenAttempt == Spec => []OneOpenAttempt
<1>1. IInv => OneOpenAttempt
  BY DEF IInv, Work
<1> QED BY <1>1, KernelInvariant, PTL

\* A finished goal rests on an observed, acknowledged and reviewed chain of its own.
THEOREM KernelFinishedGoals == Spec => []FinishedGoalsAreProven
<1>1. IInv => FinishedGoalsAreProven
  BY DEF IInv, Work
<1> QED BY <1>1, KernelInvariant, PTL

\* Repairs follow failed reviews and stay within the Attempts of the goal.
THEOREM KernelRepairs == Spec => []RepairsFollowFailures
<1>1. IInv => RepairsFollowFailures
  BY DEF IInv, Work
<1> QED BY <1>1, KernelInvariant, PTL

\* Resetting the repair counters never gives the active goal a repair back.
THEOREM KernelRepairBudget == Spec => []RepairBudgetPerGoal
<1>1. IInv => RepairBudgetPerGoal
  BY DEF IInv
<1> QED BY <1>1, KernelInvariant, PTL

\* A loop nobody stopped that closes as a success has finished its plan and was
\* acknowledged strictly.
THEOREM KernelSuccessIsWhole == Spec => []SuccessIsWhole
<1>1. IInv => SuccessIsWhole
  <2> SUFFICES ASSUME IInv, Succeeds(execution.disposition), \A g \in Goals : goals[g] # "STOPPED"
               PROVE  closure = "STRICT" /\ PlanDone(execution.disposition)
    BY DEF SuccessIsWhole, PlanDone
  <2>1. execution.disposition = finalization.disposition /\ finalization # NoFinalization
    BY DEF IInv, ClosingSound, Succeeds, NoFinalization
  <2> QED BY <2>1 DEF IInv, ClosingSound
<1> QED BY <1>1, KernelInvariant, PTL

\* No command weakens the closure assurance.
THEOREM KernelAssurance == Spec => AssuranceNeverWeakens
<1>1. IInv /\ [Next]_kvars => [Strength(closure') >= Strength(closure)]_kvars
  <2> SUFFICES ASSUME IInv, Next PROVE Strength(closure') >= Strength(closure)
    OBVIOUS
  <2>1. CASE closure' = closure
    BY <2>1 DEF IInv, TypeOK, Strength
  <2>2. CASE StopLoop
    <3>1. PICK g \in Goals : goals[g] = "ACTIVE"
      BY <2>2 DEF StopLoop, CanStop, IsOnlyActive
    <3>2. closure \in {"NONE", "LOCAL"} /\ closure' = "LOCAL"
      BY <2>2, <3>1, ActiveGoal DEF StopLoop
    <3> QED BY <3>2 DEF Strength
  <2>3. ASSUME NEW strict \in BOOLEAN, CloseExecution(strict)
        PROVE  Strength(closure') >= Strength(closure)
    <3>1. closure \in {"NONE", "LOCAL"} /\ closure' \in {"COOPERATIVE", "STRICT"}
      BY <2>3 DEF CloseExecution, CanClose, IInv, TypeOK, ClosingSound
    <3> QED BY <3>1 DEF Strength
  <2>4. CASE StrengthenClosureAssurance
    BY <2>4 DEF StrengthenClosureAssurance, Strength
  <2>5. closure' = closure \/ StopLoop \/ (\E strict \in BOOLEAN : CloseExecution(strict))
        \/ StrengthenClosureAssurance
    BY DEF Next, CreateLoop, Observations, ObserveExternalEffect, ChainSteps,
       StageExternalResult, AcknowledgeResult, RecordReview, AdvanceGoal, Decisions,
       ScheduleRepair, AuthorizeRepair, RecordDecision, Controls, PauseLoop, ResumeLoop,
       ReviseGoalPlan, Closing, PrepareFinalization
  <2> QED BY <2>1, <2>2, <2>3, <2>4, <2>5
<1> QED BY <1>1, KernelInvariant, PTL DEF Spec, AssuranceNeverWeakens

=============================================================================
