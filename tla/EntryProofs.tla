---------------------------- MODULE EntryProofs -----------------------------
(***************************************************************************)
(* Theorems about Entry: for every plan, any number of syncs and any use   *)
(* of the controls, the snapshot changes only as Kernel says, so that what *)
(* KernelProofs proves holds of it; evidence is final; and the journal of  *)
(* operations explains what happened to each chain.                        *)
(***************************************************************************)
EXTENDS Entry, KernelProofs

(***************************************************************************)
(* What the entry relies on in the kernel, beyond its own invariant.       *)
(***************************************************************************)
\* The chains of a loop follow one another: a result without a review is the current one,
\* and a chain that its goal left for a repair was reviewed REPAIR.
Succession ==
  /\ \A c \in Chains : results[c].state # "ABSENT" =>
       /\ reviews[c] = "ABSENT" => c = current
       /\ c # ChainOf(c[1]) => reviews[c] = "REPAIR"
  /\ \A c \in Chains : results[c].state # "ACKNOWLEDGED" => results[c].artifact = "NONE"
  /\ current \in Chains => results[current].state # "ABSENT"

(***************************************************************************)
(* Where the syncs are.                                                    *)
(***************************************************************************)
Operations == [label : Labels \cup {"none"}, subject : (Goals \X Nat) \cup {None}, revision : Nat]
SyncRecords ==
  [pc : {"idle", "execute", "snapshot", "submit"},
   label : Labels \cup EffectStates \cup {"none", "reopen", "continue"},
   chain : Chains \cup {None}, op : Operations, fresh : BOOLEAN]

\* What a sync has seen in a snapshot that no accepted command has made stale.
Justified(label, c) ==
  /\ label = "stage" => StagedByEntry(c)
  /\ label = "review" => reviews[c] = "ABSENT"
  /\ label = "repair" => ScheduledByEntry(c[1])
  /\ label = "finalize" => FinalizedByEntry(c)

\* A sync executes an Attempt, reads a snapshot, or submits what it decided from one.
Sound(r) ==
  /\ r.pc = "execute" => r.label \in EffectStates /\ r.chain \in Chains
  /\ r.pc = "snapshot" =>
       /\ r.label \in Receipts \cup {"reopen", "continue", "repair", "repair-wait"}
       /\ r.label # "reopen" => r.chain \in Chains
       /\ r.label = "continue" => results[r.chain].state # "ABSENT"
  /\ r.pc = "submit" =>
       /\ r.label \in Labels /\ r.chain \in Chains
       /\ r.op.label = r.label
       /\ r.label \in {"stage", "ack", "review"} =>
            r.op = [label |-> r.label, subject |-> r.chain, revision |-> 0]
       /\ r.fresh => Justified(r.label, r.chain)

SyncsSound == syncs \in [Syncs -> SyncRecords] /\ \A s \in Syncs : Sound(syncs[s])

EntryInv == IInv /\ Succession /\ SyncsSound /\ JournalExplainsChains

-----------------------------------------------------------------------------
(***************************************************************************)
(* The kernel: how chains succeed one another.                             *)
(***************************************************************************)
\* No command but four touches a result, a review, the current result or a repair ordinal.
LEMMA FourCommands ==
  ASSUME Next
  PROVE  \/ UNCHANGED <<results, reviews, current, repairs>>
         \/ \E c \in Chains, outcome \in Outcomes :
              StagedByEntry(c) /\ StageExternalResult(c, outcome)
         \/ \E c \in Chains, v \in Verifications : AcknowledgeResult(c, v)
         \/ \E c \in Chains : ReviewedByEntry(c) /\ RecordReview(c, Verdict(c))
         \/ \E g \in Goals, f \in Failures :
              ScheduledByEntry(g) /\ ScheduleRepair(g, f, RepairBudget(g))
<1>1. CASE CreateLoop \/ Observations
  BY <1>1 DEF CreateLoop, Observations, ObserveExternalEffect
<1>2. CASE ChainSteps
  BY <1>2 DEF ChainSteps, AdvanceGoal
<1>3. CASE Decisions
  BY <1>3 DEF Decisions, AuthorizeRepair, RecordDecision
<1>4. CASE Controls
  BY <1>4 DEF Controls, PauseLoop, ResumeLoop, StopLoop, ReviseGoalPlan
<1>5. CASE Closing
  BY <1>5 DEF Closing, PrepareFinalization, CloseExecution, StrengthenClosureAssurance
<1> QED BY <1>1, <1>2, <1>3, <1>4, <1>5 DEF Next

\* What a command may do to the record of a chain.
EvidenceKept ==
  \A c \in Chains :
    /\ results[c].state # "ABSENT" =>
         /\ results'[c].state # "ABSENT"
         /\ results'[c].outcome = results[c].outcome /\ results'[c].goal = results[c].goal
    /\ results[c].state = "ACKNOWLEDGED" => results'[c].state = "ACKNOWLEDGED"
    /\ results[c].artifact # "NONE" => results'[c].artifact = results[c].artifact
    /\ reviews[c] # "ABSENT" => reviews'[c] = reviews[c]

\* When the active goal has no result yet, every result there is was reviewed, and those
\* of the active goal were failures.
LEMMA AllReviewed ==
  ASSUME IInv, Succession, NEW c \in Chains, StagedByEntry(c),
         NEW d \in Chains, results[d].state # "ABSENT"
  PROVE  d # c /\ reviews[d] # "ABSENT"
<1>1. c[1] \in Goals /\ goals[c[1]] = "ACTIVE" /\ c = ChainOf(c[1]) /\ d # c /\ d[1] \in Goals
  BY ChainTypes DEF StagedByEntry, IInv
<1>2. CASE d # ChainOf(d[1])
  BY <1>1, <1>2 DEF Succession
<1>3. CASE d = ChainOf(d[1])
  <2>1. d[1] # c[1]
    BY <1>1, <1>3
  <2>2. effects[d] = "OBSERVED"
    BY DEF IInv, Work, ResultsBound
  <2>3. goals[d[1]] # "ABSENT"
    <3>1. d[2] \in 0..2 /\ d = <<d[1], d[2]>>
      BY ChainTypes DEF IInv
    <3> QED BY <1>1, <2>2, <3>1 DEF IInv, Work, EffectReach
  <2>4. /\ execution.state # "NONE" /\ plan.active \in Positions
        /\ plan.order[plan.active] = c[1]
    BY <1>1, ActiveGoal
  <2>5. PICK i \in Positions : i <= plan.active /\ plan.order[i] = d[1]
    BY <1>1, <2>3 DEF IInv, Work, PlanReach
  <2>6. i < plan.active
    BY <2>1, <2>4, <2>5, GoalCountAssumption DEF Positions
  <2>7. MovesOn(goals[d[1]])
    BY <2>4, <2>5, <2>6 DEF IInv, PlanOrder
  <2> QED BY <1>1, <1>3, <2>7 DEF MovesOn, IInv, Work, FinishedGoalsAreProven
<1> QED BY <1>1, <1>2, <1>3

LEMMA StageSucceeds ==
  ASSUME IInv, Succession, NEW c \in Chains, NEW outcome \in Outcomes,
         StagedByEntry(c), StageExternalResult(c, outcome)
  PROVE  Succession' /\ EvidenceKept
<1>1. PICK g \in Goals : results' = [results EXCEPT ![c] =
        [state |-> "STAGED", goal |-> g, outcome |-> outcome, artifact |-> "NONE"]]
  BY DEF StageExternalResult
<1>2. /\ results'[c] = [state |-> "STAGED", goal |-> g, outcome |-> outcome, artifact |-> "NONE"]
      /\ \A d \in Chains : d # c => results'[d] = results[d]
  BY <1>1 DEF IInv, TypeOK
<1>3. results[c].state = "ABSENT" /\ results[c].artifact = "NONE" /\ c = ChainOf(c[1])
  BY DEF StagedByEntry, Succession
<1>4. current' = c /\ UNCHANGED <<reviews, repairs>>
  BY DEF StageExternalResult
<1>5. Succession'
  BY <1>2, <1>3, <1>4, AllReviewed DEF Succession, ChainOf
<1> QED BY <1>2, <1>3, <1>4, <1>5 DEF EvidenceKept

LEMMA AcknowledgeSucceeds ==
  ASSUME IInv, Succession, NEW c \in Chains, NEW v \in Verifications, AcknowledgeResult(c, v)
  PROVE  Succession' /\ EvidenceKept
<1>1. results' = [results EXCEPT ![c].state = "ACKNOWLEDGED", ![c].artifact = v]
  BY DEF AcknowledgeResult
<1>2. /\ results[c] \in ResultRecords /\ results \in [Chains -> ResultRecords]
  BY DEF IInv, TypeOK
<1>3. /\ results'[c].state = "ACKNOWLEDGED" /\ results'[c].outcome = results[c].outcome
      /\ results'[c].goal = results[c].goal
      /\ \A d \in Chains : d # c => results'[d] = results[d]
  BY <1>1, <1>2 DEF ResultRecords
<1>4. results[c].state = "STAGED" /\ results[c].artifact = "NONE"
  BY DEF AcknowledgeResult, CanAcknowledge, Succession
<1>5. UNCHANGED <<reviews, repairs, current>>
  BY DEF AcknowledgeResult
<1>6. Succession'
  <2>1. current \in Chains \cup {None}
    BY DEF IInv, TypeOK
  <2> QED BY <1>3, <1>4, <1>5, <2>1 DEF Succession, ChainOf
<1> QED BY <1>3, <1>4, <1>5, <1>6 DEF EvidenceKept

LEMMA ReviewSucceeds ==
  ASSUME IInv, Succession, NEW c \in Chains, ReviewedByEntry(c), RecordReview(c, Verdict(c))
  PROVE  Succession' /\ EvidenceKept
<1>1. reviews' = [reviews EXCEPT ![c] = Verdict(c)] /\ reviews[c] = "ABSENT"
  BY DEF RecordReview, ReviewedByEntry
<1>2. /\ reviews'[c] = Verdict(c)
      /\ \A d \in Chains : d # c => reviews'[d] = reviews[d]
  BY <1>1 DEF IInv, TypeOK
<1>3. results[c].state = "ACKNOWLEDGED"
  BY DEF RecordReview, CanReview
<1>4. c = ChainOf(c[1])
  BY <1>1, <1>3 DEF Succession
<1>5. Verdict(c) # "ABSENT"
  BY DEF Verdict
<1>6. UNCHANGED <<results, repairs, current>>
  BY DEF RecordReview
<1>7. Succession'
  BY <1>2, <1>4, <1>5, <1>6 DEF Succession, ChainOf
<1> QED BY <1>1, <1>2, <1>6, <1>7 DEF EvidenceKept

LEMMA ScheduleSucceeds ==
  ASSUME IInv, Succession, NEW g \in Goals, NEW f \in Failures,
         ScheduledByEntry(g), ScheduleRepair(g, f, RepairBudget(g))
  PROVE  Succession' /\ EvidenceKept
<1>1. UNCHANGED <<results, reviews, current>>
  BY DEF ScheduleRepair
<1>2. EvidenceKept
  BY <1>1 DEF EvidenceKept
<1>3. \A h \in Goals : h # g => repairs'[h] = repairs[h]
  BY DEF ScheduleRepair, IInv, TypeOK
<1>4. reviews[ChainOf(g)] = "REPAIR"
  BY DEF ScheduleRepair, CanSchedule, CanContinueRepair
<1>5. ASSUME NEW c \in Chains, results[c].state # "ABSENT", c # ChainOf(c[1])'
      PROVE  reviews[c] = "REPAIR"
  <2>1. c[1] \in Goals /\ c = <<c[1], c[2]>>
    BY ChainTypes DEF IInv
  <2>2. CASE c = ChainOf(c[1])
    <3>1. c[1] = g
      BY <1>3, <1>5, <2>1, <2>2 DEF ChainOf
    <3> QED BY <1>4, <2>2, <3>1
  <2>3. CASE c # ChainOf(c[1])
    BY <1>5, <2>3 DEF Succession
  <2> QED BY <2>2, <2>3
<1>6. Succession'
  BY <1>1, <1>5 DEF Succession
<1> QED BY <1>2, <1>6

\* Every command of the kernel keeps the succession of chains and what was recorded of them.
LEMMA KernelSucceeds ==
  ASSUME IInv, Succession, [Next]_kvars
  PROVE  Succession' /\ EvidenceKept
<1>1. CASE UNCHANGED <<results, reviews, current, repairs>>
  BY <1>1 DEF Succession, EvidenceKept, ChainOf
<1>2. CASE UNCHANGED kvars
  BY <1>1, <1>2 DEF kvars
<1>3. CASE Next
  BY <1>1, <1>3, FourCommands, StageSucceeds, AcknowledgeSucceeds, ReviewSucceeds, ScheduleSucceeds
<1> QED BY <1>2, <1>3

-----------------------------------------------------------------------------
(***************************************************************************)
(* What the syncs hold.                                                    *)
(***************************************************************************)
LEMMA OperationType ==
  ASSUME IInv, NEW c \in Chains, NEW label \in Labels
  PROVE  /\ Operation(label, c) \in Operations /\ Operation(label, c).label = label
         /\ label \in {"stage", "ack", "review"} =>
              Operation(label, c) = [label |-> label, subject |-> c, revision |-> 0]
<1>1. c[1] \in Goals /\ c \in Goals \X Nat
  BY DEF Chains
<1>2. plan.revision + 1 \in Nat
  BY DEF IInv, TypeOK, Plans
<1>3. Counters(c[1]).attempts + 1 \in Nat
  BY <1>1 DEF Counters, IInv, TypeOK, Policies
<1>4. <<c[1], 0>> \in Goals \X Nat /\ <<c[1], Counters(c[1]).attempts + 1>> \in Goals \X Nat
  BY <1>1, <1>3
<1>5. DEFINE subject == CASE label \in {"repair-wait", "blocked-wait", "failure-wait", "finalize", "close"} -> None
                 [] label = "advance" -> <<c[1], 0>>
                 [] label = "repair" -> <<c[1], Counters(c[1]).attempts + 1>>
                 [] OTHER -> c
<1>6. subject \in (Goals \X Nat) \cup {None}
  BY <1>1, <1>4
<1>7. label \in {"stage", "ack", "review"} => subject = c
  OBVIOUS
<1> HIDE DEF subject
<1>8. Operation(label, c) = [label |-> label, subject |-> subject,
        revision |-> IF label = "advance" /\ MovesOn(GoalDisposition(c)) THEN plan.revision + 1 ELSE 0]
  BY DEF Operation, subject
<1> QED BY <1>2, <1>6, <1>7, <1>8 DEF Operations

LEMMA IdleSound == Idle \in SyncRecords /\ Idle.pc = "idle"
BY DEF Idle, SyncRecords, NoOperation, Operations

LEMMA TurningSound ==
  ASSUME NEW label \in Receipts \cup {"reopen", "continue", "repair", "repair-wait"},
         NEW c \in Chains \cup {None}
  PROVE  /\ Turning(label, c) \in SyncRecords
         /\ Turning(label, c).pc = "snapshot"
         /\ Turning(label, c).label = label /\ Turning(label, c).chain = c
BY DEF Turning, Idle, SyncRecords, NoOperation, Operations, Labels, Waits

LEMMA HoldingSound ==
  ASSUME IInv, NEW c \in Chains, NEW label \in Labels, Justified(label, c)
  PROVE  Holding(c, Operation(label, c)) \in SyncRecords /\ Sound(Holding(c, Operation(label, c)))
<1> DEFINE op == Operation(label, c)
<1>1. /\ op \in Operations /\ op.label = label
      /\ label \in {"stage", "ack", "review"} => op = [label |-> label, subject |-> c, revision |-> 0]
  BY OperationType
<1> HIDE DEF op
<1> QED BY <1>1 DEF Holding, SyncRecords, Sound, op

\* What a sync decides of a chain is justified in the snapshot it is decided from.
LEMMA DecisionJustified ==
  ASSUME IInv, Succession, NEW c \in Chains, Reopens(c) \/ results[c].state # "ABSENT",
         Decision(c) # "none"
  PROVE  Decision(c) \in Labels /\ Justified(Decision(c), c)
<1>1. ActiveDecision(c) \in {"failure-wait", "blocked-wait", "advance"}
  BY DEF ActiveDecision
<1>2. Decision(c) \in Labels
  BY <1>1 DEF Decision, Labels, Waits
<1>3. ASSUME Decision(c) = "stage" PROVE StagedByEntry(c)
  <2>1. results[c].state = "ABSENT" /\ SyncChain(c) /\ effects[c] = "OBSERVED"
    BY <1>1, <1>3 DEF Decision, Reopens
  <2>3. c # current
    BY <2>1 DEF Succession
  <2>4. PICK g \in Goals : IsOnlyActive(g) /\ c = ChainOf(g)
    BY <2>1, <2>3 DEF SyncChain
  <2>5. c[1] = g /\ goals[g] = "ACTIVE"
    BY <2>4 DEF ChainOf, IsOnlyActive
  <2> QED BY <2>1, <2>4, <2>5 DEF StagedByEntry
<1>4. ASSUME Decision(c) = "review" PROVE reviews[c] = "ABSENT"
  BY <1>1, <1>4 DEF Decision
<1>5. ASSUME Decision(c) = "finalize" PROVE FinalizedByEntry(c)
  BY <1>1, <1>5 DEF Decision, FinalizedByEntry
<1>6. Decision(c) # "repair"
  BY <1>1 DEF Decision
<1> QED BY <1>2, <1>3, <1>4, <1>5, <1>6 DEF Justified

-----------------------------------------------------------------------------
(***************************************************************************)
(* Steps that leave the snapshot alone.                                    *)
(***************************************************************************)
\* A sync that goes on by itself disturbs only what is said of it.
LEMMA GotoSound ==
  ASSUME SyncsSound, NEW s \in Syncs, UNCHANGED kvars,
         NEW next \in SyncRecords, Sound(next), syncs' = [syncs EXCEPT ![s] = next]
  PROVE  SyncsSound'
<1>1. syncs' \in [Syncs -> SyncRecords]
  BY DEF SyncsSound
<1>2. ASSUME NEW t \in Syncs PROVE Sound(syncs[t])'
  <2>1. syncs'[t] = IF t = s THEN next ELSE syncs[t]
    BY DEF SyncsSound
  <2> QED BY <2>1 DEF SyncsSound, Sound, kvars, Justified, StagedByEntry, ChainOf,
          ScheduledByEntry, Counters, FinalizedByEntry
<1> QED BY <1>1, <1>2 DEF SyncsSound

LEMMA DecideSound ==
  ASSUME IInv, Succession, SyncsSound, NEW s \in Syncs, NEW c \in Chains,
         Reopens(c) \/ results[c].state # "ABSENT", Decide(s, c)
  PROVE  SyncsSound'
<1>1. CASE Decision(c) = "none"
  <2>1. Sound(Idle)
    BY IdleSound DEF Sound
  <2> QED BY <1>1, <2>1, IdleSound, GotoSound DEF Decide, Goto
<1>2. CASE Decision(c) # "none"
  BY <1>2, DecisionJustified, HoldingSound, GotoSound DEF Decide, Goto
<1> QED BY <1>1, <1>2

LEMMA StartSyncSound ==
  ASSUME IInv, SyncsSound, NEW s \in Syncs, StartSync(s)
  PROVE  SyncsSound'
<1>1. CASE Goto(s, Turning("reopen", None))
  <2>1. Sound(Turning("reopen", None))
    BY TurningSound DEF Sound
  <2> QED BY <1>1, <2>1, TurningSound, GotoSound DEF Goto
<1>2. ASSUME NEW c \in Chains, Goto(s, [Turning(effects[c], c) EXCEPT !.pc = "execute"])
      PROVE  SyncsSound'
  <2> DEFINE next == [Turning(effects[c], c) EXCEPT !.pc = "execute"]
  <2>1. effects[c] \in EffectStates
    BY DEF IInv, TypeOK
  <2>2. Turning(effects[c], c) \in SyncRecords /\ Turning(effects[c], c).label = effects[c]
        /\ Turning(effects[c], c).chain = c
    BY <2>1 DEF Turning, Idle, SyncRecords, NoOperation, Operations
  <2>3. next \in SyncRecords /\ next.pc = "execute" /\ next.label = effects[c] /\ next.chain = c
    BY <2>2 DEF SyncRecords
  <2>4. Sound(next)
    BY <2>1, <2>3 DEF Sound
  <2> HIDE DEF next
  <2> QED BY <1>2, <2>3, <2>4, GotoSound DEF Goto, next
<1>3. ASSUME NEW c \in Chains, Goto(s, Holding(c, Operation("budget-wait", c)))
      PROVE  SyncsSound'
  <2>1. "budget-wait" \in Labels /\ Justified("budget-wait", c)
    BY DEF Labels, Waits, Justified
  <2> QED BY <1>3, <2>1, HoldingSound, GotoSound DEF Goto
<1> QED BY <1>1, <1>2, <1>3 DEF StartSync

LEMMA ReadingSound ==
  ASSUME IInv, Succession, SyncsSound, NEW s \in Syncs,
         \/ \E r \in Receipts : Execute(s, r)
         \/ RecordObservation(s) \/ Reopen(s) \/ GiveUp(s) \/ Continue(s)
         \/ PlanRepair(s) \/ PlanRepairWait(s)
  PROVE  SyncsSound'
<1> DEFINE me == syncs[s]
<1>1. me \in SyncRecords /\ Sound(me) /\ me.chain \in Chains \cup {None}
  BY DEF SyncsSound, SyncRecords
<1>2. CASE \E r \in Receipts : Execute(s, r)
  <2>1. PICK r \in Receipts : Execute(s, r)
    BY <1>2
  <2>2. me.chain \in Chains
    BY <1>1, <2>1 DEF Execute, At, Sound
  <2>3. Sound(Turning("reopen", None)) /\ Sound(Turning(r, me.chain))
    BY <2>2, TurningSound DEF Sound, Receipts
  <2> QED BY <1>1, <2>1, <2>3, TurningSound, GotoSound DEF Execute, Goto
<1>3. CASE RecordObservation(s)
  <2>1. me.label \in Labels /\ me.chain \in Chains /\ Justified(me.label, me.chain)
    BY <1>1, <1>3 DEF RecordObservation, At, Sound, Labels, Justified, Receipts
  <2> QED BY <1>3, <2>1, HoldingSound, GotoSound DEF RecordObservation, Goto
<1>4. CASE Reopen(s)
  BY <1>4, DecideSound DEF Reopen
<1>5. CASE GiveUp(s)
  <2>1. Sound(Idle)
    BY IdleSound DEF Sound
  <2> QED BY <1>5, <2>1, IdleSound, GotoSound DEF GiveUp, Goto
<1>6. CASE Continue(s)
  <2>1. me.chain \in Chains /\ results[me.chain].state # "ABSENT"
    BY <1>1, <1>6 DEF Continue, At, Sound
  <2> QED BY <1>6, <2>1, DecideSound DEF Continue
<1>7. CASE PlanRepair(s)
  <2>1. me.chain \in Chains
    BY <1>1, <1>7 DEF PlanRepair, At, Sound
  <2>2. Sound(Turning("repair-wait", me.chain))
    BY <2>1, TurningSound DEF Sound
  <2>3. CASE Schedulable(me.chain[1])
    <3>1. "repair" \in Labels /\ Justified("repair", me.chain)
      BY <2>3 DEF Labels, Justified, Schedulable
    <3> QED BY <1>7, <2>1, <2>3, <3>1, HoldingSound, GotoSound DEF PlanRepair, Goto
  <2> QED BY <1>7, <2>1, <2>2, <2>3, TurningSound, GotoSound DEF PlanRepair, Goto
<1>8. CASE PlanRepairWait(s)
  <2>1. me.chain \in Chains
    BY <1>1, <1>8 DEF PlanRepairWait, At, Sound
  <2>2. "repair-wait" \in Labels /\ Justified("repair-wait", me.chain)
    BY DEF Labels, Waits, Justified
  <2> QED BY <1>8, <2>1, <2>2, HoldingSound, GotoSound DEF PlanRepairWait, Goto
<1> QED BY <1>2, <1>3, <1>4, <1>5, <1>6, <1>7, <1>8

\* A sync whose command is not accepted, or which dies, is idle again.
LEMMA EndSound ==
  ASSUME SyncsSound, NEW s \in Syncs,
         Conflict(s) \/ (\E input \in Inputs(syncs[s].label) : Refuse(s, input)) \/ Crash(s)
  PROVE  SyncsSound'
<1>1. UNCHANGED kvars /\ syncs' = [syncs EXCEPT ![s] = Idle]
  BY DEF Conflict, Refuse, Crash, Goto
<1>2. Sound(Idle)
  BY IdleSound DEF Sound
<1> QED BY <1>1, <1>2, IdleSound, GotoSound

-----------------------------------------------------------------------------
(***************************************************************************)
(* Steps that change the snapshot.                                         *)
(***************************************************************************)
\* Whoever's command is accepted: what others hold is stale, and still sound.
LEMMA StaleSound ==
  ASSUME SyncsSound, EvidenceKept, NEW t \in Syncs,
         syncs'[t] = [syncs[t] EXCEPT !.fresh = FALSE]
  PROVE  syncs'[t] \in SyncRecords /\ Sound(syncs[t])'
<1>1. syncs[t] \in SyncRecords /\ Sound(syncs[t])
  BY DEF SyncsSound
<1>2. /\ syncs'[t] \in SyncRecords /\ syncs'[t].fresh = FALSE
      /\ syncs'[t].pc = syncs[t].pc /\ syncs'[t].label = syncs[t].label
      /\ syncs'[t].chain = syncs[t].chain /\ syncs'[t].op = syncs[t].op
  BY <1>1 DEF SyncRecords
<1> QED BY <1>1, <1>2 DEF Sound, EvidenceKept

\* A control is a command of the kernel that touches no chain.
LEMMA ControlIsKernelStep ==
  ASSUME IInv, StartLoop \/ \E control \in Offered : Control(control)
  PROVE  Next /\ UNCHANGED <<results, reviews>>
<1>1. CASE StartLoop
  BY <1>1 DEF StartLoop, Next, CreateLoop
<1>2. ASSUME NEW control, ControlLoop(control)
      PROVE  Controls /\ UNCHANGED <<results, reviews>>
  <2>1. plan.budget \in 0..BudgetCap
    BY DEF IInv, TypeOK, Plans
  <2> QED BY <1>2, <2>1 DEF ControlLoop, Controls, PauseLoop, ResumeLoop, StopLoop
<1>3. ASSUME NEW control, ExtendBudget(control)
      PROVE  Controls /\ UNCHANGED <<results, reviews>>
  BY <1>3 DEF ExtendBudget, Controls, ResumeLoop
<1>4. ASSUME NEW control, SteerLoop(control)
      PROVE  Decisions /\ UNCHANGED <<results, reviews>>
  BY <1>4 DEF SteerLoop, Decisions, RecordDecision, AuthorizeRepair
<1>5. ASSUME NEW control, RevisePlan(control)
      PROVE  Controls /\ UNCHANGED <<results, reviews>>
  BY <1>5 DEF RevisePlan, Controls, ReviseGoalPlan
<1> QED BY <1>1, <1>2, <1>3, <1>4, <1>5 DEF Control, Next

\* What a fresh sync submits and the store accepts is a command of the kernel.
LEMMA AcceptIsKernelStep ==
  ASSUME IInv, Succession, SyncsSound, NEW s \in Syncs,
         NEW input \in Inputs(syncs[s].label), Accept(s, input)
  PROVE  Next
<1> DEFINE label == syncs[s].label
           c == syncs[s].chain
<1>1. Sound(syncs[s]) /\ At(s, "submit") /\ syncs[s].fresh /\ Perform(label, c, input)
  BY DEF SyncsSound, Accept
<1>2. label \in Labels /\ c \in Chains /\ Justified(label, c) /\ input \in Inputs(label)
  BY <1>1 DEF Sound, At
<1>3. c[1] \in Goals
  BY <1>2, ChainTypes DEF IInv
<1> HIDE DEF label, c
<1>4. CASE label \in Receipts /\ ObserveExternalEffect(c, label)
  BY <1>2, <1>4 DEF Next, Observations
<1>5. CASE label = "stage" /\ StageExternalResult(c, input)
  BY <1>2, <1>5 DEF Next, ChainSteps, Justified, Inputs
<1>6. CASE label = "ack" /\ AcknowledgeResult(c, input)
  BY <1>2, <1>6 DEF Next, ChainSteps, Inputs
<1>7. CASE label = "review" /\ RecordReview(c, Verdict(c))
  <2>1. ReviewedByEntry(c)
    BY <1>2, <1>7 DEF Justified, RecordReview, CanReview, Succession, ReviewedByEntry
  <2> QED BY <1>2, <1>7, <2>1 DEF Next, ChainSteps
<1>8. CASE label = "repair" /\ ScheduleRepair(c[1], input, RepairBudget(c[1]))
  BY <1>2, <1>3, <1>8 DEF Next, Decisions, Justified, Inputs
<1>9. CASE label = "advance" /\ AdvanceGoal(c[1], c, GoalDisposition(c))
  <2>1. results[c].state = "ACKNOWLEDGED" /\ Earned(c[1], c, GoalDisposition(c))
    BY <1>9 DEF AdvanceGoal, CanAdvance
  <2>2. reviews[c] # "REPAIR"
    BY <2>1 DEF Earned, GoalDisposition
  <2>3. c = ChainOf(c[1])
    BY <1>2, <2>1, <2>2 DEF Succession
  <2> QED BY <1>3, <1>9, <2>3 DEF Next, ChainSteps
<1>10. CASE label \in Waits /\ PauseLoop(WaitKind(label, input))
  <2>1. WaitKind(label, input) \in WaitKinds
    BY <1>2, <1>10 DEF WaitKind, WaitKinds, Waits, Inputs
  <2> QED BY <1>10, <2>1 DEF Next, Controls
<1>11. CASE label = "finalize" /\ PrepareFinalization(FinalDisposition(c))
  BY <1>2, <1>11 DEF Next, Closing, Justified
<1>12. CASE label = "close" /\ CloseExecution(input)
  <2>1. input \in BOOLEAN
    BY <1>2, <1>12, LifecycleAssumption DEF Inputs
  <2> QED BY <1>12, <2>1 DEF Next, Closing
<1> QED BY <1>1, <1>4, <1>5, <1>6, <1>7, <1>8, <1>9, <1>10, <1>11, <1>12
    DEF Perform, label, c

\* Where a sync goes on after its command is sound in the new snapshot.
LEMMA AfterSound ==
  ASSUME IInv, Succession, SyncsSound, NEW s \in Syncs,
         NEW input \in Inputs(syncs[s].label), Accept(s, input), IInv', EvidenceKept
  PROVE  syncs'[s] \in SyncRecords /\ Sound(syncs[s])'
<1> DEFINE label == syncs[s].label
           c == syncs[s].chain
           next == After(label, c, input)
<1>1. Sound(syncs[s]) /\ At(s, "submit") /\ Perform(label, c, input) /\ syncs'[s] = next
  BY DEF SyncsSound, Accept
<1>2. label \in Labels /\ c \in Chains
  BY <1>1 DEF Sound, At
<1>3. label = "stage" => results'[c].state = "STAGED"
  <2> SUFFICES ASSUME label = "stage" PROVE results'[c].state = "STAGED"
    OBVIOUS
  <2>1. StageExternalResult(c, input)
    BY <1>1 DEF Perform, Receipts, Waits
  <2>2. PICK g \in Goals : results' = [results EXCEPT ![c] =
          [state |-> "STAGED", goal |-> g, outcome |-> input, artifact |-> "NONE"]]
    BY <2>1 DEF StageExternalResult
  <2> QED BY <1>2, <2>2 DEF IInv, TypeOK
<1>4. label = "ack" => results[c].state # "ABSENT"
  BY <1>1 DEF Perform, AcknowledgeResult, CanAcknowledge, Receipts, Waits
<1>5. label \in {"review", "advance", "finalize"} => results[c].state # "ABSENT"
  <2>1. label = "review" => results[c].state = "ACKNOWLEDGED"
    BY <1>1 DEF Perform, RecordReview, CanReview, Receipts, Waits
  <2>2. label = "advance" => results[c].state = "ACKNOWLEDGED"
    BY <1>1 DEF Perform, AdvanceGoal, CanAdvance, Receipts, Waits
  <2>3. label = "finalize" => reviews[c] # "ABSENT"
    BY <1>1 DEF Sound, At, Justified, FinalizedByEntry, SyncsSound, Accept
  <2> QED BY <1>2, <2>1, <2>2, <2>3 DEF IInv, Work, ReviewsBound
<1>6. label \in {"stage", "ack", "review", "advance", "finalize"} => results'[c].state # "ABSENT"
  BY <1>2, <1>3, <1>4, <1>5 DEF EvidenceKept
<1>7. \/ next = Idle
      \/ next = Turning("reopen", None)
      \/ next = Turning("repair", c)
      \/ next = Turning("repair-wait", c)
      \/ next = Turning("continue", c) /\ label \in {"stage", "ack", "review", "advance", "finalize"}
  BY <1>2 DEF After, Labels
<1> HIDE DEF next, label, c
<1>8. next \in SyncRecords
  BY <1>2, <1>7, IdleSound, TurningSound
<1>9. Sound(syncs[s])'
  BY <1>1, <1>2, <1>6, <1>7, IdleSound, TurningSound DEF Sound
<1> QED BY <1>1, <1>8, <1>9

LEMMA AcceptSound ==
  ASSUME IInv, Succession, SyncsSound, NEW s \in Syncs,
         NEW input \in Inputs(syncs[s].label), Accept(s, input), IInv', EvidenceKept
  PROVE  SyncsSound'
<1>1. syncs' = [t \in Syncs |-> IF t = s THEN After(syncs[s].label, syncs[s].chain, input)
                               ELSE [syncs[t] EXCEPT !.fresh = FALSE]]
  BY DEF Accept
<1>2. ASSUME NEW t \in Syncs PROVE syncs'[t] \in SyncRecords /\ Sound(syncs[t])'
  <2>1. CASE t = s
    BY <2>1, AfterSound
  <2>2. CASE t # s
    <3>1. syncs'[t] = [syncs[t] EXCEPT !.fresh = FALSE]
      BY <1>1, <2>2
    <3> QED BY <3>1, StaleSound
  <2> QED BY <2>1, <2>2
<1>3. syncs' \in [Syncs -> SyncRecords]
  BY <1>1, <1>2
<1> QED BY <1>2, <1>3 DEF SyncsSound

LEMMA ControlSound ==
  ASSUME SyncsSound, Stale, EvidenceKept
  PROVE  SyncsSound'
<1>1. ASSUME NEW t \in Syncs PROVE syncs'[t] \in SyncRecords /\ Sound(syncs[t])'
  <2>1. syncs'[t] = [syncs[t] EXCEPT !.fresh = FALSE]
    BY DEF Stale
  <2> QED BY <2>1, StaleSound
<1>2. syncs' \in [Syncs -> SyncRecords]
  BY <1>1 DEF Stale
<1> QED BY <1>1, <1>2 DEF SyncsSound

-----------------------------------------------------------------------------
(***************************************************************************)
(* The journal.                                                            *)
(***************************************************************************)
\* Only the command that is labelled for it takes a step of a chain.
LEMMA AcceptTakesItsStep ==
  ASSUME IInv, Succession, SyncsSound, NEW s \in Syncs,
         NEW input \in Inputs(syncs[s].label), Accept(s, input), NEW d \in Chains
  PROVE  LET label == syncs[s].label
             c == syncs[s].chain
         IN  /\ results'[d].state # "ABSENT" <=>
                   results[d].state # "ABSENT" \/ (label = "stage" /\ c = d)
             /\ results'[d].state = "ACKNOWLEDGED" <=>
                   results[d].state = "ACKNOWLEDGED" \/ (label = "ack" /\ c = d)
             /\ reviews'[d] # "ABSENT" <=>
                   reviews[d] # "ABSENT" \/ (label = "review" /\ c = d)
<1> DEFINE label == syncs[s].label
           c == syncs[s].chain
<1>1. Sound(syncs[s]) /\ At(s, "submit") /\ syncs[s].fresh /\ Perform(label, c, input)
  BY DEF SyncsSound, Accept
<1>2. label \in Labels /\ c \in Chains /\ Justified(label, c)
  BY <1>1 DEF Sound, At
<1> HIDE DEF label, c
<1>3. CASE label = "stage"
  <2>1. StageExternalResult(c, input) /\ results[c].state = "ABSENT"
    BY <1>1, <1>2, <1>3 DEF Perform, Justified, StagedByEntry, Receipts, Waits
  <2>2. PICK g \in Goals : results' = [results EXCEPT ![c] =
          [state |-> "STAGED", goal |-> g, outcome |-> input, artifact |-> "NONE"]]
    BY <2>1 DEF StageExternalResult
  <2>3. reviews' = reviews
    BY <2>1 DEF StageExternalResult
  <2>4. results'[d].state = IF d = c THEN "STAGED" ELSE results[d].state
    BY <1>2, <2>2 DEF IInv, TypeOK
  <2> QED BY <1>3, <2>1, <2>3, <2>4 DEF label, c
<1>4. CASE label = "ack"
  <2>1. AcknowledgeResult(c, input)
    BY <1>1, <1>4 DEF Perform, Receipts, Waits
  <2>2. results[c].state = "STAGED" /\ reviews' = reviews
    BY <2>1 DEF AcknowledgeResult, CanAcknowledge
  <2>3. results'[d].state = IF d = c THEN "ACKNOWLEDGED" ELSE results[d].state
    BY <1>2, <2>1 DEF AcknowledgeResult, IInv, TypeOK, ResultRecords
  <2> QED BY <1>4, <2>2, <2>3 DEF label, c
<1>5. CASE label = "review"
  <2>1. RecordReview(c, Verdict(c)) /\ reviews[c] = "ABSENT"
    BY <1>1, <1>2, <1>5 DEF Perform, Justified, Receipts, Waits
  <2>2. results' = results
    BY <2>1 DEF RecordReview
  <2>3. reviews'[d] = IF d = c THEN Verdict(c) ELSE reviews[d]
    BY <1>2, <2>1 DEF RecordReview, IInv, TypeOK
  <2>4. Verdict(c) # "ABSENT"
    BY DEF Verdict
  <2> QED BY <1>5, <2>2, <2>3, <2>4 DEF label, c
<1>6. CASE label \notin {"stage", "ack", "review"}
  <2>1. results' = results /\ reviews' = reviews
    BY <1>1, <1>6 DEF Perform, ObserveExternalEffect, ScheduleRepair, AdvanceGoal,
       PauseLoop, PrepareFinalization, CloseExecution
  <2> QED BY <1>6, <2>1 DEF label
<1> QED BY <1>3, <1>4, <1>5, <1>6

LEMMA AcceptJournal ==
  ASSUME IInv, Succession, SyncsSound, JournalExplainsChains, NEW s \in Syncs,
         NEW input \in Inputs(syncs[s].label), Accept(s, input)
  PROVE  JournalExplainsChains'
<1> DEFINE label == syncs[s].label
           c == syncs[s].chain
           op == syncs[s].op
<1>1. Sound(syncs[s]) /\ At(s, "submit") /\ ~Used(op) /\ refused' = refused
  BY DEF SyncsSound, Accept
<1>2. /\ label \in Labels /\ c \in Chains /\ op.label = label
      /\ label \in {"stage", "ack", "review"} =>
           op = [label |-> label, subject |-> c, revision |-> 0]
  BY <1>1 DEF Sound, At
<1>3. accepted' = IF label # "budget-wait" THEN accepted \cup {op} ELSE accepted
  BY <1>2 DEF Accept, Recordable
<1>4. ASSUME NEW d \in Chains, NEW l \in {"stage", "ack", "review"}
      PROVE  /\ Operation(l, d) = [label |-> l, subject |-> d, revision |-> 0]
             /\ Operation(l, d)' = [label |-> l, subject |-> d, revision |-> 0]
  BY <1>4 DEF Operation
<1>5. ASSUME NEW d \in Chains, NEW l \in {"stage", "ack", "review"}
      PROVE  Operation(l, d)' \in accepted' <=>
               Operation(l, d) \in accepted \/ (label = l /\ c = d)
  <2> DEFINE named == [label |-> l, subject |-> d, revision |-> 0]
  <2>1. op = named <=> label = l /\ c = d
    BY <1>2, <1>5
  <2>2. named \in accepted' <=> named \in accepted \/ (label = l /\ c = d)
    BY <1>3, <1>5, <2>1
  <2> QED BY <1>4, <2>2
<1>6. accepted \cap refused = {} => accepted' \cap refused' = {}
  BY <1>1, <1>3 DEF Used
<1> HIDE DEF label, c, op
<1>7. ASSUME NEW d \in Chains
      PROVE  /\ Operation("stage", d)' \in accepted' <=> results'[d].state # "ABSENT"
             /\ Operation("ack", d)' \in accepted' <=> results'[d].state = "ACKNOWLEDGED"
             /\ Operation("review", d)' \in accepted' <=> reviews'[d] # "ABSENT"
  BY <1>5, AcceptTakesItsStep DEF JournalExplainsChains, label, c
<1> QED BY <1>6, <1>7 DEF JournalExplainsChains

\* Steps that accept nothing of a sync explain nothing new.
LEMMA OtherJournal ==
  ASSUME IInv, JournalExplainsChains, UNCHANGED <<results, reviews, accepted>>,
         \/ UNCHANGED refused
         \/ \E op : ~Used(op) /\ refused' = refused \cup {op}
  PROVE  JournalExplainsChains'
<1>1. \A d \in Chains, l \in {"stage", "ack", "review"} : Operation(l, d)' = Operation(l, d)
  BY DEF Operation
<1>2. accepted \cap refused = {} => accepted' \cap refused' = {}
  BY DEF Used
<1> QED BY <1>1, <1>2 DEF JournalExplainsChains

-----------------------------------------------------------------------------
(***************************************************************************)
(* The theorems.                                                           *)
(***************************************************************************)
LEMMA EntryInitHolds == EntryInit => EntryInv
<1> SUFFICES ASSUME EntryInit PROVE EntryInv
  OBVIOUS
<1>1. IInv
  BY InitIInv DEF EntryInit
<1>2. Succession
  BY NoneAssumption DEF EntryInit, Init, Succession, NoResult, Chains
<1>3. SyncsSound
  BY IdleSound DEF EntryInit, SyncsSound, Sound
<1>4. JournalExplainsChains
  BY DEF EntryInit, Init, JournalExplainsChains, NoResult
<1> QED BY <1>1, <1>2, <1>3, <1>4 DEF EntryInv

\* Every step of the entry is one of the kernel's, and keeps the invariant.
LEMMA EntryStep ==
  ASSUME EntryInv, [EntryNext]_vars
  PROVE  [Next]_kvars /\ EvidenceKept /\ EntryInv'
<1> USE DEF EntryInv
<1>1. ASSUME [Next]_kvars PROVE IInv' /\ Succession' /\ EvidenceKept
  BY <1>1, StepPreserves, KernelSucceeds
<1>2. ASSUME NEW s \in Syncs, NEW input \in Inputs(syncs[s].label), Accept(s, input)
      PROVE  [Next]_kvars /\ EvidenceKept /\ EntryInv'
  BY <1>1, <1>2, AcceptIsKernelStep, AcceptSound, AcceptJournal
<1>3. ASSUME StartLoop \/ \E control \in Offered : Control(control)
      PROVE  [Next]_kvars /\ EvidenceKept /\ EntryInv'
  <2>1. Next /\ UNCHANGED <<results, reviews>>
    BY <1>3, ControlIsKernelStep
  <2>2. Stale /\ UNCHANGED <<accepted, refused>>
    BY <1>3 DEF StartLoop, Control
  <2> QED BY <1>1, <2>1, <2>2, ControlSound, OtherJournal
<1>4. ASSUME UNCHANGED kvars, SyncsSound',
             UNCHANGED accepted,
             UNCHANGED refused \/ \E op : ~Used(op) /\ refused' = refused \cup {op}
      PROVE  [Next]_kvars /\ EvidenceKept /\ EntryInv'
  BY <1>1, <1>4, OtherJournal DEF kvars
<1>5. ASSUME NEW s \in Syncs,
             StartSync(s) \/ (\E r \in Receipts : Execute(s, r)) \/ RecordObservation(s)
             \/ Reopen(s) \/ GiveUp(s) \/ Continue(s) \/ PlanRepair(s) \/ PlanRepairWait(s)
      PROVE  [Next]_kvars /\ EvidenceKept /\ EntryInv'
  <2>1. SyncsSound'
    BY <1>5, StartSyncSound, ReadingSound
  <2>2. UNCHANGED <<kvars, accepted, refused>>
    BY <1>5 DEF StartSync, Execute, RecordObservation, Reopen, GiveUp, Continue, PlanRepair,
       PlanRepairWait, Decide, Goto
  <2> QED BY <1>4, <2>1, <2>2
<1>6. ASSUME NEW s \in Syncs, Conflict(s) \/ Crash(s)
      PROVE  [Next]_kvars /\ EvidenceKept /\ EntryInv'
  <2>1. UNCHANGED <<kvars, accepted, refused>>
    BY <1>6 DEF Conflict, Crash, Goto
  <2> QED BY <1>4, <1>6, <2>1, EndSound
<1>7. ASSUME NEW s \in Syncs, NEW input \in Inputs(syncs[s].label), Refuse(s, input)
      PROVE  [Next]_kvars /\ EvidenceKept /\ EntryInv'
  <2>1. /\ UNCHANGED <<kvars, accepted>>
        /\ UNCHANGED refused \/ \E op : ~Used(op) /\ refused' = refused \cup {op}
    BY <1>7 DEF Refuse
  <2> QED BY <1>4, <1>7, <2>1, EndSound
<1>8. CASE UNCHANGED vars
  <2>1. UNCHANGED <<kvars, syncs, accepted, refused>>
    BY <1>8 DEF vars, evars
  <2>2. SyncsSound'
    BY <2>1 DEF SyncsSound, Sound, kvars, Justified, StagedByEntry, ChainOf,
       ScheduledByEntry, Counters, FinalizedByEntry
  <2> QED BY <1>4, <2>1, <2>2
<1> QED BY <1>2, <1>3, <1>5, <1>6, <1>7, <1>8 DEF EntryNext, SyncStep, Submit

\* What holds of every state of the entry.
THEOREM EntryInvariant == EntrySpec => []EntryInv
<1>1. EntryInv /\ [EntryNext]_vars => EntryInv'
  BY EntryStep
<1> QED BY <1>1, EntryInitHolds, PTL DEF EntrySpec

\* However syncs, controls and crashes interleave, the snapshot changes only by commands of
\* the kernel, on the snapshot they were decided from.
THEOREM EntryImplementsKernel == EntrySpec => ImplementsKernel
<1>1. EntryInit => Init
  BY DEF EntryInit
<1>2. EntryInv /\ [EntryNext]_vars => [Next]_kvars
  BY EntryStep
<1> QED BY <1>1, <1>2, EntryInvariant, PTL DEF EntrySpec, ImplementsKernel, Spec

\* So what is proved of the kernel holds of the entry: the plan is walked in order, one
\* Attempt is open at most, goals are finished and repaired on evidence and within their
\* budget, and a success is whole.
THEOREM EntryInheritsKernel ==
  EntrySpec => [](PlanOrder /\ OneOpenAttempt /\ FinishedGoalsAreProven
                  /\ RepairsFollowFailures /\ RepairBudgetPerGoal /\ SuccessIsWhole)
<1> QED BY EntryImplementsKernel, KernelPlanOrder, KernelOneOpenAttempt, KernelFinishedGoals,
           KernelRepairs, KernelRepairBudget, KernelSuccessIsWhole, PTL DEF ImplementsKernel

\* Whoever works on a chain, an outcome, an artifact and a verdict stay as first recorded.
THEOREM EntryEvidence == EntrySpec => EvidenceIsFinal
<1>1. EntryInv /\ [EntryNext]_vars =>
        [\A c \in Chains :
           /\ results[c].state # "ABSENT" =>
                results'[c].outcome = results[c].outcome /\ results'[c].goal = results[c].goal
           /\ results[c].artifact # "NONE" => results'[c].artifact = results[c].artifact
           /\ reviews[c] # "ABSENT" => reviews'[c] = reviews[c]]_vars
  BY EntryStep DEF EvidenceKept
<1> QED BY <1>1, EntryInvariant, PTL DEF EntrySpec, EvidenceIsFinal

\* Each step of a chain was taken by the operation labelled for it, and no operation was
\* both accepted and refused.
THEOREM EntryJournal == EntrySpec => []JournalExplainsChains
<1>1. EntryInv => JournalExplainsChains
  BY DEF EntryInv
<1> QED BY <1>1, EntryInvariant, PTL

\* Every sync is at a step of sync_loop, with the chain that this step needs.
THEOREM EntryTyped == EntrySpec => []EntryTypeOK
<1>1. EntryInv => EntryTypeOK
  BY DEF EntryInv, SyncsSound, SyncRecords, Sound, EntryTypeOK, At
<1> QED BY <1>1, EntryInvariant, PTL
=============================================================================
