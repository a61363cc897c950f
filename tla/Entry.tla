-------------------------------- MODULE Entry --------------------------------
(***************************************************************************)
(* The public entry (v4_entry/service.py) above the kernel: sync_loop,     *)
(* which reads a snapshot, decides the next machine command and submits it *)
(* with a fixed operation identity, several times in one call; and the     *)
(* user's controls, which run in processes of their own with no lock.      *)
(*                                                                         *)
(* The store accepts a command only at the loop revision of the snapshot   *)
(* it was built from, and once per operation identity, whether the         *)
(* operation was accepted or rejected (see SqliteStore).  A sync's "fresh" *)
(* stands for that revision check: an accepted command makes every         *)
(* snapshot held elsewhere stale.  A command that is built again carries a *)
(* new issued_at, so it never replays: its identity conflicts.             *)
(***************************************************************************)
EXTENDS Kernel, FiniteSets

CONSTANTS
  Syncs,       \* processes that call sync_loop
  Offered,     \* the controls the user uses
  Lifecycle,   \* whether the Host's lifecycle receipts can be strict
  MaxControls, \* bound: uses of the controls
  MaxCrashes   \* bound: syncs that end between two of their steps

ASSUME OfferedAssumption ==
  Offered \subseteq {"pause", "resume", "stop", "extend", "steer", "revise"}
ASSUME LifecycleAssumption == Lifecycle \subseteq BOOLEAN
ASSUME BoundsAssumption == MaxControls \in Nat /\ MaxCrashes \in Nat

VARIABLES
  syncs,    \* where every sync is, and what it decided from its snapshot
  accepted, \* operations the store accepted
  refused,  \* operations the store recorded as rejected
  controls, \* uses of the controls so far
  crashes   \* crashes so far

evars == <<syncs, accepted, refused, controls, crashes>>
vars == <<kvars, evars>>

-----------------------------------------------------------------------------
(***************************************************************************)
(* Operation identities.                                                   *)
(***************************************************************************)
NoOperation == [label |-> "none", subject |-> None, revision |-> 0]

\* Waits, finalization and closing are labelled once per loop; an advance along the
\* plan carries the plan revision; everything else is labelled once per chain.
Operation(label, c) ==
  [label |-> label,
   subject |-> CASE label \in {"repair-wait", "blocked-wait", "failure-wait", "finalize", "close"} -> None
                 [] label = "advance" -> <<c[1], 0>>
                 [] label = "repair" -> <<c[1], Counters(c[1]).attempts + 1>>
                 [] OTHER -> c,
   revision |-> IF label = "advance" /\ MovesOn(GoalDisposition(c)) THEN plan.revision + 1 ELSE 0]

\* The label of a budget pause contains the loop revision: it is never used twice.
Recordable(op) == op.label # "budget-wait"
Used(op) == op \in accepted \cup refused

Idle == [pc |-> "idle", label |-> "none", chain |-> None, op |-> NoOperation, fresh |-> FALSE]
Turning(label, c) == [Idle EXCEPT !.pc = "snapshot", !.label = label, !.chain = c]
Holding(c, op) ==
  [pc |-> "submit", label |-> op.label, chain |-> c, op |-> op, fresh |-> TRUE]

At(s, pc) == syncs[s].pc = pc
Goto(s, where) ==
  /\ syncs' = [syncs EXCEPT ![s] = where]
  /\ UNCHANGED <<kvars, accepted, refused, controls, crashes>>

-----------------------------------------------------------------------------
EntryInit ==
  /\ Init
  /\ syncs = [s \in Syncs |-> Idle]
  /\ accepted = {} /\ refused = {}
  /\ controls = 0 /\ crashes = 0

Stale == syncs' = [s \in Syncs |-> [syncs[s] EXCEPT !.fresh = FALSE]]

StartLoop ==
  /\ CreateLoop
  /\ Stale
  /\ UNCHANGED <<accepted, refused, controls, crashes>>

ControlLoop(control) ==
  \/ control = "pause" /\ PauseLoop("NONE")
  \/ /\ control = "resume" /\ execution.wait \notin {"BUDGET", "HUMAN", "TIME"}
     /\ ResumeLoop(plan.budget)
  \/ control = "stop" /\ StopLoop

ExtendBudget(control) ==
  /\ control = "extend" /\ execution.wait = "BUDGET"
  /\ \E budget \in 0..BudgetCap : ResumeLoop(budget)

SteerLoop(control) ==
  /\ control = "steer" /\ execution.state # "TERMINAL"
  /\ \/ RecordDecision
     \/ \E g \in Goals, f \in Failures :
          policy.state # "EXHAUSTED" /\ AuthorizeRepair(g, f, 3)

RevisePlan(control) == control = "revise" /\ \E o \in Orders : ReviseGoalPlan(o)

\* A control reads the snapshot and applies one command whose identity contains the
\* revision; a control that loses a race fails and can be used again.
Control(control) ==
  /\ control \in Offered
  /\ controls < MaxControls
  /\ \/ ControlLoop(control) \/ ExtendBudget(control)
     \/ SteerLoop(control) \/ RevisePlan(control)
  /\ Stale
  /\ controls' = controls + 1
  /\ UNCHANGED <<accepted, refused, crashes>>

-----------------------------------------------------------------------------
(***************************************************************************)
(* sync_loop, step 1: execute the open Attempt and record what the Host    *)
(* answers.                                                                *)
(***************************************************************************)
OpenAttempts == {c \in Chains : effects[c] \in {"COMMITTED", "UNKNOWN", "UNVERIFIABLE"}}

\* Only a paused loop is left alone.  The Host's budget may block the Attempt.
StartSync(s) ==
  /\ At(s, "idle")
  /\ execution.state \notin {"NONE", "PAUSED"}
  /\ \/ OpenAttempts = {} /\ Goto(s, Turning("reopen", None))
     \/ \E c \in Chains :
          /\ OpenAttempts = {c}
          /\ \/ Goto(s, [Turning(effects[c], c) EXCEPT !.pc = "execute"])
             \/ execution.state = "ACTIVE" /\ Goto(s, Holding(c, Operation("budget-wait", c)))

\* Mutation of Repeats: whatever follows an inconclusive answer is taken for a repetition.
RepeatsAnything(seen, r) == seen # "COMMITTED"
\* An answer no better than the last is not recorded again.
Repeats(seen, r) ==
  \/ seen = "UNKNOWN" /\ r = "unknown"
  \/ seen = "UNVERIFIABLE" /\ r # "observed"

Execute(s, r) ==
  /\ At(s, "execute")
  /\ IF Repeats(syncs[s].label, r) THEN Goto(s, Turning("reopen", None))
     ELSE Goto(s, Turning(r, syncs[s].chain))

RecordObservation(s) ==
  /\ At(s, "snapshot") /\ syncs[s].label \in Receipts
  /\ Goto(s, Holding(syncs[s].chain, Operation(syncs[s].label, syncs[s].chain)))

-----------------------------------------------------------------------------
(***************************************************************************)
(* sync_loop, step 2: move the chain on, one command after the other.      *)
(***************************************************************************)
\* The chain of the active goal, or of the current result when no goal is active.
SyncChain(c) ==
  \/ \E g \in Goals : IsOnlyActive(g) /\ c = ChainOf(g)
  \/ (\A g \in Goals : goals[g] # "ACTIVE") /\ c = current

BlockedWait(c) ==
  reviews[c] = "LIMITATION" /\ results[c].outcome \in Blocked /\ OnBlocked[c[1]] = "wait"
FailureWait(c) == results[c].outcome = "FAILED" /\ OnFailure[c[1]] = "wait"

ActiveDecision(c) ==
  CASE FailureWait(c) -> "failure-wait"
    [] BlockedWait(c) -> "blocked-wait"
    [] ~FailureWait(c) /\ ~BlockedWait(c) -> "advance"

\* Mutation of Decision: a prepared finalization is prepared again.
DecisionNeverCloses(c) ==
  IF results[c].state = "ABSENT" THEN "stage"
  ELSE IF results[c].state = "STAGED" THEN "ack"
  ELSE IF reviews[c] = "ABSENT" THEN "review"
  ELSE IF goals[c[1]] = "ACTIVE" THEN ActiveDecision(c)
  ELSE IF \E g \in Goals : goals[g] = "ACTIVE" THEN "none"
  ELSE "finalize"
\* The one successor of a chain.
Decision(c) ==
  IF results[c].state = "ABSENT" THEN "stage"
  ELSE IF results[c].state = "STAGED" THEN "ack"
  ELSE IF reviews[c] = "ABSENT" THEN "review"
  ELSE IF goals[c[1]] = "ACTIVE" THEN ActiveDecision(c)
  ELSE IF \E g \in Goals : goals[g] = "ACTIVE" THEN "none"
  ELSE IF finalization = NoFinalization THEN "finalize"
  ELSE "close"

Decide(s, c) ==
  IF Decision(c) = "none" THEN Goto(s, Idle)
  ELSE Goto(s, Holding(c, Operation(Decision(c), c)))

\* Mutation of Reopens: an inconclusive effect will do.
ReopensUnobserved(c) == SyncChain(c) /\ execution.state # "TERMINAL" /\ effects[c] # "ABSENT"
Reopens(c) == SyncChain(c) /\ execution.state # "TERMINAL" /\ effects[c] = "OBSERVED"

Reopen(s) ==
  /\ At(s, "snapshot") /\ syncs[s].label = "reopen"
  /\ \E c \in Chains : Reopens(c) /\ Decide(s, c)

\* Nothing to do, or the Host task is still pending.
GiveUp(s) ==
  /\ At(s, "snapshot") /\ syncs[s].label = "reopen"
  /\ \A c \in Chains : Reopens(c) => results[c].state \in {"ABSENT", "STAGED"}
  /\ Goto(s, Idle)

Continue(s) ==
  /\ At(s, "snapshot") /\ syncs[s].label = "continue"
  /\ Decide(s, syncs[s].chain)

Schedulable(g) ==
  ScheduledByEntry(g) /\ Cardinality({c \in Chains : effects[c] # "ABSENT"}) < plan.budget

\* After a REPAIR verdict of its own the sync schedules the next Attempt, or waits.
PlanRepair(s) ==
  /\ At(s, "snapshot") /\ syncs[s].label = "repair"
  /\ LET c == syncs[s].chain IN
     IF Schedulable(c[1]) THEN Goto(s, Holding(c, Operation("repair", c)))
     ELSE Goto(s, Turning("repair-wait", c))

PlanRepairWait(s) ==
  /\ At(s, "snapshot") /\ syncs[s].label = "repair-wait"
  /\ Goto(s, Holding(syncs[s].chain, Operation("repair-wait", syncs[s].chain)))

-----------------------------------------------------------------------------
(***************************************************************************)
(* The store's answer to the command a sync submits.                       *)
(***************************************************************************)
Waits == {"repair-wait", "failure-wait", "blocked-wait", "budget-wait"}

\* What the Host, the workspace or the failure at hand puts into the command.
Inputs(label) ==
  CASE label = "stage" -> Outcomes
    [] label = "ack" -> Verifications
    [] label = "repair" -> Failures
    [] label = "close" -> Lifecycle
    [] label = "blocked-wait" -> {"BLOCKED", "BUDGET"}
    [] OTHER -> {"NONE"}

Accepts(label, c, input) ==
  CASE label \in Receipts -> CanObserve(c, label)
    [] label = "stage" -> CanStage(c)
    [] label = "ack" -> CanAcknowledge(c)
    [] label = "review" -> CanReview(c)
    [] label = "repair" -> CanSchedule(c[1], input, RepairBudget(c[1]))
    [] label = "advance" -> CanAdvance(c[1], c, GoalDisposition(c))
    [] label \in Waits -> CanPause
    [] label = "finalize" -> CanFinalize(FinalDisposition(c))
    [] label = "close" -> CanClose(input)

WaitKind(label, input) ==
  CASE label = "repair-wait" -> "REPAIR" [] label = "failure-wait" -> "FAILURE"
    [] label = "budget-wait" -> "BUDGET" [] label = "blocked-wait" -> input

Perform(label, c, input) ==
  \/ label \in Receipts /\ ObserveExternalEffect(c, label)
  \/ label = "stage" /\ StageExternalResult(c, input)
  \/ label = "ack" /\ AcknowledgeResult(c, input)
  \/ label = "review" /\ RecordReview(c, Verdict(c))
  \/ label = "repair" /\ ScheduleRepair(c[1], input, RepairBudget(c[1]))
  \/ label = "advance" /\ AdvanceGoal(c[1], c, GoalDisposition(c))
  \/ label \in Waits /\ PauseLoop(WaitKind(label, input))
  \/ label = "finalize" /\ PrepareFinalization(FinalDisposition(c))
  \/ label = "close" /\ CloseExecution(input)

\* Where the sync goes on after its command was accepted.
After(label, c, input) ==
  CASE label \in Receipts -> Turning("reopen", None)
    [] label = "review" -> Turning(IF Verdict(c) = "REPAIR" THEN "repair" ELSE "continue", c)
    [] label = "repair" -> IF Exhausted(c[1], input, RepairBudget(c[1]))
                           THEN Turning("repair-wait", c) ELSE Idle
    [] label \in {"stage", "ack", "advance", "finalize"} -> Turning("continue", c)
    [] label \in Waits \cup {"close"} -> Idle

\* Mutation of Conflict: a conflict is recorded like any other rejection.
ConflictRecorded(s) ==
  /\ At(s, "submit") /\ Used(syncs[s].op)
  /\ refused' = refused \cup {syncs[s].op}
  /\ syncs' = [syncs EXCEPT ![s] = Idle]
  /\ UNCHANGED <<kvars, accepted, controls, crashes>>
\* An identity that was used before: IDEMPOTENCY_CONFLICT, and nothing is recorded.
Conflict(s) ==
  /\ At(s, "submit") /\ Used(syncs[s].op)
  /\ Goto(s, Idle)

Accept(s, input) ==
  LET me == syncs[s] IN
  /\ At(s, "submit") /\ ~Used(me.op)
  /\ me.fresh
  /\ Perform(me.label, me.chain, input)
  /\ accepted' = IF Recordable(me.op) THEN accepted \cup {me.op} ELSE accepted
  /\ syncs' = [t \in Syncs |-> IF t = s THEN After(me.label, me.chain, input)
                               ELSE [syncs[t] EXCEPT !.fresh = FALSE]]
  /\ UNCHANGED <<refused, controls, crashes>>

\* A stale or unacceptable command is recorded as rejected under its identity.
Refuse(s, input) ==
  LET me == syncs[s] IN
  /\ At(s, "submit") /\ ~Used(me.op)
  /\ ~me.fresh \/ ~Accepts(me.label, me.chain, input)
  /\ refused' = IF Recordable(me.op) THEN refused \cup {me.op} ELSE refused
  /\ syncs' = [syncs EXCEPT ![s] = Idle]
  /\ UNCHANGED <<kvars, accepted, controls, crashes>>

Submit(s) ==
  Conflict(s) \/ \E input \in Inputs(syncs[s].label) : Accept(s, input) \/ Refuse(s, input)

\* The process of a sync ends, by a crash or by an error of the Host or the workspace.
Crash(s) ==
  /\ ~At(s, "idle")
  /\ crashes < MaxCrashes
  /\ syncs' = [syncs EXCEPT ![s] = Idle]
  /\ crashes' = crashes + 1
  /\ UNCHANGED <<kvars, accepted, refused, controls>>

SyncStep(s) ==
  \/ StartSync(s)
  \/ \E r \in Receipts : Execute(s, r)
  \/ RecordObservation(s)
  \/ Reopen(s) \/ GiveUp(s) \/ Continue(s)
  \/ PlanRepair(s) \/ PlanRepairWait(s)
  \/ Submit(s)

EntryNext ==
  \/ StartLoop
  \/ \E control \in Offered : Control(control)
  \/ \E s \in Syncs : SyncStep(s) \/ Crash(s)

EntrySpec == EntryInit /\ [][EntryNext]_vars

\* sync_loop is called again and again, and while it is, the Host at last gives an
\* authoritative receipt and finishes its task.
Fairness ==
  \A s \in Syncs :
    /\ WF_vars(SyncStep(s))
    /\ SF_vars(Execute(s, "observed"))
    /\ SF_vars(Reopen(s))

FairEntrySpec == EntrySpec /\ Fairness
-----------------------------------------------------------------------------
(***************************************************************************)
(* Properties.                                                             *)
(***************************************************************************)
Labels == Waits \cup Receipts \cup
          {"stage", "ack", "review", "repair", "advance", "finalize", "close"}

\* Every sync is at a step of sync_loop.
EntryTypeOK ==
  \A s \in Syncs :
    /\ syncs[s].pc \in {"idle", "execute", "snapshot", "submit"}
    /\ At(s, "submit") => syncs[s].label \in Labels /\ syncs[s].chain \in Chains
    /\ At(s, "execute") => syncs[s].label \in EffectStates /\ syncs[s].chain \in Chains

\* Whatever syncs and controls interleave, the snapshot changes as the kernel's
\* specification says: no decision taken from an old snapshot takes effect.
ImplementsKernel == Spec

\* What was recorded about the work of a chain is never rewritten: an outcome, once
\* staged, and a verdict, once given, stay as they are although several syncs work on
\* the chain.
EvidenceIsFinal ==
  [][\A c \in Chains :
       /\ results[c].state # "ABSENT" =>
            results'[c].outcome = results[c].outcome /\ results'[c].goal = results[c].goal
       /\ results[c].artifact # "NONE" => results'[c].artifact = results[c].artifact
       /\ reviews[c] # "ABSENT" => reviews'[c] = reviews[c]]_vars

\* Each step of a chain was taken by exactly the operation that is labelled for it.
JournalExplainsChains ==
  \A c \in Chains :
    /\ Operation("stage", c) \in accepted <=> results[c].state # "ABSENT"
    /\ Operation("ack", c) \in accepted <=> results[c].state = "ACKNOWLEDGED"
    /\ Operation("review", c) \in accepted <=> reviews[c] # "ABSENT"
    /\ accepted \cap refused = {}

\* "Every committed intermediate state has one deterministic successor"
\* (docs/v4/architecture-map.md:89): as long as the loop runs, the command that
\* sync_loop decides on has an unused identity and the kernel accepts it.
\* (False once a command of the sync was refused: README, Known divergences.)
SuccessorExists ==
  \A c \in Chains : Reopens(c) /\ execution.state # "PAUSED" /\ Decision(c) # "none" =>
    /\ ~Used(Operation(Decision(c), c))
    /\ \E input \in Inputs(Decision(c)) : Accepts(Decision(c), c, input)

\* "Each intermediate snapshot has one deterministic successor command"
\* (docs/adr/0011:823): whichever sync finalizes the loop, the disposition is the one the
\* current result calls for.
\* (False when a sync is held up over a repair: README, Known divergences.)
FinalizedByCurrentResult ==
  [][finalization # finalization' /\ finalization'.state = "PREPARED" =>
       finalization'.disposition = FinalDisposition(current)]_vars

\* "Terminal execution never reopens" (docs/adr/0011, LoopExecution).
\* (False when a stop lands after the last advance: README, Known divergences.)
TerminalNeverReopens ==
  [][execution.state = "TERMINAL" => execution'.state = "TERMINAL"]_vars

\* A running loop does not stay so: it comes to wait for the user or is finalized.
LoopSettles == execution.state = "ACTIVE" ~> execution.state \in {"PAUSED", "FINALIZING", "TERMINAL"}

\* A loop that is being finalized ends, with whatever assurance the Host gives it.
LoopCloses == execution.state = "FINALIZING" ~> execution.state = "TERMINAL"
=============================================================================
