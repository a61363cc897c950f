------------------------------ MODULE PlanCodec ------------------------------
(***************************************************************************)
(* What preparation decides about a request before it writes anything:     *)
(* the intake, the closed plan contract, the capacity and the capability   *)
(* reports (v4_entry/preparation.py, v4_alpha/plan_codec.py), and what a   *)
(* run later makes of the same plan (v4_entry/service.py).                 *)
(*                                                                         *)
(* Texts are names with a size in bytes, lists without repetition are      *)
(* sets, and a well-formed verifier is its kind.                           *)
(***************************************************************************)
EXTENDS Integers, Sequences, SequencesExt, FiniteSetsExt

CONSTANT None  \* a request without a canonical plan

-----------------------------------------------------------------------------
(* The capacity contract. *)

KiB == 1024
GoalMax == 128
V1GoalMax == 32
SourceMax(kind) == IF kind = "json" THEN 512 * KiB ELSE 256 * KiB
PlanMax(schema) == IF schema = "v2" THEN 512 * KiB ELSE 128 * KiB
ObjectiveMax(schema) == IF schema = "v2" THEN 8 * KiB ELSE 2 * KiB
CommandTarget == 8 * KiB
MembersTarget == 64
PromptTarget == 24 * KiB

\* _string_array: an array of distinct texts.
StringArray(values, maximum, allowEmpty) ==
  Cardinality(values) <= maximum /\ (allowEmpty \/ values # {})

-----------------------------------------------------------------------------
(* The closed plan documents. *)

Ids(plan) == [i \in DOMAIN plan.goals |-> plan.goals[i].id]

CanonicalCommon(plan) ==
  /\ StringArray(plan.external, 16, TRUE)
  /\ StringArray(plan.scope, 32, FALSE)
  /\ StringArray(plan.evidence, 32, FALSE)
  /\ StringArray(plan.stops, 16, FALSE)
  /\ plan.reorders \in 0 .. 16
  /\ plan.mode = "STANDARD" => plan.reorders = 0
  /\ IsInjective(Ids(plan))
  /\ \A i \in DOMAIN plan.goals : plan.goals[i].size \in 1 .. ObjectiveMax(plan.schema)
  /\ plan.objective = plan.goals[1].objective
  /\ plan.bytes <= PlanMax(plan.schema)

CanonicalV1(plan) ==
  /\ Len(plan.goals) \in 1 .. V1GoalMax
  /\ plan.calls \in 0 .. 1000000
  /\ CanonicalCommon(plan)

\* One goal of a v2 plan.
CanonicalGoal(plan, goal) ==
  /\ goal.refs \subseteq plan.requirements
  /\ goal.requirement = "required" => goal.blocked # "skip"
  /\ goal.gate # "worker" => goal.recovery = "human"
  /\ StringArray(goal.verifiers, 32, FALSE)
  /\ goal.gate = "human" => goal.verifiers = {"human-approval"}
  /\ goal.gate = "time" => goal.verifiers = {"time-after"}
  /\ StringArray(goal.capabilities, 32, TRUE)
  /\ goal.attempts \in 1 .. 3

CanonicalV2(plan) ==
  /\ Cardinality(plan.requirements) <= 256
  /\ Len(plan.goals) \in 1 .. GoalMax
  /\ plan.calls \in 1 .. 384
  /\ CanonicalCommon(plan)
  /\ \A i \in DOMAIN plan.goals : CanonicalGoal(plan, plan.goals[i])
  /\ LET working == {i \in DOMAIN plan.goals : plan.goals[i].gate = "worker"}
     IN  plan.calls >= MapThenSumSet(LAMBDA i : plan.goals[i].attempts, working)

Canonical(plan) == IF plan.schema = "v2" THEN CanonicalV2(plan) ELSE CanonicalV1(plan)

\* The budget text of a legacy request: as many Host calls as goals unless it names them.
LegacyCalls(request) == IF request.calls = 0 THEN Len(request.goals) ELSE request.calls

LegacyPlan(request) ==
  [schema |-> "v1", objective |-> request.goal,
   goals |-> [i \in DOMAIN request.goals |->
                [id |-> i, objective |-> request.goals[i], size |-> request.size]],
   mode |-> IF request.horizon = "adaptive" THEN "ADAPTIVE" ELSE "STANDARD",
   reorders |-> IF request.horizon = "adaptive" THEN 4 ELSE 0,
   external |-> request.external, scope |-> request.scope,
   evidence |-> request.acceptance, stops |-> request.stops,
   calls |-> LegacyCalls(request), cost |-> 0, bytes |-> request.bytes]

\* The plan that compile_plan makes of a request.
PlanOf(request) == IF request.plan = None THEN LegacyPlan(request) ELSE request.plan

\* A text with a positive cost is not read as a budget.
Compiles(request) ==
  /\ request.plan = None => request.cost = 0
  /\ Canonical(PlanOf(request))

-----------------------------------------------------------------------------
(* INTAKE: nothing is written yet. *)

HighImpact == {"commit", "push", "publish", "deploy"}

Intake(request) ==
  LET own     == request.plan = None
      plan    == request.plan
      goal    == IF own THEN request.goal ELSE plan.objective
      goals   == IF own THEN request.goals
                 ELSE [i \in DOMAIN plan.goals |-> plan.goals[i].objective]
      actions == IF own THEN request.external ELSE plan.external
      horizon == IF own THEN request.horizon
                 ELSE IF plan.mode = "ADAPTIVE" THEN "adaptive" ELSE "standard"
      missing == IF own
                 THEN request.scope = {} \/ ~request.budget
                        \/ request.acceptance = {} \/ request.stops = {}
                 ELSE plan.scope = {} \/ plan.evidence = {} \/ plan.stops = {}
  IN  CASE ~own /\ ~Canonical(plan) -> "BLOCKED"
        [] \/ goal = "" \/ goals = <<>> \/ goals[1] # goal \/ Len(goals) > GoalMax
           \/ own /\ ~IsInjective(goals) -> "NEEDS_CLARIFICATION"
        [] horizon \in {"one_off", "short", "single_step"} /\ actions = {} ->
             "DIRECT_TASK_RECOMMENDED"
        [] ~((actions \intersect HighImpact) \subseteq request.allowed) -> "BLOCKED"
        [] missing -> "NEEDS_CLARIFICATION"
        [] OTHER -> "READY_FOR_LOOP"

-----------------------------------------------------------------------------
(* The capacity of a plan: sizes of what would be sent, with digests of    *)
(* the right length in the place of those not known yet.                   *)

\* Bytes and longest collection of the CreateLoop command: it names every goal and its
\* slice, and spells out the objective of the first goal twice.
FixedCommand == 2644
PerGoal == 74
FixedMembers == 29
CommandBytes(plan) == FixedCommand + PerGoal * Len(plan.goals) + 2 * plan.goals[1].size
CommandMembers(plan) == Max({FixedMembers, Len(plan.goals)})

\* The prompt of one goal: its own texts and the boundaries of the plan.
FixedPrompt == 2 * KiB
PromptBytes(plan, i) ==
  FixedPrompt + plan.goals[i].size
    + IF plan.schema = "v2" THEN plan.goals[i].detail ELSE 0
LongestPrompt(plan) == Max({PromptBytes(plan, i) : i \in DOMAIN plan.goals})

CapacityReasons(request, plan) ==
  {reason \in {"source_bytes", "canonical_plan_bytes", "create_loop_target_bytes",
               "create_loop_target_collection_members", "host_prompt_target_bytes",
               "budget_host_invocations_below_goal_count"} :
     CASE reason = "source_bytes" -> request.source > SourceMax(request.kind)
       [] reason = "canonical_plan_bytes" -> plan.bytes > PlanMax("v2")
       [] reason = "create_loop_target_bytes" -> CommandBytes(plan) > CommandTarget
       [] reason = "create_loop_target_collection_members" ->
            CommandMembers(plan) > MembersTarget
       [] reason = "host_prompt_target_bytes" -> LongestPrompt(plan) > PromptTarget
       [] OTHER -> plan.calls < Len(plan.goals)}

-----------------------------------------------------------------------------
(* The capabilities of a workspace, and what a goal needs of it. *)

VerifierCapability(verifier) ==
  CASE verifier \in {"artifact-changed", "no-file-change", "file-exists", "sha256"} ->
         "artifact-capture"
    [] verifier = "command" -> "local-command"
    [] verifier = "http" -> "local-http"
    [] verifier = "human-approval" -> "human-gate"
    [] verifier = "time-after" -> "time-gate"
    [] OTHER -> "unsupported-verifier"

Available(plan, profile) ==
  {"workspace-write"}
    \union (IF profile = "UNBOUND" THEN {} ELSE {"artifact-capture"})
    \union (IF profile = "existing_git" THEN {"git"} ELSE {})
    \union (IF plan.network THEN {"network"} ELSE {})
    \union (IF plan.local THEN {"local-command", "local-http"} ELSE {})

Needed(goal) ==
  (goal.capabilities \union {VerifierCapability(v) : v \in goal.verifiers})
    \ (IF goal.gate = "worker" THEN {} ELSE {goal.gate \o "-gate"})

\* One row of the report that the user confirms.
Feasibility(plan, goal, profile) ==
  IF Needed(goal) \subseteq Available(plan, profile) THEN "READY"
  ELSE IF goal.requirement = "required" THEN "BLOCKED" ELSE "OPTIONAL_UNAVAILABLE"

CapabilityPasses(plan, profile) ==
  plan.schema = "v2" =>
    /\ plan.cost = 0
    /\ \A i \in DOMAIN plan.goals : Feasibility(plan, plan.goals[i], profile) # "BLOCKED"

\* What a run finds missing, with the profile of the effect it executes.
Unavailable(plan, goal, profile) == Needed(goal) \ Available(plan, profile)

\* The goals that a run answers with a limitation instead of calling the Host.
Skipped(plan, goal, profile) ==
  /\ plan.schema = "v2"
  /\ goal.requirement = "optional" /\ goal.gate = "worker"
  /\ Unavailable(plan, goal, profile) # {}
=============================================================================
