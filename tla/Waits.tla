-------------------------------- MODULE Waits --------------------------------
(***************************************************************************)
(* When a foreground run may call the Host: the waits of a loop for its    *)
(* user (v4_entry/service.py) and the runtime budget, which the exec       *)
(* provider (exec_provider.py) reckons from the Attempt directories and    *)
(* the clock.                                                              *)
(*                                                                         *)
(* One foreground call runs at a time and may die anywhere; the user's     *)
(* controls run beside it.  A chain of sync_loop is one step here, as is   *)
(* an Attempt directory: Entry and HostAttempt are about those.  Nothing   *)
(* happens between a deadline and what is done at it.                      *)
(***************************************************************************)
EXTENDS Integers, Sequences, FiniteSets

CONSTANTS
  Plans,       \* sequences of goals
  Budgets,     \* runtime budgets: Host invocations and active compute
  Timeout,     \* bound of one Attempt
  Due,         \* when the time gates open
  MaxRepairs,  \* repairs of one goal
  MaxTime, MaxControls, MaxCrashes  \* bounds

\* A "SKIP" goal is optional and needs a capability that the workspace does not have.
Kinds == {"WORKER", "HUMAN", "TIME", "SKIP"}
\* Replay safety and recovery policy of a goal say two things: whether its session may be
\* resumed, and whether local reconciliation may take the place of an answer.
PlanGoals == [kind : Kinds, resumes : BOOLEAN, reconciles : BOOLEAN]
ASSUME PlansAssumption == Plans \subseteq Seq(PlanGoals)
ASSUME BudgetsAssumption == Budgets \subseteq [calls : Nat, compute : Nat \ {0}]
ASSUME NatAssumption ==
  /\ Timeout \in Nat \ {0} /\ Due \in Nat /\ MaxRepairs \in Nat
  /\ MaxTime \in Nat /\ MaxControls \in Nat /\ MaxCrashes \in Nat

VARIABLES
  plan,      \* its goals and the budget it was confirmed with
  budget,    \* the budget in the snapshot
  execution, \* state of the loop and what it waits for
  goal,      \* the active goal
  labels,    \* operation identities of waits that were used
  attempts,  \* the Attempts of the loop: snapshot, outbox row and directory of each
  caller,    \* the foreground call
  host,      \* the Host process: does it run, and does its controller still live
  clock, controls, crashes

vars == <<plan, budget, execution, goal, labels, attempts, caller, host, clock, controls, crashes>>

Committed(g) ==
  [goal |-> g, effect |-> "COMMITTED", answer |-> "none", claimed |-> FALSE,
   dir |-> "none", torn |-> FALSE, session |-> FALSE, started |-> 0, bound |-> 0,  \* intent.json
   prior |-> 0, restarted |-> 0, rest |-> 0,                       \* resume.json
   elapsed |-> 0,                                                  \* attempt.json
   spawns |-> 0, work |-> 0]                                       \* what really happened

\* A provider of its own: the Host's, or one that answers for the controller.  "limits" is
\* the budget it was made with, "memory" whether it holds the answer of this call.
Idle == [pc |-> "idle", provider |-> "host", limits |-> plan.budget, memory |-> FALSE,
         seen |-> "COMMITTED", answer |-> "none", next |-> "idle"]

Init ==
  /\ plan \in [goals : Plans, budget : Budgets]
  /\ budget = plan.budget
  /\ execution = [state |-> "ABSENT", wait |-> "NONE"]
  /\ goal = 1 /\ labels = {} /\ attempts = <<>>
  /\ caller = Idle
  /\ host = "none"
  /\ clock = 0 /\ controls = 0 /\ crashes = 0

Current == Len(attempts)
Attempt == attempts[Current]
Update(a) == attempts' = [attempts EXCEPT ![Current] = a]
Kind == plan.goals[goal].kind
Gated == Kind \in {"HUMAN", "TIME"}
Open == Attempt.effect \in {"COMMITTED", "UNKNOWN"}
At(pc) == caller.pc = pc
Goto(pc) == caller' = [caller EXCEPT !.pc = pc]
Leave == caller' = Idle
Call(pc, limits) == caller' = [Idle EXCEPT !.pc = pc, !.limits = limits]

-----------------------------------------------------------------------------
(***************************************************************************)
(* The budget, reckoned from the Attempt directories.                      *)
(***************************************************************************)
Least(a, b) == IF a <= b THEN a ELSE b
Spent(from, bound) == Least(bound, clock - from)

\* Mutation of Compute: an interrupted run is charged when it is known how long it took.
ComputeWhenSealed(a) == IF a.dir = "sealed" THEN a.elapsed + a.prior ELSE 0
\* Active compute of an Attempt.  Unless its manifest says how long it took, it is charged
\* from its start, up to its bound.
Compute(a) ==
  CASE a.dir = "none" -> 0
    [] a.dir = "sealed" -> a.elapsed + a.prior
    [] a.dir \in {"begun", "failed"} /\ a.rest = 0 -> Spent(a.started, a.bound)
    [] a.dir \in {"begun", "failed"} /\ a.rest > 0 -> a.prior + Spent(a.restarted, a.rest)

\* Mutation of Invocations: a resume is no invocation of its own.
InvocationsOnce(a) == IF a.dir = "none" THEN 0 ELSE 1
Invocations(a) == IF a.dir = "none" THEN 0 ELSE IF a.rest > 0 THEN 2 ELSE 1

\* The sum of a function into the naturals: its units, each with the index it belongs to.
Total(f) == Cardinality(UNION {{i} \X (1..f[i]) : i \in DOMAIN f})

UsedCalls == Total([i \in DOMAIN attempts |-> Invocations(attempts[i])])
UsedCompute == Total([i \in DOMAIN attempts |-> Compute(attempts[i])])

\* A file torn by a crash makes the budget unverifiable: nothing is afforded any more.
Exhausted(limits) ==
  \/ \E i \in DOMAIN attempts : attempts[i].torn
  \/ UsedCalls >= limits.calls \/ UsedCompute >= limits.compute

\* Time that is left of an interrupted Attempt, whoever goes on with it.
Remaining(a) == a.bound - Spent(a.started, a.bound)

\* An interrupted session can be resumed once, if the policy of its goal is to.
Resumes(a) ==
  /\ a.dir = "begun" /\ a.session /\ a.rest = 0 /\ ~a.torn /\ host = "none"
  /\ plan.goals[a.goal].resumes

\* _pause_for_provider_budget: for a claimed Attempt only a resume needs budget.
Blocked ==
  /\ caller.provider = "host"
  /\ Attempt.claimed => Resumes(Attempt)
  /\ Exhausted(caller.limits)

-----------------------------------------------------------------------------
(***************************************************************************)
(* The calls.                                                              *)
(***************************************************************************)
Pause(kind) == execution' = [state |-> "PAUSED", wait |-> kind]
Activate == execution' = [state |-> "ACTIVE", wait |-> "NONE"]

Start ==
  /\ At("idle") /\ execution.state = "ABSENT"
  /\ Activate
  /\ attempts' = <<Committed(1)>>
  /\ Call("startup", plan.budget)
  /\ UNCHANGED <<plan, budget, goal, labels, host, clock, controls, crashes>>

StartAgain ==
  /\ At("idle") /\ execution.state # "ABSENT"
  /\ Call("startup", plan.budget)
  /\ UNCHANGED <<plan, budget, execution, goal, labels, attempts, host, clock, controls, crashes>>

Run ==
  /\ At("idle") /\ execution.state # "ABSENT"
  /\ Call("sync", budget)
  /\ UNCHANGED <<plan, budget, execution, goal, labels, attempts, host, clock, controls, crashes>>

\* satisfy_gate: the wait is ended, then the gate's provider answers for the goal.
SatisfyGate ==
  /\ At("idle")
  /\ execution.state = "PAUSED" /\ execution.wait \in {"HUMAN", "TIME"}
  /\ Gated /\ (Kind = "TIME" => clock >= Due)
  /\ Activate
  /\ caller' = [Idle EXCEPT !.pc = "startup", !.provider = "gate"]
  /\ UNCHANGED <<plan, budget, goal, labels, attempts, host, clock, controls, crashes>>

\* A wait whose label was used before is refused; either way the call ends.
WaitFor(kind, label) ==
  /\ IF execution.state = "ACTIVE" /\ label \notin labels
     THEN Pause(kind) /\ labels' = IF label = "budget" THEN labels ELSE labels \cup {label}
     ELSE UNCHANGED <<execution, labels>>
  /\ Leave

\* _optional_skip_provider: an optional goal that cannot be done here is answered for.
Provider == IF Kind = "SKIP" THEN "skip" ELSE caller.provider

ToExecute(next) ==
  /\ caller' = [caller EXCEPT !.pc = "execute", !.provider = Provider,
                  !.seen = Attempt.effect, !.next = next]
  /\ UNCHANGED <<execution, labels>>

\* _run_startup_provider looks for gates, but not for pauses.
Startup ==
  /\ At("startup")
  /\ \/ /\ Current # 1
        /\ Leave /\ UNCHANGED <<execution, labels>>
     \/ /\ Current = 1 /\ caller.provider = "host" /\ Gated
        /\ WaitFor(Kind, "gate")
     \/ /\ Current = 1 /\ (caller.provider = "host" => ~Gated) /\ ~Open
        /\ IF caller.provider = "gate" THEN Goto("sync") ELSE Leave
        /\ UNCHANGED <<execution, labels>>
     \/ /\ Current = 1 /\ (caller.provider = "host" => ~Gated) /\ Open
        /\ IF Provider = "host" /\ Blocked THEN WaitFor("BUDGET", "budget")
           ELSE ToExecute(IF Provider = "host" THEN "idle" ELSE "sync")
  /\ UNCHANGED <<plan, budget, goal, attempts, host, clock, controls, crashes>>

\* sync_loop looks for pauses, but not for gates.
Sync ==
  /\ At("sync")
  /\ \/ /\ execution.state = "PAUSED"
        /\ Leave /\ UNCHANGED <<execution, labels>>
     \/ /\ execution.state # "PAUSED" /\ ~Open
        /\ Goto("settle") /\ UNCHANGED <<execution, labels>>
     \/ /\ execution.state # "PAUSED" /\ Open
        /\ IF Provider = "host" /\ Blocked THEN WaitFor("BUDGET", "budget")
           ELSE ToExecute("settle")
  /\ UNCHANGED <<plan, budget, goal, attempts, host, clock, controls, crashes>>

-----------------------------------------------------------------------------
(***************************************************************************)
(* The Attempt.                                                            *)
(***************************************************************************)
Answered(answer) ==
  caller' = [caller EXCEPT !.pc = "record", !.answer = answer, !.memory = (answer # "none")]

\* The provider of a gate or of a skipped goal keeps its answer in its memory only, and
\* cannot recover.
Execute ==
  /\ At("execute")
  /\ Update([Attempt EXCEPT !.claimed = TRUE])
  /\ IF caller.provider = "host" THEN Goto(IF Attempt.claimed THEN "recover" ELSE "invoke")
     ELSE Answered(IF Attempt.claimed THEN "none" ELSE caller.provider)
  /\ UNCHANGED <<plan, budget, execution, goal, labels, host, clock, controls, crashes>>

Affordable == caller.limits.compute - UsedCompute

Running ==
  /\ host' = "attended"
  /\ caller' = [caller EXCEPT !.pc = "running", !.next = IF @ = "idle" THEN "sync" ELSE @]

\* invoke() checks the budget again, and bounds the Attempt by what is left of it.
Invoke ==
  /\ At("invoke")
  /\ IF Exhausted(caller.limits) THEN Answered("exhausted") /\ UNCHANGED <<attempts, host>>
     ELSE /\ Update([Attempt EXCEPT !.dir = "begun", !.spawns = 1, !.started = clock,
                       !.bound = Least(Timeout, Affordable)])
          /\ Running
  /\ UNCHANGED <<plan, budget, execution, goal, labels, clock, controls, crashes>>

\* Mutation of Rest: a resume gets a bound of its own.
RestAnew(a) == Least(Timeout, Affordable)
\* A resume gets the time that is left of the Attempt.
Rest(a) == Least(Least(Timeout, Affordable), Remaining(a))

MayResume ==
  At("recover") /\ Resumes(Attempt) /\ ~Exhausted(caller.limits) /\ Remaining(Attempt) > 0

Resume ==
  /\ MayResume
  /\ Update([Attempt EXCEPT !.spawns = 2, !.prior = Spent(Attempt.started, Attempt.bound),
               !.restarted = clock, !.rest = Rest(Attempt)])
  /\ Running
  /\ UNCHANGED <<plan, budget, execution, goal, labels, clock, controls, crashes>>

\* The current run of the Attempt: since when, and for how long at most.
Since == IF Attempt.rest > 0 THEN Attempt.restarted ELSE Attempt.started
AtMost == IF Attempt.rest > 0 THEN Attempt.rest ELSE Attempt.bound

\* reconcile_or_wait: the workspace is reconciled, or the user is asked.
ReconcileOrWait == Answered(IF plan.goals[goal].reconciles THEN "reconcile" ELSE "wait")

\* recover() without a new process.  A crash before the first process leaves no directory,
\* or one without a session.  A live process of a dead call is waited for until the bound
\* of its run.
Recover ==
  /\ At("recover")
  /\ \/ Attempt.dir = "none" /\ ~Attempt.torn /\ Answered("none")
     \/ Attempt.dir \in {"none", "failed"} /\ ReconcileOrWait
     \/ Attempt.dir = "sealed" /\ Answered(IF Attempt.torn THEN "none" ELSE "host")
     \/ Attempt.dir = "begun" /\ host # "none" /\ clock - Since >= AtMost /\ Answered("none")
     \/ Attempt.dir = "begun" /\ host = "none" /\ ~Resumes(Attempt) /\ ReconcileOrWait
     \/ Resumes(Attempt) /\ Exhausted(caller.limits) /\ Answered("exhausted")
     \/ Resumes(Attempt) /\ Remaining(Attempt) = 0 /\ Answered("wait")
  /\ UNCHANGED <<plan, budget, execution, goal, labels, attempts, host, clock, controls, crashes>>

SeeSession ==
  /\ At("running") /\ ~Attempt.session
  /\ Update([Attempt EXCEPT !.session = TRUE])
  /\ UNCHANGED <<plan, budget, execution, goal, labels, caller, host, clock, controls, crashes>>

Sealed == [Attempt EXCEPT !.dir = "sealed", !.session = TRUE, !.elapsed = clock - Since]

HostAnswers ==
  /\ At("running")
  /\ Update(Sealed)
  /\ host' = "none"
  /\ Answered("host")
  /\ UNCHANGED <<plan, budget, execution, goal, labels, clock, controls, crashes>>

\* The Host fails, or is terminated at its bound.
HostFails ==
  /\ At("running")
  /\ Update([Attempt EXCEPT !.dir = "failed"])
  /\ host' = "none"
  /\ Answered("none")
  /\ UNCHANGED <<plan, budget, execution, goal, labels, clock, controls, crashes>>

\* Without an answer the outcome is unknown.
Record ==
  /\ At("record")
  /\ IF caller.answer = "none"
     THEN Update([Attempt EXCEPT !.effect = "UNKNOWN"]) /\ Leave
     ELSE /\ Update([Attempt EXCEPT !.effect = "OBSERVED", !.answer = caller.answer])
          /\ IF caller.next = "idle" THEN Leave ELSE Goto(caller.next)
  /\ UNCHANGED <<plan, budget, execution, goal, labels, host, clock, controls, crashes>>

-----------------------------------------------------------------------------
(***************************************************************************)
(* What the result leads to.                                               *)
(***************************************************************************)
Readable == Attempt.effect = "OBSERVED" /\ (Attempt.answer = "host" \/ caller.memory)

Advance ==
  /\ Attempt.answer \in {"host", "reconcile", "gate", "skip"}
  /\ IF goal < Len(plan.goals)
     THEN /\ goal' = goal + 1
          /\ attempts' = Append(attempts, Committed(goal + 1))
          /\ UNCHANGED execution
     ELSE /\ execution' = [state |-> "TERMINAL", wait |-> "NONE"]
          /\ UNCHANGED <<goal, attempts>>
  /\ UNCHANGED labels
  /\ Leave

Repairs == Cardinality({i \in DOMAIN attempts : attempts[i].goal = goal}) - 1

\* A failed goal is repaired within its own budget and that of the loop, or waits.
Repair ==
  /\ Attempt.answer \in {"host", "reconcile"}
  /\ IF Repairs < MaxRepairs /\ Current < budget.calls
     THEN /\ attempts' = Append(attempts, Committed(goal))
          /\ UNCHANGED <<execution, labels>> /\ Leave
     ELSE UNCHANGED attempts /\ WaitFor("REPAIR", "repair")
  /\ UNCHANGED goal

\* A summary that mentions the budget, the Host's too, makes a wait for the budget.
Block ==
  /\ Attempt.answer \in {"host", "exhausted", "wait"}
  /\ \/ Attempt.answer # "wait" /\ WaitFor("BUDGET", "blocked")
     \/ Attempt.answer # "exhausted" /\ WaitFor("BLOCKED", "blocked")
  /\ UNCHANGED <<goal, attempts>>

Settle ==
  /\ At("settle")
  /\ IF execution.state # "TERMINAL" /\ Readable THEN Advance \/ Repair \/ Block
     ELSE Leave /\ UNCHANGED <<execution, goal, labels, attempts>>
  /\ UNCHANGED <<plan, budget, host, clock, controls, crashes>>

-----------------------------------------------------------------------------
(***************************************************************************)
(* The user, the clock and failures.                                       *)
(***************************************************************************)
\* Neither a gate nor the budget can be resumed.
ControlLoop ==
  /\ UNCHANGED budget
  /\ \/ execution.state = "ACTIVE" /\ Pause("NONE")
     \/ /\ execution.state = "PAUSED" /\ execution.wait \notin {"BUDGET", "HUMAN", "TIME"}
        /\ Activate

Extensions == {b \in Budgets : b # budget /\ b.calls >= budget.calls /\ b.compute >= budget.compute}

ExtendBudget ==
  /\ execution.state = "PAUSED" /\ execution.wait = "BUDGET"
  /\ budget' \in Extensions
  /\ Activate

UserControl ==
  /\ controls < MaxControls
  /\ controls' = controls + 1
  /\ ControlLoop \/ ExtendBudget
  /\ UNCHANGED <<plan, goal, labels, attempts, caller, host, clock, crashes>>

Tick ==
  /\ clock < MaxTime
  /\ At("running") => clock - Since < AtMost
  /\ clock' = clock + 1
  /\ IF host = "none" THEN UNCHANGED attempts
     ELSE Update([Attempt EXCEPT !.work = @ + 1])
  /\ UNCHANGED <<plan, budget, execution, goal, labels, caller, host, controls, crashes>>

\* A crash may tear the file that announces a process, intent.json or resume.json, or the
\* manifest of one that has ended.
Tear ==
  \/ /\ MayResume \/ (At("invoke") /\ ~Exhausted(caller.limits))
     /\ Update([Attempt EXCEPT !.torn = TRUE])
     /\ UNCHANGED host
  \/ /\ At("running")
     /\ Update([Sealed EXCEPT !.torn = TRUE])
     /\ host' = "none"

\* A Host process outlives its controller.
Crash ==
  /\ ~At("idle") /\ crashes < MaxCrashes
  /\ crashes' = crashes + 1
  /\ \/ UNCHANGED attempts /\ host' = IF host = "attended" THEN "orphan" ELSE host
     \/ Tear
  /\ Leave
  /\ UNCHANGED <<plan, budget, execution, goal, labels, clock, controls>>

OrphanEnds ==
  /\ host = "orphan"
  /\ host' = "none"
  /\ UNCHANGED <<plan, budget, execution, goal, labels, attempts, caller, clock, controls, crashes>>

Next ==
  \/ Start \/ StartAgain \/ Run \/ SatisfyGate
  \/ Startup \/ Sync \/ Execute \/ Invoke \/ Resume \/ Recover
  \/ SeeSession \/ HostAnswers \/ HostFails \/ Record \/ Settle
  \/ UserControl \/ Tick \/ Crash \/ OrphanEnds

Spec == Init /\ [][Next]_vars
-----------------------------------------------------------------------------
(***************************************************************************)
(* Properties.                                                             *)
(***************************************************************************)
\* Every process that was spawned, by an Attempt, a repair or a resume, was within the
\* budget of the loop, across crashes and extensions.
CallsWithinBudget ==
  Total([i \in DOMAIN attempts |-> attempts[i].spawns]) <= budget.calls

\* The Host never works longer than the budget allows, all Attempts taken together.  (What
\* an orphan does after the bound of its run is out of its controllers' reach.)
WorkWithinBudget ==
  Total([i \in DOMAIN attempts |-> Least(attempts[i].work, attempts[i].bound)])
    <= budget.compute

\* "Controller restart never refreshes either deadline" (docs/v4/architecture-map.md:51):
\* a Host process that is attended to ends within the bound of its Attempt as it was first
\* started, however often the controller crashed.
DeadlineKept ==
  host = "attended" => clock <= Attempt.started + Attempt.bound

\* "Human and time waits require an exact Goal-bound gate digest; generic resume cannot
\* bypass those gates" (docs/v4/release-notes-v4.2.md:39-41): the Host never works for a
\* goal behind a gate.
HostNeverAtGate ==
  \A i \in DOMAIN attempts :
    attempts[i].spawns > 0 => plan.goals[attempts[i].goal].kind \notin {"HUMAN", "TIME"}
=============================================================================
