----------------------------- MODULE WaitsProofs -----------------------------
(***************************************************************************)
(* Theorems about Waits: for any plan and budgets, and however often the   *)
(* controller dies, is resumed or has its budget extended, the Hosts are   *)
(* no more, and work no longer, than the budget allows, and none works     *)
(* past the deadline that its Attempt was first given.                     *)
(***************************************************************************)
EXTENDS Waits, FiniteSetTheorems, TLAPS

Answers == {"none", "host", "gate", "skip", "exhausted", "reconcile", "wait"}
Attempts ==
  [goal : Nat, effect : {"COMMITTED", "UNKNOWN", "OBSERVED"}, answer : Answers,
   claimed : BOOLEAN, dir : {"none", "begun", "sealed", "failed"}, torn : BOOLEAN,
   session : BOOLEAN, started : Nat, bound : Nat, prior : Nat, restarted : Nat, rest : Nat,
   elapsed : Nat, spawns : Nat, work : Nat]
Executing == {"execute", "invoke", "recover", "running", "record"}
Callers ==
  [pc : {"idle", "startup", "sync", "settle"} \cup Executing,
   provider : {"host", "gate", "skip"}, limits : Budgets, memory : BOOLEAN,
   seen : {"COMMITTED", "UNKNOWN", "OBSERVED"}, answer : Answers,
   next : {"idle", "sync", "settle"}]

TypeOK ==
  /\ plan \in [goals : Plans, budget : Budgets] /\ budget \in Budgets
  /\ execution.state \in {"ABSENT", "ACTIVE", "PAUSED", "TERMINAL"}
  /\ goal \in Nat /\ attempts \in Seq(Attempts) /\ caller \in Callers
  /\ host \in {"none", "attended", "orphan"} /\ clock \in Nat

\* What an Attempt directory says of the processes of the Attempt, and when they ran.
Documented(a) ==
  /\ a.dir = "none" => a.spawns = 0 /\ a.work = 0 /\ a.bound = 0 /\ a.rest = 0
  /\ a.dir # "none" => a.claimed /\ a.spawns = (IF a.rest > 0 THEN 2 ELSE 1)
  /\ a.bound <= Timeout /\ a.started <= clock
  /\ a.rest = 0 => a.prior = 0
  /\ a.rest > 0 =>
       /\ a.restarted <= clock /\ a.restarted = a.started + a.prior
       /\ a.prior + a.rest <= a.bound
  /\ a.dir \in {"begun", "failed"} => a.work <= clock - a.started
  /\ a.dir = "sealed" => a.work <= a.prior + a.elapsed

\* Who works on an Attempt.
Attended ==
  /\ At("running") <=> host = "attended"
  /\ ~At("idle") \/ host # "none" => Current > 0
  /\ execution.state # "ABSENT" <=> Current > 0
  /\ host # "none" => Attempt.dir = "begun" /\ Attempt.effect # "OBSERVED"
  /\ caller.pc \in Executing => Attempt.effect # "OBSERVED"
  /\ At("invoke") => Attempt.dir = "none" /\ Attempt.claimed
  /\ At("record") /\ caller.answer # "none" => host = "none"
  /\ host = "attended" => clock - Since <= AtMost

\* The budget of a call is one that the loop has had.
Less(b, c) == b.calls <= c.calls /\ b.compute <= c.compute
Budgeted == Less(plan.budget, budget) /\ Less(caller.limits, budget)

\* A loop that may call the Host waits for no budget before it has.
Untouched ==
  /\ Current = 0 => budget = plan.budget
  /\ Current = 1 /\ Attempt.dir = "none" /\ ~Attempt.torn /\ plan.budget.calls > 0 =>
       /\ budget = plan.budget /\ caller.limits = plan.budget /\ execution.wait # "BUDGET"
       /\ caller.answer \notin {"host", "exhausted"}
       /\ Attempt.answer \notin {"host", "exhausted"}

(***************************************************************************)
(* What was charged and what was worked.                                   *)
(***************************************************************************)
Charges == [i \in DOMAIN attempts |-> Compute(attempts[i])]
Works == [i \in DOMAIN attempts |-> Least(attempts[i].work, attempts[i].bound)]
Past(f) == [i \in 1..(Current - 1) |-> f[i]]

\* Of the past Attempts, work was charged.  The current one, as it was first started, fits
\* in what was left; a resume that gets less is charged at least as much as that in all.
Reckoned ==
  Current > 0 =>
    /\ Total(Past(Works)) <= Total(Past(Charges))
    /\ Total(Past(Works)) + Attempt.bound <= budget.compute
    /\ Attempt.rest > 0 =>
         \/ Attempt.prior + Attempt.rest = Attempt.bound
         \/ Total(Past(Works)) + Attempt.bound
              <= Total(Past(Charges)) + Attempt.prior + Attempt.rest
    /\ Current = 1 /\ plan.budget.calls > 0 => Attempt.bound <= plan.budget.compute

\* It also fits in the budget of a call that may go on with it.
Fits ==
  ~At("idle") /\ (At("startup") => Current = 1) /\ caller.limits.calls > 0 =>
    Total(Past(Works)) + Attempt.bound <= caller.limits.compute

IInv ==
  /\ TypeOK /\ (\A i \in DOMAIN attempts : Documented(attempts[i])) /\ Attended
  /\ Budgeted /\ Untouched /\ Reckoned /\ Fits /\ CallsWithinBudget

-----------------------------------------------------------------------------
(***************************************************************************)
(* Sums.                                                                   *)
(***************************************************************************)
Units(f) == UNION {{i} \X (1..f[i]) : i \in DOMAIN f}

LEMMA UnitsFinite ==
  ASSUME NEW n \in Nat, NEW f \in [1..n -> Nat]
  PROVE  IsFiniteSet(Units(f)) /\ Total(f) = Cardinality(Units(f)) /\ Total(f) \in Nat
<1> DEFINE rows == [i \in 1..n |-> {i} \X (1..f[i])]
           image == {{i} \X (1..f[i]) : i \in 1..n}
<1>1. IsFiniteSet(1..n)
  BY FS_Interval
<1>2. rows \in Surjection(1..n, image)
  BY DEF Surjection
<1>3. IsFiniteSet(image)
  BY <1>1, <1>2, FS_Surjection
<1>4. ASSUME NEW i \in 1..n PROVE IsFiniteSet({i} \X (1..f[i]))
  <2>1. IsFiniteSet({i})
    BY FS_Singleton
  <2>2. IsFiniteSet(1..f[i])
    BY FS_Interval
  <2> QED BY <2>1, <2>2, FS_Product
<1>5. IsFiniteSet(UNION image)
  BY <1>3, <1>4, FS_UNION
<1>6. Units(f) = UNION image
  BY DEF Units
<1>7. Total(f) = Cardinality(Units(f))
  BY DEF Total, Units
<1> QED BY <1>5, <1>6, <1>7, FS_CardinalityType

LEMMA TotalMono ==
  ASSUME NEW n \in Nat, NEW f \in [1..n -> Nat], NEW g \in [1..n -> Nat],
         \A i \in 1..n : f[i] <= g[i]
  PROVE  Total(f) <= Total(g)
<1>1. ASSUME NEW u \in Units(f) PROVE u \in Units(g)
  <2>1. PICK i \in 1..n : u \in {i} \X (1..f[i])
    BY DEF Units
  <2>2. u \in {i} \X (1..g[i])
    BY <2>1
  <2> QED BY <2>2 DEF Units
<1> QED BY <1>1, UnitsFinite, FS_Subset

LEMMA TotalSplit ==
  ASSUME NEW n \in Nat, NEW f \in [1..(n + 1) -> Nat]
  PROVE  LET past == [i \in 1..n |-> f[i]]
         IN  past \in [1..n -> Nat] /\ Total(past) \in Nat /\ Total(f) = Total(past) + f[n + 1]
<1> DEFINE past == [i \in 1..n |-> f[i]]
           last == {n + 1} \X (1..f[n + 1])
<1>1. past \in [1..n -> Nat] /\ DOMAIN f = 1..(n + 1) /\ DOMAIN past = 1..n
  OBVIOUS
<1>2. Units(f) = Units(past) \cup last
  <2>1. 1..(n + 1) = (1..n) \cup {n + 1}
    OBVIOUS
  <2>2. {{i} \X (1..f[i]) : i \in 1..(n + 1)}
          = {{i} \X (1..f[i]) : i \in 1..n} \cup {last}
    BY <2>1
  <2>3. {{i} \X (1..past[i]) : i \in 1..n} = {{i} \X (1..f[i]) : i \in 1..n}
    OBVIOUS
  <2> QED BY <1>1, <2>2, <2>3 DEF Units
<1>3. Units(past) \cap last = {}
  <2> SUFFICES ASSUME NEW u \in Units(past), u \in last PROVE FALSE
    OBVIOUS
  <2>1. PICK i \in 1..n : u \in {i} \X (1..past[i])
    BY DEF Units
  <2>2. u[1] = i /\ u[1] = n + 1
    BY <2>1
  <2> QED BY <2>2
<1>4. IsFiniteSet(last) /\ Cardinality(last) = f[n + 1]
  <2>1. IsFiniteSet({n + 1}) /\ Cardinality({n + 1}) = 1
    BY FS_Singleton
  <2>2. IsFiniteSet(1..f[n + 1]) /\ Cardinality(1..f[n + 1]) = f[n + 1]
    BY FS_Interval
  <2>3. /\ IsFiniteSet(last)
        /\ Cardinality(last) = Cardinality({n + 1}) * Cardinality(1..f[n + 1])
    BY <2>1, <2>2, FS_Product
  <2>4. f[n + 1] \in Nat
    OBVIOUS
  <2>5. Cardinality(last) = 1 * f[n + 1]
    BY <2>1, <2>2, <2>3, Zenon
  <2> HIDE DEF last
  <2> QED BY <2>3, <2>4, <2>5
<1>5. IsFiniteSet(Units(past)) /\ Total(past) = Cardinality(Units(past)) /\ Total(past) \in Nat
  BY <1>1, UnitsFinite
<1>6. Cardinality(Units(past) \cap last) = 0
  BY <1>3, FS_EmptySet
<1>7. Cardinality(Units(f)) = Cardinality(Units(past)) + Cardinality(last)
  <2> HIDE DEF past, last
  <2>1. Cardinality(Units(past) \cup last)
          = Cardinality(Units(past)) + Cardinality(last) - Cardinality(Units(past) \cap last)
    BY <1>4, <1>5, FS_Union
  <2>2. Cardinality(Units(past)) \in Nat /\ Cardinality(last) \in Nat
    BY <1>4, <1>5, FS_CardinalityType
  <2> QED BY <1>2, <1>6, <2>1, <2>2
<1>8. Total(f) = Cardinality(Units(f))
  BY UnitsFinite
<1> HIDE DEF past, last
<1>9. Total(f) = Total(past) + f[n + 1]
  BY <1>4, <1>5, <1>7, <1>8
<1> QED BY <1>1, <1>5, <1>9 DEF past

LEMMA TotalEmpty == ASSUME NEW f, DOMAIN f = {} PROVE Total(f) = 0
<1>1. UNION {{i} \X (1..f[i]) : i \in DOMAIN f} = {}
  OBVIOUS
<1> QED BY <1>1, FS_EmptySet DEF Total

-----------------------------------------------------------------------------
(***************************************************************************)
(* The Attempts.                                                           *)
(***************************************************************************)
LEMMA BudgetTypes ==
  ASSUME TypeOK
  PROVE  /\ \A b \in Budgets : b.calls \in Nat /\ b.compute \in Nat /\ b.compute > 0
         /\ budget \in Budgets /\ plan.budget \in Budgets /\ caller.limits \in Budgets
  BY BudgetsAssumption DEF TypeOK, Callers

LEMMA CurrentAttempt ==
  ASSUME TypeOK
  PROVE  /\ Current \in Nat /\ DOMAIN attempts = 1..Current
         /\ Current > 0 => Attempt \in Attempts /\ Current \in DOMAIN attempts
                           /\ Current - 1 \in Nat /\ (Current - 1) + 1 = Current
         /\ \A i \in 1..Current : attempts[i] \in Attempts
  BY DEF TypeOK, Current, Attempt

LEMMA ComputeType ==
  ASSUME TypeOK, NEW a \in Attempts, Documented(a)
  PROVE  Compute(a) \in Nat /\ Least(a.work, a.bound) \in Nat /\ Invocations(a) = a.spawns
<1>1. /\ a.started \in Nat /\ a.bound \in Nat /\ a.prior \in Nat /\ a.restarted \in Nat
      /\ a.rest \in Nat /\ a.elapsed \in Nat /\ a.work \in Nat /\ clock \in Nat
      /\ a.dir \in {"none", "begun", "sealed", "failed"}
  BY DEF TypeOK, Attempts
<1>2. Compute(a) \in Nat
  BY <1>1 DEF Compute, Spent, Least, Documented
<1>3. Least(a.work, a.bound) \in Nat
  BY <1>1 DEF Least
<1>4. Invocations(a) = a.spawns
  BY <1>1 DEF Invocations, Documented
<1> QED BY <1>2, <1>3, <1>4

\* What an Attempt is charged covers its work, unless its resume got less than was left.
LEMMA WorkIsCharged ==
  ASSUME TypeOK, NEW a \in Attempts, Documented(a)
  PROVE  \/ Least(a.work, a.bound) <= Compute(a)
         \/ a.rest > 0 /\ Compute(a) = a.prior + a.rest /\ a.prior + a.rest < a.bound
<1>1. /\ a.started \in Nat /\ a.bound \in Nat /\ a.prior \in Nat /\ a.restarted \in Nat
      /\ a.rest \in Nat /\ a.elapsed \in Nat /\ a.work \in Nat /\ clock \in Nat
      /\ a.dir \in {"none", "begun", "sealed", "failed"}
  BY DEF TypeOK, Attempts
<1>2. CASE a.dir = "none"
  BY <1>1, <1>2 DEF Compute, Least, Documented
<1>3. CASE a.dir = "sealed"
  BY <1>1, <1>3 DEF Compute, Least, Documented
<1>4. CASE a.dir \in {"begun", "failed"} /\ a.rest = 0
  BY <1>1, <1>4 DEF Compute, Spent, Least, Documented
<1>5. CASE a.dir \in {"begun", "failed"} /\ a.rest > 0
  BY <1>1, <1>5 DEF Compute, Spent, Least, Documented
<1> QED BY <1>1, <1>2, <1>3, <1>4, <1>5

Spawned == [i \in DOMAIN attempts |-> attempts[i].spawns]

\* The sums over all Attempts are those over the past ones and the current one.
LEMMA Sums ==
  ASSUME TypeOK, \A i \in DOMAIN attempts : Documented(attempts[i]), Current > 0
  PROVE  /\ Total(Past(Works)) \in Nat /\ Total(Past(Charges)) \in Nat
         /\ Total(Past(Spawned)) \in Nat
         /\ Total(Works) = Total(Past(Works)) + Least(Attempt.work, Attempt.bound)
         /\ UsedCompute = Total(Past(Charges)) + Compute(Attempt)
         /\ UsedCalls = Total(Past(Spawned)) + Attempt.spawns
         /\ UsedCalls = Total(Spawned)
<1> DEFINE n == Current - 1
<1>1. n \in Nat /\ n + 1 = Current /\ DOMAIN attempts = 1..(n + 1)
  BY CurrentAttempt
<1>2. \A i \in 1..(n + 1) : /\ Compute(attempts[i]) \in Nat
                            /\ Least(attempts[i].work, attempts[i].bound) \in Nat
                            /\ Invocations(attempts[i]) = attempts[i].spawns
                            /\ attempts[i].spawns \in Nat
  BY <1>1, CurrentAttempt, ComputeType DEF Attempts
<1>3. Works \in [1..(n + 1) -> Nat] /\ Charges \in [1..(n + 1) -> Nat]
      /\ Spawned \in [1..(n + 1) -> Nat]
  BY <1>1, <1>2 DEF Works, Charges, Spawned
<1>4. /\ Works[n + 1] = Least(Attempt.work, Attempt.bound)
      /\ Charges[n + 1] = Compute(Attempt) /\ Spawned[n + 1] = Attempt.spawns
  BY <1>1 DEF Works, Charges, Spawned, Attempt
<1>5. UsedCompute = Total(Charges)
  BY DEF UsedCompute, Charges
<1>6. UsedCalls = Total(Spawned)
  <2>1. [i \in DOMAIN attempts |-> Invocations(attempts[i])] = Spawned
    BY <1>1, <1>2 DEF Spawned
  <2> QED BY <2>1 DEF UsedCalls
<1> HIDE DEF n
<1>7. /\ Total([i \in 1..n |-> Works[i]]) \in Nat
      /\ Total(Works) = Total([i \in 1..n |-> Works[i]]) + Works[n + 1]
  BY <1>1, <1>3, TotalSplit
<1>8. /\ Total([i \in 1..n |-> Charges[i]]) \in Nat
      /\ Total(Charges) = Total([i \in 1..n |-> Charges[i]]) + Charges[n + 1]
  BY <1>1, <1>3, TotalSplit
<1>9. /\ Total([i \in 1..n |-> Spawned[i]]) \in Nat
      /\ Total(Spawned) = Total([i \in 1..n |-> Spawned[i]]) + Spawned[n + 1]
  BY <1>1, <1>3, TotalSplit
<1> QED BY <1>4, <1>5, <1>6, <1>7, <1>8, <1>9 DEF Past, n

\* All work was charged, and was within the budget.
LEMMA AllCovered ==
  ASSUME IInv, Current > 0
  PROVE  Total(Works) <= UsedCompute /\ Total(Works) <= budget.compute
<1>1. Attempt \in Attempts /\ Documented(Attempt)
  BY CurrentAttempt DEF IInv, Attempt
<1>2. /\ Attempt.work \in Nat /\ Attempt.bound \in Nat /\ Attempt.prior \in Nat
      /\ Attempt.rest \in Nat /\ Compute(Attempt) \in Nat /\ budget.compute \in Nat
      /\ Least(Attempt.work, Attempt.bound) <= Attempt.bound
      /\ Least(Attempt.work, Attempt.bound) \in Nat
  BY <1>1, ComputeType, BudgetTypes DEF Attempts, IInv, Least
<1>3. /\ Total(Past(Works)) <= Total(Past(Charges))
      /\ Total(Past(Works)) + Attempt.bound <= budget.compute
      /\ Attempt.rest > 0 =>
           \/ Attempt.prior + Attempt.rest = Attempt.bound
           \/ Total(Past(Works)) + Attempt.bound
                <= Total(Past(Charges)) + Attempt.prior + Attempt.rest
  BY DEF IInv, Reckoned
<1>4. \/ Least(Attempt.work, Attempt.bound) <= Compute(Attempt)
      \/ /\ Attempt.rest > 0 /\ Compute(Attempt) = Attempt.prior + Attempt.rest
         /\ Attempt.prior + Attempt.rest < Attempt.bound
  BY <1>1, WorkIsCharged DEF IInv
<1>5. /\ Total(Past(Works)) \in Nat /\ Total(Past(Charges)) \in Nat
      /\ Total(Works) = Total(Past(Works)) + Least(Attempt.work, Attempt.bound)
      /\ UsedCompute = Total(Past(Charges)) + Compute(Attempt)
  BY Sums DEF IInv
<1> QED BY <1>2, <1>3, <1>4, <1>5

-----------------------------------------------------------------------------
(***************************************************************************)
(* How steps change the Attempts.                                          *)
(***************************************************************************)
\* A step that starts no Attempt and does not touch the clock leaves the past as it is.
LEMMA UpdateKeepsPast ==
  ASSUME TypeOK, Current > 0, NEW a, Update(a), clock' = clock
  PROVE  /\ Current' = Current /\ Attempt' = a /\ DOMAIN attempts' = DOMAIN attempts
         /\ \A i \in DOMAIN attempts : i # Current => attempts'[i] = attempts[i]
         /\ Past(Works)' = Past(Works) /\ Past(Charges)' = Past(Charges)
         /\ Past(Spawned)' = Past(Spawned)
<1>1. /\ Current' = Current /\ DOMAIN attempts' = DOMAIN attempts /\ attempts'[Current] = a
      /\ \A i \in DOMAIN attempts : i # Current => attempts'[i] = attempts[i]
      /\ DOMAIN attempts = 1..Current /\ Current \in Nat
  BY CurrentAttempt DEF TypeOK, Update, Current
<1>2. \A i \in 1..(Current - 1) : i \in DOMAIN attempts /\ attempts'[i] = attempts[i]
  BY <1>1
<1>3. ASSUME NEW i \in 1..(Current - 1)
      PROVE  Works'[i] = Works[i] /\ Charges'[i] = Charges[i] /\ Spawned'[i] = Spawned[i]
  <2>1. attempts'[i] = attempts[i] /\ i \in DOMAIN attempts' /\ i \in DOMAIN attempts
    BY <1>1, <1>2
  <2>2. Compute(attempts[i])' = Compute(attempts[i])
    BY <2>1 DEF Compute, Spent
  <2> QED BY <2>1, <2>2 DEF Works, Charges, Spawned
<1>4. Past(Works)' = Past(Works) /\ Past(Charges)' = Past(Charges) /\ Past(Spawned)' = Past(Spawned)
  BY <1>1, <1>3 DEF Past
<1> QED BY <1>1, <1>4 DEF Attempt

\* A new Attempt makes all before it past.
LEMMA AppendMakesPast ==
  ASSUME TypeOK, NEW a, attempts' = Append(attempts, a), clock' = clock
  PROVE  /\ Current' = Current + 1 /\ Attempt' = a
         /\ \A i \in DOMAIN attempts : attempts'[i] = attempts[i]
         /\ Past(Works)' = Works /\ Past(Charges)' = Charges /\ Past(Spawned)' = Spawned
<1>1. /\ Current' = Current + 1 /\ attempts'[Current + 1] = a /\ Current \in Nat
      /\ DOMAIN attempts' = 1..(Current + 1) /\ DOMAIN attempts = 1..Current
      /\ \A i \in DOMAIN attempts : attempts'[i] = attempts[i]
  BY CurrentAttempt DEF TypeOK, Current
<1>2. \A i \in 1..Current : i \in DOMAIN attempts' /\ attempts'[i] = attempts[i]
  BY <1>1
<1>3. ASSUME NEW i \in 1..Current
      PROVE  Works'[i] = Works[i] /\ Charges'[i] = Charges[i] /\ Spawned'[i] = Spawned[i]
  <2>1. attempts'[i] = attempts[i] /\ i \in DOMAIN attempts' /\ i \in DOMAIN attempts
    BY <1>1, <1>2
  <2>2. Compute(attempts[i])' = Compute(attempts[i])
    BY <2>1 DEF Compute, Spent
  <2> QED BY <2>1, <2>2 DEF Works, Charges, Spawned
<1>4. /\ Past(Works)' = [i \in 1..Current |-> Works'[i]]
      /\ Past(Charges)' = [i \in 1..Current |-> Charges'[i]]
      /\ Past(Spawned)' = [i \in 1..Current |-> Spawned'[i]]
  BY <1>1 DEF Past
<1>5. /\ Works = [i \in 1..Current |-> Works[i]]
      /\ Charges = [i \in 1..Current |-> Charges[i]]
      /\ Spawned = [i \in 1..Current |-> Spawned[i]]
  BY <1>1 DEF Works, Charges, Spawned
<1> QED BY <1>1, <1>3, <1>4, <1>5 DEF Attempt

LEMMA SpawnedIsNat == ASSUME TypeOK PROVE Total(Spawned) \in Nat
<1>1. Spawned \in [1..Current -> Nat] /\ Current \in Nat
  BY CurrentAttempt DEF Spawned, Attempts
<1> QED BY <1>1, UnitsFinite

LEMMA SpawnedPrimed ==
  ASSUME TypeOK', Current' > 0
  PROVE  Total(Spawned)' = Total(Past(Spawned))' + Attempt'.spawns
<1>1. /\ Current' \in Nat /\ DOMAIN attempts' = 1..Current'
      /\ \A i \in 1..Current' : attempts'[i] \in Attempts
  BY DEF TypeOK, Current
<1>2. PICK n \in Nat : Current' = n + 1
  BY <1>1
<1>3. Spawned' \in [1..(n + 1) -> Nat] /\ Spawned'[n + 1] = Attempt'.spawns
  BY <1>1, <1>2 DEF Spawned, Attempt, Attempts
<1>4. Past(Spawned)' = [i \in 1..n |-> Spawned'[i]]
  <2>1. (n + 1) - 1 = n
    OBVIOUS
  <2> QED BY <1>2, <2>1 DEF Past
<1>5. Total(Spawned') = Total([i \in 1..n |-> Spawned'[i]]) + Spawned'[n + 1]
  BY <1>2, <1>3, TotalSplit
<1>6. Total(Spawned)' = Total(Spawned') /\ Total(Past(Spawned))' = Total(Past(Spawned)')
  OBVIOUS
<1> QED BY <1>3, <1>4, <1>5, <1>6

\* The current Attempt fits in the budget of whoever goes on with it.
LEMMA FitsStill ==
  ASSUME IInv, Current > 0, TypeOK', Current' = Current, plan' = plan,
         Past(Works)' = Past(Works), Attempt'.bound = Attempt.bound,
         \/ At("idle")'
         \/ ~At("idle") /\ (At("startup") => Current = 1) /\ caller'.limits = caller.limits
         \/ caller'.limits = budget
         \/ At("startup")' /\ caller'.limits = plan.budget
         \/ At("startup")' /\ Current # 1
  PROVE  Fits'
<1>1. /\ Total(Past(Works)) + Attempt.bound <= budget.compute
      /\ Current = 1 /\ plan.budget.calls > 0 => Attempt.bound <= plan.budget.compute
      /\ Fits
  BY DEF IInv, Reckoned
<1>2. CASE At("idle")'
  BY <1>2 DEF Fits
<1>3. CASE At("startup")' /\ caller'.limits = plan.budget
  <2> SUFFICES ASSUME (At("startup") => Current = 1)', (caller.limits.calls > 0)'
               PROVE  (Total(Past(Works)) + Attempt.bound <= caller.limits.compute)'
    BY DEF Fits
  <2>1. Current = 1 /\ plan.budget.calls > 0
    BY <1>3
  <2>2. Total(Past(Works)) = 0
    <3>1. DOMAIN Past(Works) = {}
      BY <2>1 DEF Past
    <3> QED BY <3>1, TotalEmpty
  <2>3. Attempt.bound \in Nat
    BY CurrentAttempt DEF IInv, Attempts
  <2>4. Total(Past(Works)) + Attempt.bound <= caller'.limits.compute
    BY <1>1, <1>3, <2>1, <2>2, <2>3
  <2>5. Total(Past(Works))' = Total(Past(Works))
    OBVIOUS
  <2>6. (Total(Past(Works)) + Attempt.bound)' = Total(Past(Works)) + Attempt.bound
    BY <2>5
  <2> QED BY <2>4, <2>6
<1>4. CASE \/ caller'.limits = budget
           \/ ~At("idle") /\ (At("startup") => Current = 1) /\ caller'.limits = caller.limits
  BY <1>1, <1>4 DEF Fits
<1>5. CASE At("startup")' /\ Current # 1
  BY <1>5 DEF Fits
<1> QED BY <1>2, <1>3, <1>4, <1>5

\* Steps that leave the Attempts and the clock.
LEMMA QuietStep ==
  ASSUME IInv, UNCHANGED <<plan, attempts, clock>>, TypeOK', Attended', Budgeted', Untouched',
         Less(budget, budget'),
         \/ At("idle")'
         \/ ~At("idle") /\ (At("startup") => Current = 1) /\ caller'.limits = caller.limits
         \/ caller'.limits = budget
         \/ At("startup")' /\ caller'.limits = plan.budget
         \/ At("startup")' /\ Current # 1
  PROVE  IInv'
<1>1. Current' = Current /\ Attempt' = Attempt
  BY DEF Current, Attempt
<1>2. Works' = Works /\ Charges' = Charges /\ UNCHANGED Past(Works) /\ UNCHANGED Past(Charges)
  BY <1>1 DEF Works, Charges, Past, Compute, Spent
<1>3. (\A i \in DOMAIN attempts : Documented(attempts[i]))'
  BY DEF IInv, Documented
<1>4. CallsWithinBudget'
  <2>1. Total(Spawned) \in Nat /\ budget.calls \in Nat /\ budget'.calls \in Nat
    BY SpawnedIsNat, BudgetTypes DEF IInv, TypeOK
  <2>2. Total(Spawned)' = Total(Spawned)
    BY DEF Spawned
  <2> QED BY <2>1, <2>2 DEF IInv, CallsWithinBudget, Spawned, Less
<1>5. Reckoned'
  <2> SUFFICES ASSUME Current > 0 PROVE Reckoned'
    BY <1>1 DEF Reckoned
  <2>1. /\ Total(Past(Works)) \in Nat /\ Attempt.bound \in Nat
        /\ budget.compute \in Nat /\ budget'.compute \in Nat
    BY Sums, CurrentAttempt, BudgetTypes DEF IInv, TypeOK, Attempts
  <2>2. /\ Total(Past(Works))' = Total(Past(Works))
        /\ Total(Past(Charges))' = Total(Past(Charges))
    BY <1>2
  <2>3. Total(Past(Works)) + Attempt.bound <= budget'.compute
    BY <2>1 DEF IInv, Reckoned, Less
  <2> QED BY <1>1, <2>2, <2>3 DEF IInv, Reckoned
<1>6. Fits'
  BY <1>1, <1>2, FitsStill DEF IInv, Attended, Fits
<1> QED BY <1>3, <1>4, <1>5, <1>6 DEF IInv

\* Steps that write to the directory or the row of the current Attempt, and start no process.
LEMMA UpdateStep ==
  ASSUME IInv, Current > 0, NEW a \in Attempts, Update(a), UNCHANGED <<plan, budget, clock>>,
         a.bound = Attempt.bound, a.rest = Attempt.rest, a.prior = Attempt.prior,
         a.spawns = Attempt.spawns, Documented(a),
         TypeOK', Attended', Budgeted', Untouched',
         \/ At("idle")'
         \/ ~At("idle") /\ (At("startup") => Current = 1) /\ caller'.limits = caller.limits
  PROVE  IInv'
<1>1. /\ Current' = Current /\ Attempt' = a /\ DOMAIN attempts' = DOMAIN attempts
      /\ \A i \in DOMAIN attempts : i # Current => attempts'[i] = attempts[i]
      /\ Past(Works)' = Past(Works) /\ Past(Charges)' = Past(Charges)
      /\ Past(Spawned)' = Past(Spawned)
  BY UpdateKeepsPast DEF IInv
<1>2. (\A i \in DOMAIN attempts : Documented(attempts[i]))'
  <2>1. ASSUME NEW i \in DOMAIN attempts PROVE Documented(attempts'[i])
    <3>1. attempts'[Current] = a
      BY <1>1 DEF Attempt
    <3> QED BY <1>1, <3>1 DEF IInv
  <2> QED BY <1>1, <2>1 DEF Documented
<1>3. CallsWithinBudget'
  <2>1. Total(Spawned) = Total(Past(Spawned)) + Attempt.spawns
    BY Sums DEF IInv
  <2>2. Total(Spawned)' = Total(Past(Spawned)) + Attempt.spawns
    BY <1>1, SpawnedPrimed
  <2>3. Total(Spawned)' = Total(Spawned)
    BY <2>1, <2>2
  <2> QED BY <2>3 DEF IInv, CallsWithinBudget, Spawned
<1>4. Reckoned'
  BY <1>1 DEF IInv, Reckoned
<1>5. Fits'
  BY <1>1, FitsStill
<1> QED BY <1>2, <1>3, <1>4, <1>5 DEF IInv

\* A new Attempt is made when the one before it was answered.
LEMMA AppendStep ==
  ASSUME IInv, NEW g \in Nat, attempts' = Append(attempts, Committed(g)), Current > 0,
         UNCHANGED <<plan, budget, execution, clock, host>>, host = "none",
         caller' = Idle,
         TypeOK'
  PROVE  IInv'
<1>1. /\ Current' = Current + 1 /\ Attempt' = Committed(g)
      /\ \A i \in DOMAIN attempts : attempts'[i] = attempts[i]
      /\ Past(Works)' = Works /\ Past(Charges)' = Charges /\ Past(Spawned)' = Spawned
  BY AppendMakesPast DEF IInv
<1>2. Current \in Nat /\ DOMAIN attempts = 1..Current /\ DOMAIN attempts' = 1..(Current + 1)
  BY <1>1, CurrentAttempt DEF IInv
<1>3. Documented(Committed(g))
  BY NatAssumption DEF Documented, Committed, IInv, TypeOK
<1>4. (\A i \in DOMAIN attempts : Documented(attempts[i]))'
  <2>1. ASSUME NEW i \in 1..(Current + 1) PROVE Documented(attempts'[i])
    <3>1. CASE i \in DOMAIN attempts
      BY <1>1, <3>1 DEF IInv
    <3>2. CASE i = Current + 1
      <4>1. attempts'[Current + 1] = Committed(g)
        BY <1>1 DEF Attempt
      <4> QED BY <1>3, <3>2, <4>1
    <3> QED BY <1>2, <3>1, <3>2
  <2> QED BY <1>2, <2>1 DEF Documented
<1>5. Attended'
  BY <1>1, <1>2 DEF IInv, Attended, At, Idle, Executing
<1>6. Budgeted' /\ Untouched'
  BY <1>1, <1>2, BudgetTypes DEF IInv, Budgeted, Untouched, Idle, Less
<1>7. CallsWithinBudget'
  <2>1. Total(Spawned)' = Total(Past(Spawned))' + Attempt'.spawns
    BY <1>1, <1>2, SpawnedPrimed
  <2>2. Total(Past(Spawned))' = Total(Spawned) /\ Attempt'.spawns = 0
    BY <1>1 DEF Committed
  <2>3. Total(Spawned)' = Total(Spawned)
    BY <2>1, <2>2, SpawnedIsNat DEF IInv
  <2> QED BY <2>3 DEF IInv, CallsWithinBudget, Spawned
<1>8. Reckoned'
  <2>1. Total(Works) <= UsedCompute /\ Total(Works) <= budget.compute
    BY AllCovered
  <2>2. UsedCompute = Total(Charges)
    BY DEF UsedCompute, Charges
  <2>3. Total(Works) \in Nat
    BY Sums, ComputeType, CurrentAttempt DEF IInv, Attempt
  <2> QED BY <1>1, <1>2, <2>1, <2>2, <2>3 DEF Reckoned, Committed
<1>9. Fits'
  BY DEF Fits, At, Idle
<1> QED BY <1>4, <1>5, <1>6, <1>7, <1>8, <1>9 DEF IInv

-----------------------------------------------------------------------------
(***************************************************************************)
(* The calls preserve the invariant.                                       *)
(***************************************************************************)
LEMMA CallerTypes ==
  ASSUME TypeOK
  PROVE  /\ caller.pc \in {"idle", "startup", "sync", "settle"} \cup Executing
         /\ caller.provider \in {"host", "gate", "skip"} /\ caller.answer \in Answers
         /\ caller.next \in {"idle", "sync", "settle"} /\ caller.limits \in Budgets
         /\ Idle \in Callers /\ Less(Idle.limits, plan.budget)
<1>1. plan.budget \in Budgets
  BY DEF TypeOK
<1>2. Less(plan.budget, plan.budget)
  BY <1>1, BudgetTypes DEF Less
<1> QED BY <1>1, <1>2 DEF TypeOK, Callers, Idle, Answers

\* A loop that may call the Host and has not is not out of budget.
LEMMA FirstNotExhausted ==
  ASSUME IInv, Current = 1, Attempt.dir = "none", ~Attempt.torn, plan.budget.calls > 0
  PROVE  ~Exhausted(plan.budget)
<1>1. Attempt \in Attempts /\ Documented(Attempt)
  BY CurrentAttempt DEF IInv, Attempt
<1>2. Attempt.spawns = 0 /\ Compute(Attempt) = 0
  BY <1>1 DEF Documented, Compute
<1>3. Total(Past(Charges)) = 0 /\ Total(Past(Spawned)) = 0
  <2>1. DOMAIN Past(Charges) = {} /\ DOMAIN Past(Spawned) = {}
    BY DEF Past
  <2> QED BY <2>1, TotalEmpty
<1>4. UsedCompute = 0 /\ UsedCalls = 0
  <2>1. /\ UsedCompute = Total(Past(Charges)) + Compute(Attempt)
        /\ UsedCalls = Total(Past(Spawned)) + Attempt.spawns
    BY Sums DEF IInv
  <2> QED BY <1>2, <1>3, <2>1
<1>5. \A i \in DOMAIN attempts : ~attempts[i].torn
  <2>1. DOMAIN attempts = 1..1 /\ Attempt = attempts[1]
    BY CurrentAttempt DEF IInv, Attempt
  <2>2. \A i \in 1..1 : i = 1
    OBVIOUS
  <2> QED BY <2>1, <2>2
<1>6. plan.budget.calls \in Nat /\ plan.budget.compute \in Nat /\ plan.budget.compute > 0
  BY BudgetTypes DEF IInv
<1> QED BY <1>4, <1>5, <1>6 DEF Exhausted

LEMMA StartPreserves == ASSUME IInv, Start PROVE IInv'
<1>1. /\ execution.state = "ABSENT" /\ At("idle") /\ Current = 0 /\ host = "none"
      /\ budget = plan.budget
  BY CurrentAttempt DEF Start, IInv, Attended, Untouched
<1>2. /\ attempts' = <<Committed(1)>> /\ execution' = [state |-> "ACTIVE", wait |-> "NONE"]
      /\ caller' = [Idle EXCEPT !.pc = "startup", !.limits = plan.budget]
      /\ UNCHANGED <<plan, budget, goal, host, clock>>
  BY DEF Start, Call, Activate
<1>3. Committed(1) \in Attempts
  BY DEF Committed, Attempts, Answers
<1>4. Current' = 1 /\ Attempt' = Committed(1) /\ DOMAIN attempts' = 1..1
  BY <1>2 DEF Current, Attempt
<1>5. TypeOK'
  <2>1. caller' \in Callers
    BY <1>2, CallerTypes, BudgetTypes DEF IInv, Callers
  <2>2. attempts' \in Seq(Attempts)
    BY <1>2, <1>3
  <2> QED BY <1>2, <2>1, <2>2 DEF TypeOK, IInv
<1>6. (\A i \in DOMAIN attempts : Documented(attempts[i]))'
  <2>1. Documented(Committed(1))
    BY NatAssumption DEF Documented, Committed, IInv, TypeOK
  <2>2. Documented(attempts'[1])
    BY <1>4, <2>1 DEF Attempt
  <2> QED BY <1>2, <1>4, <2>2 DEF Documented
<1>7. Attended'
  BY <1>1, <1>2, <1>4 DEF Attended, At, Idle, Committed, Executing
<1>8. Budgeted' /\ Untouched'
  BY <1>1, <1>2, <1>4, BudgetTypes DEF IInv, Budgeted, Untouched, Less, Idle, Committed
<1>9. CallsWithinBudget'
  <2>1. Total(Spawned)' = Total(Past(Spawned))' + Attempt'.spawns
    BY <1>4, <1>5, SpawnedPrimed
  <2>2. DOMAIN Past(Spawned)' = {}
    BY <1>4 DEF Past
  <2>3. Total(Past(Spawned))' = 0
    BY <2>2, TotalEmpty
  <2>4. Total(Spawned)' = 0
    BY <1>4, <2>1, <2>3 DEF Committed
  <2> QED BY <1>2, <2>4, BudgetTypes DEF IInv, CallsWithinBudget, Spawned
<1>10. Reckoned' /\ Fits'
  <2>1. DOMAIN Past(Works)' = {} /\ DOMAIN Past(Charges)' = {}
    BY <1>4 DEF Past
  <2>2. Total(Past(Works))' = 0 /\ Total(Past(Charges))' = 0
    BY <2>1, TotalEmpty
  <2> QED BY <1>2, <1>4, <2>2, BudgetTypes DEF IInv, Reckoned, Fits, Committed, Idle
<1> QED BY <1>5, <1>6, <1>7, <1>8, <1>9, <1>10 DEF IInv

LEMMA StartAgainPreserves == ASSUME IInv, StartAgain PROVE IInv'
<1>1. /\ caller' = [Idle EXCEPT !.pc = "startup", !.limits = plan.budget]
      /\ UNCHANGED <<plan, budget, execution, goal, attempts, host, clock>>
      /\ At("idle") /\ execution.state # "ABSENT"
  BY DEF StartAgain, Call
<1>2. Current' = Current /\ Attempt' = Attempt
  BY <1>1 DEF Current, Attempt
<1>3. TypeOK'
  BY <1>1, CallerTypes, BudgetTypes DEF TypeOK, IInv, Callers
<1>4. Attended'
  BY <1>1, <1>2 DEF Attended, At, Idle, Executing, IInv, Since, AtMost
<1>5. Budgeted' /\ Untouched' /\ Less(budget, budget')
  BY <1>1, <1>2, BudgetTypes DEF IInv, Budgeted, Untouched, Less, Idle
<1> QED BY <1>1, <1>3, <1>4, <1>5, QuietStep DEF At, Idle

LEMMA RunPreserves == ASSUME IInv, Run PROVE IInv'
<1>1. /\ caller' = [Idle EXCEPT !.pc = "sync", !.limits = budget]
      /\ UNCHANGED <<plan, budget, execution, goal, attempts, host, clock>>
      /\ At("idle") /\ execution.state # "ABSENT"
  BY DEF Run, Call
<1>2. Current' = Current /\ Attempt' = Attempt
  BY <1>1 DEF Current, Attempt
<1>3. TypeOK'
  BY <1>1, CallerTypes, BudgetTypes DEF TypeOK, IInv, Callers
<1>4. Attended'
  BY <1>1, <1>2 DEF Attended, At, Idle, Executing, IInv, Since, AtMost
<1>5. Budgeted' /\ Untouched' /\ Less(budget, budget')
  BY <1>1, <1>2, BudgetTypes DEF IInv, Budgeted, Untouched, Less, Idle
<1> QED BY <1>1, <1>3, <1>4, <1>5, QuietStep DEF At, Idle

LEMMA SatisfyGatePreserves == ASSUME IInv, SatisfyGate PROVE IInv'
<1>1. /\ caller' = [Idle EXCEPT !.pc = "startup", !.provider = "gate"]
      /\ UNCHANGED <<plan, budget, goal, attempts, host, clock>>
      /\ At("idle") /\ execution.state = "PAUSED"
      /\ execution' = [state |-> "ACTIVE", wait |-> "NONE"]
  BY DEF SatisfyGate, Activate
<1>2. Current' = Current /\ Attempt' = Attempt
  BY <1>1 DEF Current, Attempt
<1>3. TypeOK'
  BY <1>1, CallerTypes, BudgetTypes DEF TypeOK, IInv, Callers
<1>4. Attended'
  BY <1>1, <1>2 DEF Attended, At, Idle, Executing, IInv, Since, AtMost
<1>5. Budgeted' /\ Untouched' /\ Less(budget, budget')
  BY <1>1, <1>2, BudgetTypes DEF IInv, Budgeted, Untouched, Less, Idle
<1> QED BY <1>1, <1>3, <1>4, <1>5, QuietStep DEF At, Idle

\* Waiting, whether or not it is recorded, ends the call.
LEMMA WaitForPreserves ==
  ASSUME IInv, Current > 0, ~At("running"), NEW kind, NEW label, WaitFor(kind, label),
         UNCHANGED <<plan, budget, attempts, host, clock>>, goal' \in Nat,
         kind = "BUDGET" =>
           ~(Current = 1 /\ Attempt.dir = "none" /\ ~Attempt.torn /\ plan.budget.calls > 0)
  PROVE  IInv'
<1>1. caller' = Idle
  BY DEF WaitFor, Leave
<1>2. execution' = execution \/ execution' = [state |-> "PAUSED", wait |-> kind]
  BY DEF WaitFor, Pause
<1>3. Current' = Current /\ Attempt' = Attempt
  BY DEF Current, Attempt
<1>4. TypeOK'
  BY <1>1, <1>2, CallerTypes, BudgetTypes DEF TypeOK, IInv
<1>5. Attended'
  BY <1>1, <1>2, <1>3 DEF Attended, At, Idle, Executing, IInv, Since, AtMost
<1>6. Budgeted' /\ Untouched' /\ Less(budget, budget')
  BY <1>1, <1>2, <1>3, BudgetTypes DEF IInv, Budgeted, Untouched, Less, Idle
<1>7. At("idle")'
  BY <1>1 DEF At, Idle
<1> QED BY <1>4, <1>5, <1>6, <1>7, QuietStep

\* A foreground call that goes on, with the same budget and no answer yet.
LEMMA GoOn ==
  ASSUME IInv, ~At("idle"), ~At("running"), ~At("startup") \/ Current = 1,
         UNCHANGED <<plan, budget, execution, goal, attempts, host, clock>>,
         caller' \in Callers, caller'.limits = caller.limits,
         caller'.pc \notin {"startup", "invoke", "running"},
         caller'.answer # caller.answer =>
           /\ caller'.answer = "host" => Attempt.dir # "none"
           /\ caller'.answer = "exhausted" => Exhausted(caller.limits),
         caller'.pc \in Executing => Attempt.effect # "OBSERVED",
         (caller'.pc = "record" /\ caller'.answer # "none") => host = "none"
  PROVE  IInv'
<1>1. Current' = Current /\ Attempt' = Attempt
  BY DEF Current, Attempt
<1>2. TypeOK'
  BY DEF TypeOK, IInv
<1>3. Attended'
  BY <1>1 DEF Attended, At, Executing, IInv, Since, AtMost
<1>4. Untouched'
  <2> SUFFICES ASSUME Current = 1, Attempt.dir = "none", ~Attempt.torn, plan.budget.calls > 0
               PROVE  caller'.answer \notin {"host", "exhausted"}
    BY <1>1 DEF IInv, Untouched
  <2>1. ~Exhausted(caller.limits)
    BY FirstNotExhausted DEF IInv, Untouched
  <2> QED BY <2>1 DEF IInv, Untouched
<1>5. Budgeted' /\ Less(budget, budget')
  BY BudgetTypes DEF IInv, Budgeted, Less
<1> QED BY <1>2, <1>3, <1>4, <1>5, QuietStep

LEMMA LeavePreserves ==
  ASSUME IInv, Leave, ~At("running"),
         execution' = execution \/ execution' = [state |-> "TERMINAL", wait |-> "NONE"],
         UNCHANGED <<plan, budget, goal, attempts, host, clock>>, ~At("idle")
  PROVE  IInv'
<1>1. caller' = Idle
  BY DEF Leave
<1>2. Current' = Current /\ Attempt' = Attempt
  BY DEF Current, Attempt
<1>3. TypeOK'
  BY <1>1, CallerTypes DEF TypeOK, IInv
<1>4. Attended'
  BY <1>1, <1>2 DEF Attended, At, Idle, Executing, IInv, Since, AtMost
<1>5. Budgeted' /\ Untouched' /\ Less(budget, budget')
  BY <1>1, <1>2, BudgetTypes DEF IInv, Budgeted, Untouched, Less, Idle
<1>6. At("idle")'
  BY <1>1 DEF At, Idle
<1> QED BY <1>3, <1>4, <1>5, <1>6, QuietStep

\* A loop whose budget blocks it may have been charged for its first Attempt only.
LEMMA BlockedIsTouched ==
  ASSUME IInv, Exhausted(caller.limits)
  PROVE  ~(Current = 1 /\ Attempt.dir = "none" /\ ~Attempt.torn /\ plan.budget.calls > 0)
  BY FirstNotExhausted DEF IInv, Untouched

LEMMA StartupPreserves == ASSUME IInv, Startup PROVE IInv'
<1>1. /\ At("startup") /\ ~At("idle") /\ ~At("running") /\ Current > 0
      /\ UNCHANGED <<plan, budget, goal, attempts, host, clock>>
      /\ goal' \in Nat
  BY DEF Startup, At, IInv, Attended, TypeOK
<1>2. CASE Leave /\ UNCHANGED <<execution, labels>>
  BY <1>1, <1>2, LeavePreserves
<1>3. CASE Gated /\ WaitFor(Kind, "gate")
  BY <1>1, <1>3, WaitForPreserves DEF Gated
<1>4. CASE Current = 1 /\ Goto("sync") /\ UNCHANGED <<execution, labels>>
  <2>1. /\ caller' \in Callers /\ caller'.limits = caller.limits
        /\ caller'.pc = "sync" /\ caller'.answer = caller.answer
    BY <1>4 DEF Goto, IInv, TypeOK, Callers
  <2>2. caller'.pc \notin Executing
    BY <2>1 DEF Executing
  <2> QED BY <1>1, <1>4, <2>1, <2>2, GoOn
<1>5. CASE Blocked /\ WaitFor("BUDGET", "budget")
  <2>1. Exhausted(caller.limits)
    BY <1>5 DEF Blocked
  <2> QED BY <1>1, <1>5, <2>1, WaitForPreserves, BlockedIsTouched
<1>6. CASE Current = 1 /\ Open /\ \E next \in {"idle", "sync"} : ToExecute(next)
  <2>1. PICK next \in {"idle", "sync"} : ToExecute(next)
    BY <1>6
  <2>2. /\ caller' \in Callers /\ caller'.limits = caller.limits /\ caller'.pc = "execute"
        /\ caller'.answer = caller.answer /\ Attempt.effect # "OBSERVED"
    BY <1>1, <1>6, <2>1, CurrentAttempt
    DEF ToExecute, Provider, IInv, TypeOK, Callers, Executing, Open, Attempts
  <2> QED BY <1>1, <1>6, <2>1, <2>2, GoOn DEF ToExecute
<1> QED BY <1>2, <1>3, <1>4, <1>5, <1>6 DEF Startup

LEMMA SyncPreserves == ASSUME IInv, Sync PROVE IInv'
<1>1. /\ At("sync") /\ ~At("idle") /\ ~At("running") /\ ~At("startup") /\ Current > 0
      /\ UNCHANGED <<plan, budget, goal, attempts, host, clock>>
      /\ goal' \in Nat
  BY DEF Sync, At, IInv, Attended, TypeOK
<1>2. CASE Leave /\ UNCHANGED <<execution, labels>>
  BY <1>1, <1>2, LeavePreserves
<1>3. CASE Goto("settle") /\ UNCHANGED <<execution, labels>>
  <2>1. /\ caller' \in Callers /\ caller'.limits = caller.limits
        /\ caller'.pc = "settle" /\ caller'.answer = caller.answer
    BY <1>3 DEF Goto, IInv, TypeOK, Callers
  <2>2. caller'.pc \notin Executing
    BY <2>1 DEF Executing
  <2> QED BY <1>1, <1>3, <2>1, <2>2, GoOn
<1>4. CASE Blocked /\ WaitFor("BUDGET", "budget")
  <2>1. Exhausted(caller.limits)
    BY <1>4 DEF Blocked
  <2> QED BY <1>1, <1>4, <2>1, WaitForPreserves, BlockedIsTouched
<1>5. CASE Open /\ ToExecute("settle")
  <2>1. /\ caller' \in Callers /\ caller'.limits = caller.limits /\ caller'.pc = "execute"
        /\ caller'.answer = caller.answer /\ Attempt.effect # "OBSERVED"
    BY <1>1, <1>5, CurrentAttempt
    DEF ToExecute, Provider, IInv, TypeOK, Callers, Executing, Open, Attempts
  <2> QED BY <1>1, <1>5, <2>1, GoOn DEF ToExecute
<1> QED BY <1>2, <1>3, <1>4, <1>5 DEF Sync

LEMMA RecoverPreserves == ASSUME IInv, Recover PROVE IInv'
<1>1. /\ At("recover") /\ ~At("idle") /\ ~At("running") /\ ~At("startup") /\ Current > 0
      /\ UNCHANGED <<plan, budget, execution, goal, attempts, host, clock>>
      /\ Attempt.effect # "OBSERVED"
      /\ host # "none" => Attempt.dir = "begun"
  BY DEF Recover, At, IInv, Attended, Executing
<1>2. ASSUME NEW answer \in Answers, Answered(answer), answer # "none" => host = "none",
             answer = "host" => Attempt.dir # "none",
             answer = "exhausted" => Exhausted(caller.limits)
      PROVE  IInv'
  <2>1. caller' = [caller EXCEPT !.pc = "record", !.answer = answer, !.memory = (answer # "none")]
    BY <1>2 DEF Answered
  <2>2. (answer # "none") \in BOOLEAN
    OBVIOUS
  <2>3. caller' \in Callers
    BY <2>1, <2>2 DEF IInv, TypeOK, Callers, Executing
  <2>4. caller'.limits = caller.limits /\ caller'.pc = "record" /\ caller'.answer = answer
    BY <2>1 DEF IInv, TypeOK, Callers
  <2> QED BY <1>1, <1>2, <2>3, <2>4, GoOn
<1>3. \/ Answered("none")
      \/ Attempt.dir = "sealed" /\ Answered("host")
      \/ host = "none" /\ Answered("reconcile")
      \/ host = "none" /\ Exhausted(caller.limits) /\ Answered("exhausted")
      \/ host = "none" /\ Answered("wait")
  <2>1. ReconcileOrWait => Answered("reconcile") \/ Answered("wait")
    BY DEF ReconcileOrWait
  <2>2. Answered(IF Attempt.torn THEN "none" ELSE "host") => Answered("none") \/ Answered("host")
    OBVIOUS
  <2> QED BY <1>1, <2>1, <2>2 DEF Recover, Resumes
<1> QED BY <1>1, <1>2, <1>3 DEF Answers

LEMMA UserControlPreserves == ASSUME IInv, UserControl PROVE IInv'
<1>1. /\ UNCHANGED <<plan, goal, attempts, caller, host, clock>>
      /\ Current' = Current /\ Attempt' = Attempt
  BY DEF UserControl, Current, Attempt
<1>2. budget' \in Budgets /\ Less(budget, budget') /\ execution'.state \in {"PAUSED", "ACTIVE"}
  BY BudgetTypes
  DEF UserControl, ControlLoop, ExtendBudget, Extensions, Pause, Activate, Less, IInv, TypeOK
<1>3. TypeOK'
  BY <1>1, <1>2 DEF TypeOK, IInv
<1>4. Attended'
  <2>1. execution.state # "ABSENT"
    BY DEF UserControl, ControlLoop, ExtendBudget
  <2> QED BY <1>1, <1>2, <2>1 DEF Attended, At, IInv, Since, AtMost
<1>5. Budgeted'
  BY <1>1, <1>2, BudgetTypes DEF IInv, Budgeted, Less
<1>6. Untouched'
  <2>1. Current > 0
    BY DEF UserControl, ControlLoop, ExtendBudget, IInv, Attended
  <2>2. ControlLoop => execution'.wait = "NONE" /\ budget' = budget
    BY DEF ControlLoop, Pause, Activate
  <2>3. ExtendBudget => execution.wait = "BUDGET"
    BY DEF ExtendBudget
  <2> QED BY <1>1, <2>1, <2>2, <2>3 DEF IInv, Untouched, UserControl
<1>7. CASE At("startup") => Current = 1
  BY <1>1, <1>2, <1>3, <1>4, <1>5, <1>6, <1>7, QuietStep DEF At
<1>8. CASE At("startup") /\ Current # 1
  BY <1>1, <1>2, <1>3, <1>4, <1>5, <1>6, <1>8, QuietStep DEF At, Fits
<1> QED BY <1>7, <1>8

LEMMA OrphanEndsPreserves == ASSUME IInv, OrphanEnds PROVE IInv'
<1>1. /\ UNCHANGED <<plan, budget, execution, goal, attempts, caller, clock>>
      /\ host = "orphan" /\ host' = "none"
      /\ Current' = Current /\ Attempt' = Attempt
  BY DEF OrphanEnds, Current, Attempt
<1>2. TypeOK'
  BY <1>1 DEF TypeOK, IInv
<1>3. Attended'
  BY <1>1 DEF Attended, At, Executing, IInv
<1>4. Budgeted' /\ Untouched' /\ Less(budget, budget')
  BY <1>1, BudgetTypes DEF IInv, Budgeted, Untouched, Less
<1>5. CASE ~At("idle") /\ (At("startup") => Current = 1)
  BY <1>1, <1>2, <1>3, <1>4, <1>5, QuietStep
<1>6. CASE At("idle")
  BY <1>1, <1>2, <1>3, <1>4, <1>6, QuietStep DEF At
<1>7. CASE At("startup") /\ Current # 1
  BY <1>1, <1>2, <1>3, <1>4, <1>7, QuietStep DEF At
<1> QED BY <1>5, <1>6, <1>7

-----------------------------------------------------------------------------
(***************************************************************************)
(* The steps of an Attempt preserve the invariant.                         *)
(***************************************************************************)
\* The call that executes an Attempt.
LEMMA ExecutingCall ==
  ASSUME IInv, caller.pc \in Executing
  PROVE  /\ Current > 0 /\ ~At("idle") /\ ~At("startup")
         /\ Attempt \in Attempts /\ Documented(Attempt) /\ Attempt.effect # "OBSERVED"
         /\ caller \in Callers /\ caller.limits \in Budgets
<1>1. Current > 0 /\ ~At("idle") /\ ~At("startup") /\ Attempt.effect # "OBSERVED"
  BY DEF IInv, Attended, At, Executing
<1>2. Attempt \in Attempts /\ Documented(Attempt)
  BY <1>1, CurrentAttempt DEF IInv, Attempt
<1> QED BY <1>1, <1>2 DEF IInv, TypeOK, Callers

LEMMA AnsweredCaller ==
  ASSUME TypeOK, NEW answer \in Answers, Answered(answer)
  PROVE  /\ caller' \in Callers /\ caller'.limits = caller.limits
         /\ caller'.pc = "record" /\ caller'.answer = answer
<1>1. caller' = [caller EXCEPT !.pc = "record", !.answer = answer, !.memory = (answer # "none")]
  BY DEF Answered
<1>2. (answer # "none") \in BOOLEAN
  OBVIOUS
<1> QED BY <1>1, <1>2 DEF TypeOK, Callers, Executing

\* The types after an Attempt was updated.
LEMMA UpdateTypes ==
  ASSUME TypeOK, Current > 0, NEW a \in Attempts, Update(a), caller' \in Callers,
         host' \in {"none", "attended", "orphan"},
         UNCHANGED <<plan, budget, execution, goal, clock>>
  PROVE  TypeOK'
<1>1. attempts' \in Seq(Attempts)
  BY CurrentAttempt DEF TypeOK, Update
<1> QED BY <1>1 DEF TypeOK

LEMMA ExecutePreserves == ASSUME IInv, Execute PROVE IInv'
<1> DEFINE a == [Attempt EXCEPT !.claimed = TRUE]
<1>1. At("execute") /\ caller.pc \in Executing
  BY DEF Execute, At, Executing
<1>2. /\ Current > 0 /\ ~At("idle") /\ ~At("startup") /\ Attempt.effect # "OBSERVED"
      /\ Attempt \in Attempts /\ Documented(Attempt) /\ caller \in Callers
  BY <1>1, ExecutingCall
<1>3. UNCHANGED <<plan, budget, execution, goal, host, clock>> /\ Update(a)
  BY DEF Execute
<1>4. /\ a \in Attempts /\ Documented(a) /\ a.dir = Attempt.dir /\ a.effect = Attempt.effect
      /\ a.bound = Attempt.bound /\ a.rest = Attempt.rest /\ a.prior = Attempt.prior
      /\ a.spawns = Attempt.spawns /\ a.answer = Attempt.answer
      /\ a.started = Attempt.started /\ a.restarted = Attempt.restarted /\ a.claimed
      /\ a.torn = Attempt.torn
  BY <1>2 DEF Attempts, Documented
<1>5. /\ Current' = Current /\ Attempt' = a
  BY <1>2, <1>3, UpdateKeepsPast DEF IInv
<1>6. /\ caller' \in Callers /\ caller'.limits = caller.limits
      /\ caller'.pc \in {"recover", "invoke", "record"}
      /\ caller'.pc = "invoke" => ~Attempt.claimed
      /\ caller'.pc = "record" /\ caller'.answer # "none" => ~Attempt.claimed
      /\ caller'.answer \in {caller.answer, "none", "gate", "skip"}
  <2>1. CASE caller.provider = "host"
    <3>1. Goto(IF Attempt.claimed THEN "recover" ELSE "invoke")
      BY <2>1 DEF Execute
    <3> QED BY <1>2, <3>1 DEF Goto, Callers, Executing
  <2>2. CASE caller.provider # "host"
    <3>1. Answered(IF Attempt.claimed THEN "none" ELSE caller.provider)
      BY <2>2 DEF Execute
    <3>2. caller.provider \in {"gate", "skip"}
      BY <1>2, <2>2 DEF Callers
    <3>3. CASE Attempt.claimed
      BY <3>1, <3>3, AnsweredCaller DEF IInv, Answers
    <3>4. CASE ~Attempt.claimed
      BY <3>1, <3>2, <3>4, AnsweredCaller DEF IInv, Answers
    <3> QED BY <3>3, <3>4
  <2> QED BY <2>1, <2>2
<1> HIDE DEF a
<1>7. TypeOK'
  BY <1>2, <1>3, <1>4, <1>6, UpdateTypes DEF IInv, TypeOK
<1>8. ~Attempt.claimed => Attempt.dir = "none" /\ host = "none"
  BY <1>2 DEF Documented, IInv, Attended
<1>9. Attended'
  BY <1>1, <1>2, <1>3, <1>4, <1>5, <1>6, <1>8
  DEF Attended, At, Executing, IInv, Since, AtMost
<1>10. Budgeted' /\ Untouched'
  BY <1>2, <1>3, <1>4, <1>5, <1>6 DEF IInv, Budgeted, Untouched
<1> QED BY <1>2, <1>3, <1>4, <1>6, <1>7, <1>9, <1>10, UpdateStep

LEMMA SeeSessionPreserves == ASSUME IInv, SeeSession PROVE IInv'
<1> DEFINE a == [Attempt EXCEPT !.session = TRUE]
<1>1. At("running") /\ caller.pc \in Executing
  BY DEF SeeSession, At, Executing
<1>2. /\ Current > 0 /\ ~At("idle") /\ ~At("startup")
      /\ Attempt \in Attempts /\ Documented(Attempt)
  BY <1>1, ExecutingCall
<1>3. UNCHANGED <<plan, budget, execution, goal, caller, host, clock>> /\ Update(a)
  BY DEF SeeSession
<1>4. /\ a \in Attempts /\ Documented(a) /\ a.dir = Attempt.dir /\ a.effect = Attempt.effect
      /\ a.bound = Attempt.bound /\ a.rest = Attempt.rest /\ a.prior = Attempt.prior
      /\ a.spawns = Attempt.spawns /\ a.answer = Attempt.answer
      /\ a.started = Attempt.started /\ a.restarted = Attempt.restarted /\ a.torn = Attempt.torn
  BY <1>2 DEF Attempts, Documented
<1>5. /\ Current' = Current /\ Attempt' = a
  BY <1>2, <1>3, UpdateKeepsPast DEF IInv
<1> HIDE DEF a
<1>6. TypeOK'
  BY <1>2, <1>3, <1>4, UpdateTypes DEF IInv, TypeOK
<1>7. Attended'
  BY <1>1, <1>2, <1>3, <1>4, <1>5 DEF Attended, At, IInv, Since, AtMost
<1>8. Budgeted' /\ Untouched'
  BY <1>2, <1>3, <1>4, <1>5 DEF IInv, Budgeted, Untouched
<1> QED BY <1>2, <1>3, <1>4, <1>6, <1>7, <1>8, UpdateStep

\* A Host that ran had its Attempt worked on for no longer than it was charged.
LEMMA SealedIsDocumented ==
  ASSUME IInv, At("running")
  PROVE  /\ Sealed \in Attempts /\ Documented(Sealed) /\ Sealed.dir = "sealed"
         /\ Sealed.effect = Attempt.effect /\ Sealed.bound = Attempt.bound
         /\ Sealed.rest = Attempt.rest /\ Sealed.prior = Attempt.prior
         /\ Sealed.spawns = Attempt.spawns /\ Sealed.answer = Attempt.answer
<1>1. /\ Attempt \in Attempts /\ Documented(Attempt) /\ Attempt.dir = "begun"
  BY ExecutingCall DEF IInv, Attended, At, Executing
<1>2. /\ Attempt.started \in Nat /\ Attempt.restarted \in Nat /\ clock \in Nat
      /\ Attempt.work \in Nat /\ Attempt.prior \in Nat /\ Attempt.rest \in Nat
      /\ Attempt.started <= clock /\ (Attempt.rest > 0 => Attempt.restarted <= clock)
      /\ Attempt.work <= clock - Attempt.started
      /\ Attempt.rest = 0 => Attempt.prior = 0
      /\ Attempt.rest > 0 => Attempt.restarted = Attempt.started + Attempt.prior
  BY <1>1 DEF Attempts, Documented, IInv, TypeOK
<1>3. clock - Since \in Nat /\ Attempt.work <= Attempt.prior + (clock - Since)
  BY <1>2 DEF Since
<1> HIDE DEF Since
<1>4. /\ Sealed \in Attempts /\ Sealed.dir = "sealed" /\ Sealed.effect = Attempt.effect
      /\ Sealed.bound = Attempt.bound /\ Sealed.rest = Attempt.rest
      /\ Sealed.prior = Attempt.prior /\ Sealed.spawns = Attempt.spawns
      /\ Sealed.answer = Attempt.answer /\ Sealed.work = Attempt.work
      /\ Sealed.started = Attempt.started /\ Sealed.restarted = Attempt.restarted
      /\ Sealed.claimed = Attempt.claimed /\ Sealed.elapsed = clock - Since
  BY <1>1, <1>3 DEF Sealed, Attempts
<1>5. Documented(Sealed)
  BY <1>1, <1>3, <1>4 DEF Documented
<1> QED BY <1>4, <1>5

LEMMA HostAnswersPreserves == ASSUME IInv, HostAnswers PROVE IInv'
<1>1. At("running") /\ caller.pc \in Executing
  BY DEF HostAnswers, At, Executing
<1>2. Current > 0 /\ ~At("idle") /\ ~At("startup") /\ Attempt.effect # "OBSERVED"
  BY <1>1, ExecutingCall
<1>3. /\ UNCHANGED <<plan, budget, execution, goal, clock>> /\ Update(Sealed)
      /\ host' = "none" /\ Answered("host")
  BY DEF HostAnswers
<1>4. /\ Sealed \in Attempts /\ Documented(Sealed) /\ Sealed.dir = "sealed"
      /\ Sealed.effect = Attempt.effect /\ Sealed.bound = Attempt.bound
      /\ Sealed.rest = Attempt.rest /\ Sealed.prior = Attempt.prior
      /\ Sealed.spawns = Attempt.spawns /\ Sealed.answer = Attempt.answer
  BY <1>1, SealedIsDocumented
<1>5. /\ Current' = Current /\ Attempt' = Sealed
  BY <1>2, <1>3, UpdateKeepsPast DEF IInv
<1>6. /\ caller' \in Callers /\ caller'.limits = caller.limits
      /\ caller'.pc = "record" /\ caller'.answer = "host"
  BY <1>3, AnsweredCaller DEF IInv, Answers
<1>7. TypeOK'
  BY <1>2, <1>3, <1>4, <1>6, UpdateTypes DEF IInv
<1>8. Attended'
  BY <1>2, <1>3, <1>4, <1>5, <1>6 DEF Attended, At, Executing, IInv
<1>9. Budgeted' /\ Untouched'
  BY <1>2, <1>3, <1>4, <1>5, <1>6 DEF IInv, Budgeted, Untouched
<1> QED BY <1>2, <1>3, <1>4, <1>6, <1>7, <1>8, <1>9, UpdateStep

LEMMA HostFailsPreserves == ASSUME IInv, HostFails PROVE IInv'
<1> DEFINE a == [Attempt EXCEPT !.dir = "failed"]
<1>1. At("running") /\ caller.pc \in Executing
  BY DEF HostFails, At, Executing
<1>2. /\ Current > 0 /\ ~At("idle") /\ ~At("startup") /\ Attempt.effect # "OBSERVED"
      /\ Attempt \in Attempts /\ Documented(Attempt) /\ Attempt.dir = "begun"
  BY <1>1, ExecutingCall DEF IInv, Attended
<1>3. /\ UNCHANGED <<plan, budget, execution, goal, clock>> /\ Update(a)
      /\ host' = "none" /\ Answered("none")
  BY DEF HostFails
<1>4. /\ a \in Attempts /\ Documented(a) /\ a.dir = "failed" /\ a.effect = Attempt.effect
      /\ a.bound = Attempt.bound /\ a.rest = Attempt.rest /\ a.prior = Attempt.prior
      /\ a.spawns = Attempt.spawns /\ a.answer = Attempt.answer
  BY <1>2 DEF Attempts, Documented
<1>5. /\ Current' = Current /\ Attempt' = a
  BY <1>2, <1>3, UpdateKeepsPast DEF IInv
<1> HIDE DEF a
<1>6. /\ caller' \in Callers /\ caller'.limits = caller.limits
      /\ caller'.pc = "record" /\ caller'.answer = "none"
  BY <1>3, AnsweredCaller DEF IInv, Answers
<1>7. TypeOK'
  BY <1>2, <1>3, <1>4, <1>6, UpdateTypes DEF IInv
<1>8. Attended'
  BY <1>2, <1>3, <1>4, <1>5, <1>6 DEF Attended, At, Executing, IInv
<1>9. Budgeted' /\ Untouched'
  BY <1>2, <1>3, <1>4, <1>5, <1>6 DEF IInv, Budgeted, Untouched
<1> QED BY <1>2, <1>3, <1>4, <1>6, <1>7, <1>8, <1>9, UpdateStep

\* A call that dies may leave a torn file, but no process of its own that it did not announce.
LEMMA CrashPreserves == ASSUME IInv, Crash PROVE IInv'
<1>1. /\ UNCHANGED <<plan, budget, execution, goal, clock>> /\ caller' = Idle
      /\ At("idle")' /\ ~At("idle") /\ caller' \in Callers
  BY CallerTypes DEF Crash, Leave, IInv, At, Idle
<1>2. ASSUME UNCHANGED attempts, host' = (IF host = "attended" THEN "orphan" ELSE host)
      PROVE  IInv'
  <2>1. Current' = Current /\ Attempt' = Attempt
    BY <1>2 DEF Current, Attempt
  <2>2. TypeOK'
    BY <1>1, <1>2, CallerTypes DEF TypeOK, IInv
  <2>3. Attended'
    BY <1>1, <1>2, <2>1 DEF Attended, At, Idle, Executing, IInv, TypeOK
  <2>4. Budgeted' /\ Untouched' /\ Less(budget, budget')
    BY <1>1, <1>2, <2>1, BudgetTypes DEF IInv, Budgeted, Untouched, Less, Idle
  <2> QED BY <1>1, <1>2, <2>2, <2>3, <2>4, QuietStep
<1>3. ASSUME caller.pc \in Executing, NEW a \in Attempts, Documented(a), Update(a), a.torn,
             a.bound = Attempt.bound, a.rest = Attempt.rest, a.prior = Attempt.prior,
             a.spawns = Attempt.spawns, a.effect = Attempt.effect,
             host' = "none" \/ (UNCHANGED host /\ host # "attended" /\ a.dir = Attempt.dir)
      PROVE  IInv'
  <2>1. Current > 0 /\ Attempt.effect # "OBSERVED"
    BY <1>3, ExecutingCall
  <2>2. Current' = Current /\ Attempt' = a
    BY <1>1, <1>3, <2>1, UpdateKeepsPast DEF IInv
  <2>3. TypeOK'
    BY <1>1, <1>3, <2>1, UpdateTypes DEF IInv, TypeOK
  <2>4. Attended'
    BY <1>1, <1>3, <2>1, <2>2 DEF Attended, At, Idle, Executing, IInv, TypeOK
  <2>5. Budgeted' /\ Untouched'
    BY <1>1, <1>3, <2>1, <2>2, BudgetTypes DEF IInv, Budgeted, Untouched, Less, Idle
  <2> QED BY <1>1, <1>3, <2>1, <2>3, <2>4, <2>5, UpdateStep
<1>4. CASE /\ MayResume \/ (At("invoke") /\ ~Exhausted(caller.limits))
           /\ Update([Attempt EXCEPT !.torn = TRUE]) /\ UNCHANGED host
  <2> DEFINE a == [Attempt EXCEPT !.torn = TRUE]
  <2>1. caller.pc \in Executing /\ host # "attended"
    BY <1>4 DEF MayResume, At, Executing, IInv, Attended
  <2>2. Attempt \in Attempts /\ Documented(Attempt)
    BY <2>1, ExecutingCall
  <2>3. /\ a \in Attempts /\ Documented(a) /\ a.torn /\ a.dir = Attempt.dir
        /\ a.bound = Attempt.bound /\ a.rest = Attempt.rest /\ a.prior = Attempt.prior
        /\ a.spawns = Attempt.spawns /\ a.effect = Attempt.effect
    BY <2>2 DEF Attempts, Documented
  <2>4. Update(a)
    BY <1>4
  <2> HIDE DEF a
  <2> QED BY <1>3, <1>4, <2>1, <2>3, <2>4
<1>5. CASE At("running") /\ Update([Sealed EXCEPT !.torn = TRUE]) /\ host' = "none"
  <2> DEFINE a == [Sealed EXCEPT !.torn = TRUE]
  <2>1. caller.pc \in Executing
    BY <1>5 DEF At, Executing
  <2>2. /\ Sealed \in Attempts /\ Documented(Sealed)
        /\ Sealed.effect = Attempt.effect /\ Sealed.bound = Attempt.bound
        /\ Sealed.rest = Attempt.rest /\ Sealed.prior = Attempt.prior
        /\ Sealed.spawns = Attempt.spawns
    BY <1>5, SealedIsDocumented
  <2>3. /\ a \in Attempts /\ Documented(a) /\ a.torn
        /\ a.bound = Attempt.bound /\ a.rest = Attempt.rest /\ a.prior = Attempt.prior
        /\ a.spawns = Attempt.spawns /\ a.effect = Attempt.effect
    BY <2>2 DEF Attempts, Documented
  <2>4. Update(a)
    BY <1>5
  <2> HIDE DEF a
  <2> QED BY <1>3, <1>5, <2>1, <2>3, <2>4
<1> QED BY <1>2, <1>4, <1>5 DEF Crash, Tear

LEMMA RecordPreserves == ASSUME IInv, Record PROVE IInv'
<1>1. At("record") /\ caller.pc \in Executing
  BY DEF Record, At, Executing
<1>2. /\ Current > 0 /\ ~At("idle") /\ ~At("startup") /\ Attempt.effect # "OBSERVED"
      /\ Attempt \in Attempts /\ Documented(Attempt) /\ caller \in Callers
  BY <1>1, ExecutingCall
<1>3. UNCHANGED <<plan, budget, execution, goal, host, clock>>
  BY DEF Record
<1>4. host # "attended" /\ caller.answer \in Answers
  BY <1>1, <1>2 DEF IInv, Attended, At, Callers
<1>5. CASE caller.answer = "none"
  <2> DEFINE a == [Attempt EXCEPT !.effect = "UNKNOWN"]
  <2>1. Update(a) /\ caller' = Idle
    BY <1>5 DEF Record, Leave
  <2>2. /\ a \in Attempts /\ Documented(a) /\ a.dir = Attempt.dir /\ a.effect = "UNKNOWN"
        /\ a.bound = Attempt.bound /\ a.rest = Attempt.rest /\ a.prior = Attempt.prior
        /\ a.spawns = Attempt.spawns /\ a.answer = Attempt.answer /\ a.torn = Attempt.torn
    BY <1>2 DEF Attempts, Documented
  <2>3. /\ Current' = Current /\ Attempt' = a
    BY <1>2, <1>3, <2>1, UpdateKeepsPast DEF IInv
  <2> HIDE DEF a
  <2>4. TypeOK'
    BY <1>2, <1>3, <2>1, <2>2, CallerTypes, UpdateTypes DEF IInv, TypeOK
  <2>5. Attended'
    BY <1>2, <1>3, <1>4, <2>1, <2>2, <2>3 DEF Attended, At, Idle, Executing, IInv
  <2>6. Budgeted' /\ Untouched'
    BY <1>2, <1>3, <2>1, <2>2, <2>3, BudgetTypes DEF IInv, Budgeted, Untouched, Idle, Less
  <2>7. At("idle")'
    BY <2>1 DEF At, Idle
  <2> QED BY <1>2, <1>3, <2>1, <2>2, <2>4, <2>5, <2>6, <2>7, UpdateStep
<1>6. CASE caller.answer # "none"
  <2> DEFINE a == [Attempt EXCEPT !.effect = "OBSERVED", !.answer = caller.answer]
  <2>1. Update(a) /\ (IF caller.next = "idle" THEN Leave ELSE Goto(caller.next))
    BY <1>6 DEF Record
  <2>2. /\ a \in Attempts /\ Documented(a) /\ a.dir = Attempt.dir /\ a.effect = "OBSERVED"
        /\ a.bound = Attempt.bound /\ a.rest = Attempt.rest /\ a.prior = Attempt.prior
        /\ a.spawns = Attempt.spawns /\ a.answer = caller.answer /\ a.torn = Attempt.torn
    BY <1>2, <1>4 DEF Attempts, Documented
  <2>3. /\ Current' = Current /\ Attempt' = a
    BY <1>2, <1>3, <2>1, UpdateKeepsPast DEF IInv
  <2> HIDE DEF a
  <2>4. host = "none"
    BY <1>1, <1>6 DEF IInv, Attended
  <2>5. CASE caller.next = "idle"
    <3>1. caller' = Idle
      BY <2>1, <2>5 DEF Leave
    <3>2. TypeOK'
      BY <1>2, <1>3, <2>1, <2>2, <3>1, CallerTypes, UpdateTypes DEF IInv, TypeOK
    <3>3. Attended'
      BY <1>2, <1>3, <2>2, <2>3, <2>4, <3>1 DEF Attended, At, Idle, Executing, IInv
    <3>4. Budgeted' /\ Untouched'
      BY <1>2, <1>3, <2>2, <2>3, <3>1, BudgetTypes DEF IInv, Budgeted, Untouched, Idle, Less
    <3>5. At("idle")'
      BY <3>1 DEF At, Idle
    <3> QED BY <1>2, <1>3, <2>1, <2>2, <3>2, <3>3, <3>4, <3>5, UpdateStep
  <2>6. CASE caller.next # "idle"
    <3>1. /\ caller' \in Callers /\ caller'.limits = caller.limits
          /\ caller'.pc \in {"sync", "settle"} /\ caller'.answer = caller.answer
      BY <1>2, <2>1, <2>6 DEF Goto, Callers
    <3>2. TypeOK'
      BY <1>2, <1>3, <2>1, <2>2, <3>1, UpdateTypes DEF IInv, TypeOK
    <3>3. Attended'
      BY <1>2, <1>3, <2>2, <2>3, <2>4, <3>1 DEF Attended, At, Executing, IInv
    <3>4. Budgeted' /\ Untouched'
      BY <1>2, <1>3, <2>2, <2>3, <3>1 DEF IInv, Budgeted, Untouched
    <3> QED BY <1>2, <1>3, <2>1, <2>2, <3>1, <3>2, <3>3, <3>4, UpdateStep
  <2> QED BY <2>5, <2>6
<1> QED BY <1>5, <1>6

\* A call that is not out of budget has some left.
LEMMA Afforded ==
  ASSUME IInv, caller.pc \in Executing, ~Exhausted(caller.limits)
  PROVE  /\ Affordable \in Nat /\ Affordable > 0
         /\ caller.limits.calls \in Nat /\ caller.limits.compute \in Nat
         /\ budget.calls \in Nat /\ budget.compute \in Nat
         /\ caller.limits.calls <= budget.calls /\ caller.limits.compute <= budget.compute
         /\ Total(Past(Spawned)) \in Nat /\ Total(Past(Works)) \in Nat
         /\ Total(Past(Charges)) \in Nat
         /\ Total(Past(Spawned)) + Attempt.spawns < caller.limits.calls
         /\ Affordable = caller.limits.compute - (Total(Past(Charges)) + Compute(Attempt))
<1>1. Current > 0 /\ Attempt \in Attempts /\ Documented(Attempt)
  BY ExecutingCall
<1>2. Compute(Attempt) \in Nat /\ Attempt.spawns \in Nat
  BY <1>1, ComputeType DEF IInv, Attempts
<1>3. /\ Total(Past(Spawned)) \in Nat /\ Total(Past(Works)) \in Nat
      /\ Total(Past(Charges)) \in Nat
      /\ UsedCompute = Total(Past(Charges)) + Compute(Attempt)
      /\ UsedCalls = Total(Past(Spawned)) + Attempt.spawns
  BY <1>1, Sums DEF IInv
<1>4. /\ caller.limits.calls \in Nat /\ caller.limits.compute \in Nat
      /\ budget.calls \in Nat /\ budget.compute \in Nat
      /\ caller.limits.calls <= budget.calls /\ caller.limits.compute <= budget.compute
  BY BudgetTypes DEF IInv, Budgeted, Less
<1>5. ~(UsedCalls >= caller.limits.calls) /\ ~(UsedCompute >= caller.limits.compute)
  BY DEF Exhausted
<1>6. Affordable = caller.limits.compute - UsedCompute
  BY DEF Affordable
<1> QED BY <1>2, <1>3, <1>4, <1>5, <1>6

\* The types and the caller once a Host runs.
LEMMA RunningTypes ==
  ASSUME IInv, Running, caller.pc \in Executing, NEW a \in Attempts, Update(a),
         UNCHANGED <<plan, budget, execution, goal, clock>>
  PROVE  /\ TypeOK' /\ caller'.pc = "running" /\ caller'.limits = caller.limits
         /\ host' = "attended" /\ caller' \in Callers
<1>1. Current > 0 /\ caller \in Callers
  BY ExecutingCall
<1>2. /\ caller' = [caller EXCEPT !.pc = "running", !.next = IF @ = "idle" THEN "sync" ELSE @]
      /\ host' = "attended"
  BY DEF Running
<1>3. caller' \in Callers /\ caller'.pc = "running" /\ caller'.limits = caller.limits
  BY <1>1, <1>2 DEF Callers, Executing
<1> QED BY <1>1, <1>2, <1>3, UpdateTypes DEF IInv

LEMMA InvokePreserves == ASSUME IInv, Invoke PROVE IInv'
<1>1. At("invoke") /\ caller.pc \in Executing
  BY DEF Invoke, At, Executing
<1>2. /\ Current > 0 /\ Attempt \in Attempts /\ Documented(Attempt) /\ Attempt.dir = "none"
      /\ Attempt.claimed /\ Attempt.effect # "OBSERVED" /\ host = "none"
      /\ ~At("idle") /\ ~At("running") /\ ~At("startup")
  BY <1>1, ExecutingCall DEF IInv, Attended, At
<1>3. UNCHANGED <<plan, budget, execution, goal, clock>>
  BY DEF Invoke
<1>4. CASE Exhausted(caller.limits)
  <2>1. Answered("exhausted") /\ UNCHANGED <<attempts, host>>
    BY <1>4 DEF Invoke
  <2>2. /\ caller' \in Callers /\ caller'.limits = caller.limits
        /\ caller'.pc = "record" /\ caller'.answer = "exhausted"
    BY <2>1, AnsweredCaller DEF IInv, Answers
  <2> QED BY <1>2, <1>3, <1>4, <2>1, <2>2, GoOn
<1>5. CASE ~Exhausted(caller.limits)
  <2> DEFINE b == Least(Timeout, Affordable)
             a == [Attempt EXCEPT !.dir = "begun", !.spawns = 1, !.started = clock, !.bound = b]
  <2>1. Update(a) /\ Running
    BY <1>5 DEF Invoke
  <2>2. /\ Affordable \in Nat /\ Total(Past(Charges)) \in Nat /\ Total(Past(Works)) \in Nat
        /\ caller.limits.calls \in Nat /\ caller.limits.compute \in Nat
        /\ budget.calls \in Nat /\ budget.compute \in Nat /\ Total(Past(Spawned)) \in Nat
        /\ caller.limits.calls <= budget.calls /\ caller.limits.compute <= budget.compute
        /\ Total(Past(Spawned)) + Attempt.spawns < caller.limits.calls
        /\ Affordable = caller.limits.compute - (Total(Past(Charges)) + Compute(Attempt))
    BY <1>1, <1>5, Afforded
  <2>3. Attempt.spawns = 0 /\ Compute(Attempt) = 0 /\ Attempt.rest = 0 /\ Attempt.work = 0
    BY <1>2 DEF Documented, Compute, Attempts
  <2>4. b \in Nat /\ b <= Timeout /\ b <= Affordable
    BY <2>2, NatAssumption DEF Least
  <2> HIDE DEF b
  <2>5. /\ a \in Attempts /\ a.dir = "begun" /\ a.effect = Attempt.effect /\ a.bound = b
        /\ a.rest = 0 /\ a.prior = Attempt.prior /\ a.spawns = 1 /\ a.work = 0
        /\ a.started = clock /\ a.claimed = Attempt.claimed
    BY <1>2, <2>3, <2>4 DEF Attempts, IInv, TypeOK
  <2>6. /\ Current' = Current /\ Attempt' = a /\ DOMAIN attempts' = DOMAIN attempts
        /\ \A i \in DOMAIN attempts : i # Current => attempts'[i] = attempts[i]
        /\ Past(Works)' = Past(Works) /\ Past(Charges)' = Past(Charges)
        /\ Past(Spawned)' = Past(Spawned)
    BY <1>2, <1>3, <2>1, UpdateKeepsPast DEF IInv
  <2> HIDE DEF a
  <2>7. /\ TypeOK' /\ caller'.pc = "running" /\ caller'.limits = caller.limits
        /\ host' = "attended"
    BY <1>1, <1>3, <2>1, <2>5, RunningTypes
  <2>8. Documented(a)
    BY <1>2, <2>3, <2>4, <2>5 DEF Documented, IInv, TypeOK
  <2>9. (\A i \in DOMAIN attempts : Documented(attempts[i]))'
    <3>1. ASSUME NEW i \in DOMAIN attempts PROVE Documented(attempts'[i])
      <4>1. attempts'[Current] = a
        BY <2>6 DEF Attempt
      <4> QED BY <2>6, <2>8, <4>1 DEF IInv
    <3> QED BY <1>3, <2>6, <3>1 DEF Documented
  <2>10. Attended'
    BY <1>2, <1>3, <2>4, <2>5, <2>6, <2>7 DEF Attended, At, Executing, IInv, TypeOK, Since, AtMost
  <2>11. Budgeted' /\ Untouched'
    BY <1>2, <1>3, <2>5, <2>6, <2>7 DEF IInv, Budgeted, Untouched
  <2>12. CallsWithinBudget'
    <3>1. Total(Spawned)' = Total(Past(Spawned)) + 1
      BY <1>2, <2>5, <2>6, <2>7, SpawnedPrimed
    <3> QED BY <1>3, <2>2, <2>3, <3>1 DEF CallsWithinBudget, Spawned
  <2>13. Total(Past(Works)) + b <= caller.limits.compute
    BY <1>2, <2>2, <2>3, <2>4 DEF IInv, Reckoned
  <2>14. /\ Total(Past(Works))' = Total(Past(Works))
         /\ Total(Past(Charges))' = Total(Past(Charges))
    BY <2>6
  <2>15. Fits'
    BY <2>5, <2>6, <2>7, <2>13, <2>14 DEF Fits
  <2>16. Current = 1 /\ plan.budget.calls > 0 => b <= plan.budget.compute
    <3>1. ~Attempt.torn
      BY <1>2, <1>5, CurrentAttempt DEF IInv, Exhausted, Attempt
    <3>2. Current = 1 /\ plan.budget.calls > 0 => caller.limits = plan.budget
      BY <1>2, <3>1 DEF IInv, Untouched
    <3> QED BY <2>2, <2>3, <2>4, <3>2
  <2>17. Reckoned'
    BY <1>2, <1>3, <2>2, <2>4, <2>5, <2>6, <2>13, <2>14, <2>16 DEF IInv, Reckoned
  <2> QED BY <2>7, <2>9, <2>10, <2>11, <2>12, <2>15, <2>17 DEF IInv
<1> QED BY <1>4, <1>5

\* A resume gets what is left, and is charged from where the first process was given up.
LEMMA ResumePreserves == ASSUME IInv, Resume PROVE IInv'
<1> DEFINE p == Spent(Attempt.started, Attempt.bound)
           r == Rest(Attempt)
           a == [Attempt EXCEPT !.spawns = 2, !.prior = p, !.restarted = clock, !.rest = r]
<1>1. At("recover") /\ caller.pc \in Executing
  BY DEF Resume, MayResume, At, Executing
<1>2. /\ Current > 0 /\ Attempt \in Attempts /\ Documented(Attempt) /\ Attempt.dir = "begun"
      /\ Attempt.effect # "OBSERVED" /\ Attempt.rest = 0
      /\ ~At("idle") /\ ~At("startup") /\ ~Exhausted(caller.limits)
  BY <1>1, ExecutingCall DEF Resume, MayResume, Resumes
<1>3. UNCHANGED <<plan, budget, execution, goal, clock>> /\ Update(a) /\ Running
  BY DEF Resume
<1>4. /\ Affordable \in Nat /\ Total(Past(Charges)) \in Nat /\ Total(Past(Works)) \in Nat
      /\ caller.limits.calls \in Nat /\ caller.limits.compute \in Nat
      /\ budget.calls \in Nat /\ budget.compute \in Nat /\ Total(Past(Spawned)) \in Nat
      /\ caller.limits.calls <= budget.calls /\ caller.limits.compute <= budget.compute
      /\ Total(Past(Spawned)) + Attempt.spawns < caller.limits.calls
      /\ Affordable = caller.limits.compute - (Total(Past(Charges)) + Compute(Attempt))
      /\ Affordable > 0
  BY <1>1, <1>2, Afforded
<1>5. /\ Attempt.spawns = 1 /\ Compute(Attempt) = p /\ Attempt.bound \in Nat
      /\ Attempt.bound <= Timeout /\ Attempt.started \in Nat /\ clock \in Nat
      /\ Attempt.started <= clock /\ Attempt.work <= clock - Attempt.started
      /\ Attempt.claimed
  BY <1>2 DEF Documented, Compute, Attempts, IInv, TypeOK
<1>6. p = clock - Attempt.started /\ p \in Nat /\ p < Attempt.bound
  <2>1. Attempt.bound - p > 0
    BY DEF Resume, MayResume, Remaining
  <2> QED BY <1>5, <2>1 DEF Spent, Least
<1>7. /\ r \in Nat /\ r > 0 /\ p + r <= Attempt.bound
      /\ p + r = Attempt.bound \/ r = Affordable
  <2>1. r = Least(Least(Timeout, Affordable), Attempt.bound - p)
    BY DEF Rest, Remaining
  <2> HIDE DEF p, r
  <2> QED BY <1>4, <1>5, <1>6, <2>1, NatAssumption DEF Least
<1> HIDE DEF p, r
<1>8. /\ a \in Attempts /\ a.dir = "begun" /\ a.effect = Attempt.effect
      /\ a.bound = Attempt.bound /\ a.rest = r /\ a.prior = p /\ a.spawns = 2
      /\ a.work = Attempt.work /\ a.started = Attempt.started /\ a.restarted = clock
      /\ a.claimed = Attempt.claimed
  BY <1>2, <1>5, <1>6, <1>7 DEF Attempts
<1>9. /\ Current' = Current /\ Attempt' = a /\ DOMAIN attempts' = DOMAIN attempts
      /\ \A i \in DOMAIN attempts : i # Current => attempts'[i] = attempts[i]
      /\ Past(Works)' = Past(Works) /\ Past(Charges)' = Past(Charges)
      /\ Past(Spawned)' = Past(Spawned)
  BY <1>2, <1>3, UpdateKeepsPast DEF IInv
<1> HIDE DEF a
<1>10. /\ TypeOK' /\ caller'.pc = "running" /\ caller'.limits = caller.limits
       /\ host' = "attended"
  BY <1>1, <1>3, <1>8, RunningTypes
<1>11. Documented(a)
  BY <1>5, <1>6, <1>7, <1>8 DEF Documented
<1>12. (\A i \in DOMAIN attempts : Documented(attempts[i]))'
  <2>1. ASSUME NEW i \in DOMAIN attempts PROVE Documented(attempts'[i])
    <3>1. attempts'[Current] = a
      BY <1>9 DEF Attempt
    <3> QED BY <1>9, <1>11, <3>1 DEF IInv
  <2> QED BY <1>3, <1>9, <2>1 DEF Documented
<1>13. Attended'
  BY <1>2, <1>3, <1>5, <1>7, <1>8, <1>9, <1>10
  DEF Attended, At, Executing, IInv, Since, AtMost
<1>14. Budgeted' /\ Untouched'
  BY <1>2, <1>3, <1>8, <1>9, <1>10 DEF IInv, Budgeted, Untouched
<1>15. CallsWithinBudget'
  <2>1. Total(Spawned)' = Total(Past(Spawned)) + 2
    BY <1>2, <1>8, <1>9, <1>10, SpawnedPrimed
  <2> QED BY <1>3, <1>4, <1>5, <2>1 DEF CallsWithinBudget, Spawned
<1>16. /\ Total(Past(Works))' = Total(Past(Works))
       /\ Total(Past(Charges))' = Total(Past(Charges))
  BY <1>9
<1>17. Total(Past(Works)) + Attempt.bound <= caller.limits.compute
  BY <1>2, <1>4, <1>5 DEF IInv, Fits
<1>18. Fits'
  BY <1>8, <1>9, <1>10, <1>16, <1>17 DEF Fits
<1>19. Reckoned'
  <2>1. \/ p + r = Attempt.bound
        \/ Total(Past(Works)) + Attempt.bound <= Total(Past(Charges)) + p + r
    BY <1>4, <1>5, <1>6, <1>7, <1>17
  <2> QED BY <1>2, <1>3, <1>8, <1>9, <1>16, <2>1 DEF IInv, Reckoned
<1> QED BY <1>10, <1>12, <1>13, <1>14, <1>15, <1>18, <1>19 DEF IInv

-----------------------------------------------------------------------------
(***************************************************************************)
(* What a result leads to, and the clock.                                  *)
(***************************************************************************)
\* After a result there is a new Attempt, or the loop waits, or it has ended.
LEMMA SettlePreserves == ASSUME IInv, Settle PROVE IInv'
<1>1. /\ At("settle") /\ ~At("idle") /\ ~At("running") /\ Current > 0
      /\ UNCHANGED <<plan, budget, host, clock>> /\ goal \in Nat
  BY DEF Settle, At, IInv, Attended, TypeOK
<1>2. ASSUME NEW g \in Nat, attempts' = Append(attempts, Committed(g)), Leave, Readable,
             UNCHANGED execution, goal' \in Nat
      PROVE  IInv'
  <2>1. host = "none"
    BY <1>2, <1>1 DEF Readable, IInv, Attended, TypeOK
  <2>2. caller' = Idle
    BY <1>2 DEF Leave
  <2>3. Committed(g) \in Attempts
    BY <1>2 DEF Committed, Attempts, Answers
  <2>4. attempts' \in Seq(Attempts)
    BY <1>2, <2>3 DEF IInv, TypeOK
  <2>5. TypeOK'
    BY <1>1, <1>2, <2>2, <2>4, CallerTypes DEF IInv, TypeOK
  <2> QED BY <1>1, <1>2, <2>1, <2>2, <2>5, AppendStep
<1>3. ASSUME Readable, Advance PROVE IInv'
  <2>1. CASE goal < Len(plan.goals)
    <3>1. /\ goal' = goal + 1 /\ attempts' = Append(attempts, Committed(goal + 1))
          /\ UNCHANGED execution /\ Leave
      BY <1>3, <2>1 DEF Advance
    <3>2. goal + 1 \in Nat /\ goal' \in Nat
      BY <1>1, <3>1
    <3> QED BY <1>2, <1>3, <3>1, <3>2
  <2>2. CASE ~(goal < Len(plan.goals))
    <3>1. /\ execution' = [state |-> "TERMINAL", wait |-> "NONE"] /\ UNCHANGED <<goal, attempts>>
          /\ Leave
      BY <1>3, <2>2 DEF Advance
    <3> QED BY <1>1, <3>1, LeavePreserves
  <2> QED BY <2>1, <2>2
<1>4. ASSUME Readable, Repair PROVE IInv'
  <2>1. CASE Repairs < MaxRepairs /\ Current < budget.calls
    <3>1. /\ attempts' = Append(attempts, Committed(goal)) /\ goal' = goal
          /\ UNCHANGED execution /\ Leave
      BY <1>4, <2>1 DEF Repair
    <3> QED BY <1>1, <1>2, <1>4, <3>1
  <2>2. CASE ~(Repairs < MaxRepairs /\ Current < budget.calls)
    <3>1. UNCHANGED attempts /\ WaitFor("REPAIR", "repair") /\ goal' = goal
      BY <1>4, <2>2 DEF Repair
    <3> QED BY <1>1, <3>1, WaitForPreserves
  <2> QED BY <2>1, <2>2
<1>5. ASSUME Block PROVE IInv'
  <2>1. UNCHANGED <<goal, attempts>> /\ Attempt.answer \in {"host", "exhausted", "wait"}
    BY <1>5 DEF Block
  <2>2. CASE Attempt.answer # "wait" /\ WaitFor("BUDGET", "blocked")
    <3>1. ~(Current = 1 /\ Attempt.dir = "none" /\ ~Attempt.torn /\ plan.budget.calls > 0)
      BY <2>1, <2>2 DEF IInv, Untouched
    <3> QED BY <1>1, <2>1, <2>2, <3>1, WaitForPreserves
  <2>3. CASE WaitFor("BLOCKED", "blocked")
    BY <1>1, <2>1, <2>3, WaitForPreserves
  <2> QED BY <1>5, <2>2, <2>3 DEF Block
<1>6. CASE Leave /\ UNCHANGED <<execution, goal, labels, attempts>>
  BY <1>1, <1>6, LeavePreserves
<1> QED BY <1>3, <1>4, <1>5, <1>6 DEF Settle

\* As time passes more is charged, and no more than that is worked.
LEMMA TickPreserves == ASSUME IInv, Tick PROVE IInv'
<1>1. /\ UNCHANGED <<plan, budget, execution, goal, caller, host>>
      /\ clock' = clock + 1 /\ clock \in Nat
      /\ At("running") => clock - Since < AtMost
  BY DEF Tick, IInv, TypeOK
<1>2. Current \in Nat /\ DOMAIN attempts = 1..Current /\ attempts \in Seq(Attempts)
  BY CurrentAttempt DEF IInv, TypeOK
<1>3. /\ attempts' \in Seq(Attempts) /\ DOMAIN attempts' = 1..Current /\ Current' = Current
      /\ \A i \in 1..Current : i # Current \/ host = "none" => attempts'[i] = attempts[i]
      /\ host # "none" => attempts'[Current] = [Attempt EXCEPT !.work = @ + 1]
  <2>1. CASE host = "none"
    <3>1. UNCHANGED attempts
      BY <2>1 DEF Tick
    <3> QED BY <1>2, <2>1, <3>1 DEF Current
  <2>2. CASE host # "none"
    <3>1. Current \in 1..Current /\ Attempt \in Attempts
      BY <1>2, <2>2, CurrentAttempt DEF IInv, Attended
    <3> DEFINE w == [Attempt EXCEPT !.work = @ + 1]
    <3>2. w \in Attempts
      BY <3>1 DEF Attempts
    <3>3. attempts' = [attempts EXCEPT ![Current] = w]
      BY <2>2 DEF Tick, Update
    <3> HIDE DEF w
    <3>4. /\ attempts' \in Seq(Attempts) /\ Len(attempts') = Len(attempts)
          /\ DOMAIN attempts' = DOMAIN attempts /\ attempts'[Current] = w
          /\ \A i \in 1..Current : i # Current => attempts'[i] = attempts[i]
      BY <1>2, <3>1, <3>2, <3>3
    <3> QED BY <1>2, <2>2, <3>4 DEF Current, w
  <2> QED BY <2>1, <2>2
<1>4. ASSUME NEW i \in 1..Current
      PROVE  /\ attempts[i] \in Attempts /\ Documented(attempts[i])
             /\ attempts'[i] \in Attempts
             /\ \A f \in {"dir", "bound", "rest", "prior", "restarted", "started", "elapsed",
                          "spawns", "claimed", "torn", "effect", "answer"} :
                  attempts'[i][f] = attempts[i][f]
             /\ i # Current => attempts'[i] = attempts[i]
             /\ attempts'[i].work # attempts[i].work =>
                  attempts[i].dir = "begun" /\ attempts'[i].work = attempts[i].work + 1
  <2>1. attempts[i] \in Attempts /\ Documented(attempts[i]) /\ attempts'[i] \in Attempts
    BY <1>2, <1>3 DEF IInv
  <2>2. CASE i # Current \/ host = "none"
    BY <1>3, <2>1, <2>2
  <2>3. CASE i = Current /\ host # "none"
    <3>1. attempts'[i] = [attempts[i] EXCEPT !.work = @ + 1] /\ attempts[i].dir = "begun"
      BY <1>3, <2>3 DEF Attempt, IInv, Attended
    <3> QED BY <2>1, <2>3, <3>1 DEF Attempts
  <2> QED BY <2>1, <2>2, <2>3
<1>5. TypeOK'
  BY <1>1, <1>3, CallerTypes DEF IInv, TypeOK, Callers, Idle
<1>6. ASSUME NEW i \in 1..Current
      PROVE  Documented(attempts[i])' /\ Compute(attempts[i]) <= Compute(attempts[i])'
             /\ Compute(attempts[i]) \in Nat /\ Compute(attempts[i])' \in Nat
  <2> DEFINE a == attempts[i]
             b == attempts'[i]
  <2>1. /\ a \in Attempts /\ b \in Attempts /\ Documented(a)
        /\ b.dir = a.dir /\ b.bound = a.bound /\ b.rest = a.rest /\ b.prior = a.prior
        /\ b.restarted = a.restarted /\ b.started = a.started /\ b.elapsed = a.elapsed
        /\ b.spawns = a.spawns /\ b.claimed = a.claimed
        /\ b.work = a.work \/ (a.dir = "begun" /\ b.work = a.work + 1)
    BY <1>4
  <2>2. /\ a.started \in Nat /\ a.bound \in Nat /\ a.prior \in Nat /\ a.restarted \in Nat
        /\ a.rest \in Nat /\ a.elapsed \in Nat /\ a.work \in Nat
        /\ a.dir \in {"none", "begun", "sealed", "failed"}
    BY <2>1 DEF Attempts
  <2> HIDE DEF a, b
  <2>3. /\ b.dir = "none" => b.spawns = 0 /\ b.work = 0 /\ b.bound = 0 /\ b.rest = 0
        /\ b.dir # "none" => b.claimed /\ b.spawns = (IF b.rest > 0 THEN 2 ELSE 1)
        /\ b.bound <= Timeout /\ b.started <= clock'
        /\ b.rest = 0 => b.prior = 0
        /\ b.rest > 0 =>
             /\ b.restarted <= clock' /\ b.restarted = b.started + b.prior
             /\ b.prior + b.rest <= b.bound
        /\ b.dir \in {"begun", "failed"} => b.work <= clock' - b.started
        /\ b.dir = "sealed" => b.work <= b.prior + b.elapsed
    BY <1>1, <2>1, <2>2 DEF Documented
  <2>4. Documented(attempts[i])'
    BY <2>3, Zenon DEF Documented, b
  <2>5. Compute(a) \in Nat
    BY <2>1, ComputeType DEF IInv
  <2>6. CASE a.dir \in {"none", "sealed"}
    <3>1. Compute(attempts[i])' = Compute(a)
      BY <2>1, <2>6 DEF Compute, b
    <3> QED BY <2>4, <2>5, <3>1 DEF a
  <2>7. CASE a.dir \in {"begun", "failed"} /\ a.rest = 0
    <3>1. /\ b.dir # "none" /\ b.dir # "sealed" /\ b.dir \in {"begun", "failed"}
          /\ b.rest = 0 /\ ~(b.rest > 0)
      BY <2>1, <2>2, <2>7
    <3>2. Compute(attempts[i])' = Least(b.bound, clock' - b.started)
      BY <3>1, Zenon DEF Compute, Spent, b
    <3>3. Compute(a) = Least(a.bound, clock - a.started)
      BY <2>7 DEF Compute, Spent
    <3>4. /\ Least(a.bound, clock - a.started) <= Least(a.bound, clock' - a.started)
          /\ Least(a.bound, clock' - a.started) \in Nat
      BY <1>1, <2>1, <2>2 DEF Least, Documented
    <3>5. Compute(attempts[i])' = Least(a.bound, clock' - a.started)
      BY <2>1, <3>2
    <3> QED BY <2>4, <2>5, <3>3, <3>4, <3>5 DEF a
  <2>8. CASE a.dir \in {"begun", "failed"} /\ a.rest > 0
    <3>1. /\ b.dir # "none" /\ b.dir # "sealed" /\ b.dir \in {"begun", "failed"}
          /\ b.rest > 0 /\ b.rest # 0
      BY <2>1, <2>2, <2>8
    <3>2. Compute(attempts[i])' = b.prior + Least(b.rest, clock' - b.restarted)
      BY <3>1, Zenon DEF Compute, Spent, b
    <3>3. Compute(a) = a.prior + Least(a.rest, clock - a.restarted)
      BY <2>2, <2>8 DEF Compute, Spent
    <3>4. /\ Least(a.rest, clock - a.restarted) <= Least(a.rest, clock' - a.restarted)
          /\ Least(a.rest, clock' - a.restarted) \in Nat
          /\ Least(a.rest, clock - a.restarted) \in Nat
      BY <1>1, <2>1, <2>2, <2>8 DEF Least, Documented
    <3>5. Compute(attempts[i])' = a.prior + Least(a.rest, clock' - a.restarted)
      BY <2>1, <3>2
    <3> QED BY <2>2, <2>4, <2>5, <3>3, <3>4, <3>5 DEF a
  <2> QED BY <2>2, <2>6, <2>7, <2>8
<1>7. (\A i \in DOMAIN attempts : Documented(attempts[i]))'
  BY <1>3, <1>6
<1>8. Current > 0 =>
        /\ Attempt'.dir = Attempt.dir /\ Attempt'.effect = Attempt.effect
        /\ Attempt'.answer = Attempt.answer /\ Attempt'.claimed = Attempt.claimed
        /\ Attempt'.bound = Attempt.bound /\ Attempt'.rest = Attempt.rest
        /\ Attempt'.prior = Attempt.prior /\ Attempt'.started = Attempt.started
        /\ Attempt'.restarted = Attempt.restarted /\ Attempt'.spawns = Attempt.spawns
        /\ Attempt'.torn = Attempt.torn
  <2> SUFFICES ASSUME Current > 0 PROVE Current \in 1..Current
    BY <1>3, <1>4 DEF Attempt
  <2> QED BY <1>2
<1>9. Attended'
  <2>1. Current > 0 => Since' = Since /\ AtMost' = AtMost
    BY <1>8 DEF Since, AtMost
  <2>2. host = "attended" => (clock + 1) - Since <= AtMost
    <3>1. host = "attended" => /\ Attempt.started \in Nat /\ Attempt.restarted \in Nat
                               /\ Attempt.bound \in Nat /\ Attempt.rest \in Nat
      BY CurrentAttempt DEF IInv, Attended, Attempts
    <3> QED BY <1>1, <3>1 DEF IInv, Attended, Since, AtMost
  <2>3. host = "attended" => clock' - Since' <= AtMost'
    BY <1>1, <2>1, <2>2 DEF IInv, Attended
  <2>4. At("running")' = At("running") /\ At("idle")' = At("idle")
        /\ At("invoke")' = At("invoke") /\ At("record")' = At("record")
    BY <1>1 DEF At
  <2>5. CASE Current = 0
    BY <1>1, <1>3, <2>4, <2>5 DEF IInv, Attended, At, Executing
  <2>6. CASE Current > 0
    BY <1>1, <1>3, <1>8, <2>3, <2>4, <2>6 DEF IInv, Attended
  <2> QED BY <1>2, <2>5, <2>6
<1>10. Budgeted' /\ Untouched'
  <2>1. Current = 1 => Current > 0
    OBVIOUS
  <2> QED BY <1>1, <1>3, <1>8, <2>1 DEF IInv, Budgeted, Untouched
<1>11. Spawned' = Spawned
  BY <1>2, <1>3, <1>4 DEF Spawned
<1>12. CallsWithinBudget'
  BY <1>1, <1>11 DEF IInv, CallsWithinBudget, Spawned
<1>13. Past(Works)' = Past(Works)
  <2>1. \A i \in 1..(Current - 1) : i \in 1..Current /\ attempts'[i] = attempts[i]
    BY <1>2, <1>4
  <2>2. \A i \in 1..(Current - 1) : Works'[i] = Works[i]
    BY <1>2, <1>3, <2>1 DEF Works
  <2> QED BY <1>3, <2>2 DEF Past
<1>14. Current > 0 => Total(Past(Charges)) <= Total(Past(Charges))'
                      /\ Total(Past(Charges)) \in Nat /\ Total(Past(Charges))' \in Nat
  <2> SUFFICES ASSUME Current > 0 PROVE /\ Total(Past(Charges)) <= Total(Past(Charges))'
                                        /\ Total(Past(Charges)) \in Nat
                                        /\ Total(Past(Charges))' \in Nat
    OBVIOUS
  <2>1. PICK n \in Nat : Current = n + 1
    BY <1>2
  <2>2. /\ Past(Charges) = [i \in 1..n |-> Charges[i]]
        /\ Past(Charges)' = [i \in 1..n |-> Charges'[i]]
    <3>1. (n + 1) - 1 = n
      OBVIOUS
    <3> QED BY <1>3, <2>1, <3>1 DEF Past
  <2>3. \A i \in 1..n : /\ Charges[i] \in Nat /\ Charges'[i] \in Nat
                        /\ Charges[i] <= Charges'[i]
    BY <1>2, <1>3, <1>6, <2>1 DEF Charges
  <2>4. /\ Past(Charges) \in [1..n -> Nat] /\ Past(Charges)' \in [1..n -> Nat]
        /\ \A i \in 1..n : Past(Charges)[i] <= Past(Charges)'[i]
    BY <2>2, <2>3
  <2>5. /\ Total(Past(Charges)) <= Total(Past(Charges)')
        /\ Total(Past(Charges)) \in Nat /\ Total(Past(Charges)') \in Nat
    BY <2>4, TotalMono, UnitsFinite
  <2>6. Total(Past(Charges))' = Total(Past(Charges)')
    OBVIOUS
  <2> QED BY <2>5, <2>6
<1>15. Reckoned'
  <2> SUFFICES ASSUME Current > 0 PROVE Reckoned'
    BY <1>3 DEF Reckoned
  <2>1. /\ Attempt.bound \in Nat /\ Attempt.prior \in Nat /\ Attempt.rest \in Nat
        /\ Total(Past(Works)) \in Nat
    BY CurrentAttempt, Sums DEF IInv, Attempts
  <2>2. Total(Past(Works))' = Total(Past(Works))
    BY <1>13
  <2>3. /\ Total(Past(Works)) <= Total(Past(Charges))'
        /\ Attempt.rest > 0 =>
             \/ Attempt.prior + Attempt.rest = Attempt.bound
             \/ Total(Past(Works)) + Attempt.bound
                  <= Total(Past(Charges))' + Attempt.prior + Attempt.rest
    BY <1>14, <2>1 DEF IInv, Reckoned
  <2> QED BY <1>1, <1>3, <1>8, <2>2, <2>3 DEF IInv, Reckoned
<1>16. Fits'
  <2>1. Total(Past(Works))' = Total(Past(Works))
    BY <1>13
  <2>2. ~At("idle") => Current > 0
    BY DEF IInv, Attended
  <2> QED BY <1>1, <1>3, <1>8, <2>1, <2>2 DEF IInv, Fits, At
<1> QED BY <1>5, <1>7, <1>9, <1>10, <1>12, <1>15, <1>16 DEF IInv

LEMMA InitSatisfies == ASSUME Init PROVE IInv
<1>1. Current = 0 /\ DOMAIN attempts = {} /\ caller = Idle /\ host = "none"
      /\ budget = plan.budget /\ plan \in [goals : Plans, budget : Budgets]
      /\ execution.state = "ABSENT" /\ clock = 0
  BY DEF Init, Current
<1>2. Idle \in Callers /\ plan.budget \in Budgets
  BY <1>1 DEF Idle, Callers, Answers
<1>3. plan.budget.calls \in Nat /\ plan.budget.compute \in Nat
  BY <1>2, BudgetsAssumption
<1>4. attempts \in Seq(Attempts)
  BY DEF Init
<1>5. TypeOK
  BY <1>1, <1>2, <1>4 DEF Init, TypeOK
<1>6. Attended
  BY <1>1 DEF Attended, At, Idle, Executing
<1>7. Budgeted /\ Untouched /\ Reckoned /\ Fits
  BY <1>1, <1>3 DEF Budgeted, Untouched, Reckoned, Fits, Less, Idle, At
<1>8. CallsWithinBudget
  <2>1. Total([i \in DOMAIN attempts |-> attempts[i].spawns]) = 0
    BY <1>1, TotalEmpty
  <2> QED BY <1>1, <1>3, <2>1 DEF CallsWithinBudget
<1> QED BY <1>1, <1>5, <1>6, <1>7, <1>8 DEF IInv

LEMMA StutterPreserves == ASSUME IInv, UNCHANGED vars PROVE IInv'
<1>1. UNCHANGED <<plan, budget, execution, goal, attempts, caller, host, clock>>
      /\ Current' = Current /\ Attempt' = Attempt
  BY DEF vars, Current, Attempt
<1>2. TypeOK'
  BY <1>1 DEF TypeOK, IInv
<1>3. Attended'
  BY <1>1 DEF Attended, At, IInv, Since, AtMost
<1>4. Budgeted' /\ Untouched' /\ Less(budget, budget')
  BY <1>1, BudgetTypes DEF IInv, Budgeted, Untouched, Less
<1>5. CASE ~At("idle") /\ (At("startup") => Current = 1)
  BY <1>1, <1>2, <1>3, <1>4, <1>5, QuietStep
<1>6. CASE At("idle")
  BY <1>1, <1>2, <1>3, <1>4, <1>6, QuietStep DEF At
<1>7. CASE At("startup") /\ Current # 1
  BY <1>1, <1>2, <1>3, <1>4, <1>7, QuietStep DEF At
<1> QED BY <1>5, <1>6, <1>7

LEMMA StepPreserves == ASSUME IInv, [Next]_vars PROVE IInv'
  BY StartPreserves, StartAgainPreserves, RunPreserves, SatisfyGatePreserves, StartupPreserves,
     SyncPreserves, ExecutePreserves, InvokePreserves, ResumePreserves, RecoverPreserves,
     SeeSessionPreserves, HostAnswersPreserves, HostFailsPreserves, RecordPreserves,
     SettlePreserves, UserControlPreserves, TickPreserves, CrashPreserves,
     OrphanEndsPreserves, StutterPreserves
  DEF Next

-----------------------------------------------------------------------------
\* The invariant that the promises of the budget rest on.
THEOREM WaitsInvariant == Spec => []IInv
  BY InitSatisfies, StepPreserves, PTL DEF Spec

\* Every process that was spawned, by an Attempt, a repair or a resume, was within the
\* budget of the loop, for any plan and budgets.
THEOREM WaitsCalls == Spec => []CallsWithinBudget
<1>1. IInv => CallsWithinBudget
  BY DEF IInv
<1> QED BY <1>1, WaitsInvariant, PTL

\* The Hosts never work longer than the budget allows, all Attempts taken together.
THEOREM WaitsWork == Spec => []WorkWithinBudget
<1>1. IInv => WorkWithinBudget
  <2> SUFFICES ASSUME IInv PROVE WorkWithinBudget
    OBVIOUS
  <2>1. CASE Current > 0
    BY <2>1, AllCovered DEF WorkWithinBudget, Works
  <2>2. CASE ~(Current > 0)
    <3>1. DOMAIN attempts = {}
      BY <2>2, CurrentAttempt DEF IInv
    <3>2. Total([i \in DOMAIN attempts |-> Least(attempts[i].work, attempts[i].bound)]) = 0
      BY <3>1, TotalEmpty
    <3> QED BY <3>2, BudgetTypes DEF IInv, WorkWithinBudget
  <2> QED BY <2>1, <2>2
<1> QED BY <1>1, WaitsInvariant, PTL

\* A Host process that is attended to ends within the bound of its Attempt as it was first
\* started, whoever resumed it.
THEOREM WaitsDeadline == Spec => []DeadlineKept
<1>1. IInv => DeadlineKept
  <2> SUFFICES ASSUME IInv, host = "attended" PROVE clock <= Attempt.started + Attempt.bound
    BY DEF DeadlineKept
  <2>1. Current > 0 /\ clock - Since <= AtMost /\ clock \in Nat
    BY DEF IInv, Attended, TypeOK
  <2>2. Attempt \in Attempts /\ Documented(Attempt)
    BY <2>1, CurrentAttempt DEF IInv, Attempt
  <2> QED BY <2>1, <2>2 DEF Documented, Attempts, Since, AtMost
<1> QED BY <1>1, WaitsInvariant, PTL

\* The variables keep their types.
THEOREM WaitsTyped == Spec => []TypeOK
<1>1. IInv => TypeOK
  BY DEF IInv
<1> QED BY <1>1, WaitsInvariant, PTL
=============================================================================
