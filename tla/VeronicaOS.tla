----------------------------- MODULE VeronicaOS -----------------------------
(***************************************************************************)
(* VeronicaOS: the pipeline around one execution step.  before_step plans  *)
(* and arbitrates a cost ceiling, the application spends under it, and     *)
(* after_step accounts for the cost, commits a record and settles.         *)
(*                                                                         *)
(* Several processes, each with a VeronicaOS of its own, run the steps;    *)
(* the steps of one process may be on different threads, so every lock     *)
(* region and every call to the store or to Redis is one action.  With the *)
(* "redis" arbiter the processes share the budget of RedisArbiter.         *)
(*                                                                         *)
(* Amounts are integers: a dollar is Dollar of them.                       *)
(***************************************************************************)
EXTENDS Sums, LocalArbiters, FiniteSets

CONSTANTS
  NProcs, NChains, NSteps,   \* processes, chains and steps, numbered from 1
  ProcOf, ChainOf,           \* the process and the chain of a step
  KeyOf, NKeys,              \* the (request_id, step_id) of a step, as a number
  Budget,                    \* request_budget_usd of every process
  Dollar,                    \* the 1.0 of the default ceilings
  BaseCeiling, MaxCeiling, MinCeiling,   \* of SimplePlanner
  Arbiter,                   \* "passthrough", "proportional" or "redis"
  Denied,                    \* steps whose model or tool the org blocks
  OrgCeiling, OrgPriority,   \* max_ceiling_usd, max_priority
  Threads,                   \* bound: steps of a process at a time
  Recommendations,           \* what the analyzer may recommend
  MayTimeOut,                \* stages whose time budget may be exceeded
  MayFail,                   \* other operations that may fail
  MaxCalls,                  \* bound: wrapped calls per step
  Overshoot,                 \* how far past its ceiling a last call may go
  MaxCrashes,                \* bound: crashes and restarts
  SharedUsd, Faults, MaxLate, NonFinite, NoKey, NoAlloc, NoGrant   \* RedisArbiter

Procs == 1..NProcs
Chains == 1..NChains
Steps == 1..NSteps
PlannerPriority == 50

ASSUME VeronicaAssumption ==
  /\ {NProcs, NChains, NSteps, NKeys, Threads, MaxCalls, Overshoot, MaxCrashes} \subseteq Nat
  /\ ProcOf \in [Steps -> Procs] /\ ChainOf \in [Steps -> Chains]
  /\ KeyOf \in [Steps -> 1..NKeys]
  /\ Budget \in Nat /\ Dollar \in Nat
  /\ {BaseCeiling, MaxCeiling, MinCeiling, MinAllocation, OrgCeiling, OrgPriority} \subseteq Int
  /\ MinCeiling <= MaxCeiling
  /\ Arbiter \in {"passthrough", "proportional", "redis"}
  /\ Denied \subseteq Steps
  /\ Recommendations \subseteq {"tighten", "loosen", "continue"}
  /\ MayTimeOut \subseteq {"planner", "arbiter", "collector"}
  /\ MayFail \subseteq {"snapshot", "history", "commit"}

VARIABLES
  totalSpent,   \* _total_spent_usd of each process
  chainSpent,   \* _chain_spent_usd
  effective,    \* _effective_ceiling of its planner
  advice,       \* the recommendation in _last_analysis
  context,      \* the step whose budget context the store holds, or 0
  record,       \* steps with a committed record; the store survives a crash
  pc,           \* where a step stands
  seen,         \* the recommendation it read before planning
  ceiling,      \* ceiling_usd of its policy
  calls, paid,  \* what the application called and paid for it
  last,         \* the cost of the last call
  cost,         \* outcome.cost_usd
  crashes,
  remaining, alloc, grant, late, settles, spent, lapsed, cold   \* RedisArbiter

osState == <<totalSpent, chainSpent, effective, advice>>
store == <<context, record>>
stepState == <<pc, seen, ceiling, calls, paid, last, cost>>
redisVars == <<remaining, alloc, grant, late, settles, spent, lapsed, cold>>
vars == <<osState, store, stepState, crashes, redisVars>>

Redis == INSTANCE RedisArbiter
  WITH TotalUsd <- SharedUsd, Grain <- 1, Desires <- [ceiling : Int, priority : Int],
       Budgets <- Int, Costs <- Nat, MaxSettles <- NSteps, Retries <- 1..NKeys

ASSUME SharedAssumption ==
  /\ SharedUsd \in Nat /\ MaxLate \in Nat /\ Faults \in BOOLEAN
  /\ NoKey \notin Int /\ NoAlloc \notin Int /\ NoGrant \notin Redis!Grants

Advice == {"none", "tighten", "loosen", "continue"}

\* Stages of a step, in order, and the ways it can end.
Ended == {"done", "rejected", "dropped", "failed", "gone"}
Stages == {"idle", "seen", "running", "collected", "accounted", "ready", "committed"}
            \cup Ended

Init ==
  /\ totalSpent = [p \in Procs |-> 0]
  /\ chainSpent = [p \in Procs |-> [c \in Chains |-> 0]]
  /\ effective = [p \in Procs |-> BaseCeiling]
  /\ advice = [p \in Procs |-> "none"]
  /\ context = [p \in Procs |-> 0]
  /\ record = {}
  /\ pc = [s \in Steps |-> "idle"]
  /\ seen = [s \in Steps |-> "none"]
  /\ ceiling = [s \in Steps |-> 0]
  /\ calls = [s \in Steps |-> 0]
  /\ paid = [s \in Steps |-> 0]
  /\ last = [s \in Steps |-> 0]
  /\ cost = [s \in Steps |-> 0]
  /\ crashes = 0
  /\ Redis!Init

InFlight(p) == {s \in Steps : ProcOf[s] = p /\ pc[s] \notin {"idle"} \cup Ended}

\* Step s moves from one stage to the next.
Advance(s, from, to) == pc[s] = from /\ pc' = [pc EXCEPT ![s] = to]

-----------------------------------------------------------------------------
(* before_step *)

CanBegin(s) == Cardinality(InFlight(ProcOf[s])) < Threads

\* The org policy denies the step: a handle with a zero ceiling, no pipeline.
Deny(s) ==
  /\ s \in Denied
  /\ CanBegin(s)
  /\ Advance(s, "idle", "running")
  /\ ceiling' = [ceiling EXCEPT ![s] = 0]
  /\ UNCHANGED <<osState, store, seen, calls, paid, last, cost, crashes, redisVars>>

\* History, and the snapshot of _last_analysis that the planner is to use.
ReadAnalysis(s) ==
  /\ s \notin Denied
  /\ CanBegin(s)
  /\ Advance(s, "idle", "seen")
  /\ seen' = [seen EXCEPT ![s] = advice[ProcOf[s]]]
  /\ UNCHANGED <<osState, store, ceiling, calls, paid, last, cost, crashes, redisVars>>

Lower(a, b) == IF a < b THEN a ELSE b
Higher(a, b) == IF a < b THEN b ELSE a

\* c * num / den on the grid of amounts, rounded either way.
Scaled(c, num, den) == {(c * num) \div den, -((-(c * num)) \div den)}

\* The factor the recommendation applies to the effective ceiling.
Drift(c, recommendation) ==
  CASE recommendation = "tighten" -> Scaled(c, 9, 10)
    [] recommendation = "loosen" -> Scaled(c, 21, 20)
    [] OTHER -> {c}

\* SimplePlanner.plan: every clamp is part of the stored effective ceiling.
Clamped(c, chainRemaining) ==
  Lower(Higher(MinCeiling, Lower(MaxCeiling, c)), chainRemaining)

\* The desire that stands after the planner: its own, or the fallback if it
\* took too long (its effective ceiling has drifted all the same).
Planned(plan, budget) ==
  {plan} \cup (IF "planner" \in MayTimeOut THEN {Lower(Dollar, budget)} ELSE {})

\* Mutant: only the priority is clamped.
OrgClampPriorityOnly(c) == [ceiling |-> c, priority |-> Lower(PlannerPriority, OrgPriority)]

\* OrgPolicy.clamp
OrgClamp(c) == [ceiling |-> Lower(c, OrgCeiling),
                priority |-> Lower(PlannerPriority, OrgPriority)]

\* The policy of an arbiter that answered nothing for the chain.
DefaultCeiling == Dollar

\* What an arbiter without shared state answers.
LocalCeiling(desired, budget) ==
  IF Arbiter = "passthrough" THEN PassthroughCeiling(desired, budget)
  ELSE IF ProportionalGrants(desired) THEN ProportionalCeiling(desired, budget)
  ELSE DefaultCeiling

\* What the arbiter answers, as the ceiling of the step's policy.
Arbitrated(s, desired, budget) ==
  \/ /\ Arbiter # "redis"
     /\ ceiling' = [ceiling EXCEPT ![s] = LocalCeiling(desired, budget)]
     /\ UNCHANGED redisVars
  \/ /\ Arbiter = "redis"
     /\ \/ Redis!Arbitrate(KeyOf[s], desired)
        \/ Redis!ArbitrateFails(KeyOf[s], desired, budget)
     /\ ceiling' = [ceiling EXCEPT ![s] =
          IF grant'[KeyOf[s]].by = "none" THEN DefaultCeiling ELSE grant'[KeyOf[s]].ceiling]

\* The arbiter took too long: it has done its work, its answer is dropped.
ArbiterTooLate(s, desired, budget) ==
  /\ "arbiter" \in MayTimeOut
  /\ ceiling' = [ceiling EXCEPT ![s] = desired.ceiling]
  /\ IF Arbiter = "redis"
       THEN \/ Redis!Arbitrate(KeyOf[s], desired)
            \/ Redis!ArbitrateFails(KeyOf[s], desired, budget)
       ELSE UNCHANGED redisVars

\* The locked region: read the budget, plan, clamp, arbitrate.  The policy is
\* then turned into an ExecutionConfig, which refuses a negative ceiling, in
\* step() but outside its try.
PlanAndArbitrate(s) ==
  LET p == ProcOf[s]
      budget == Budget - totalSpent[p]
      chainRemaining == Budget - chainSpent[p][ChainOf[s]]
  IN  /\ pc[s] = "seen"
      /\ \E c \in Drift(effective[p], seen[s]) :
           LET plan == Clamped(c, chainRemaining) IN
           /\ effective' = [effective EXCEPT ![p] = plan]
           /\ \E want \in Planned(plan, budget) :
                \/ Arbitrated(s, OrgClamp(want), budget)
                \/ ArbiterTooLate(s, OrgClamp(want), budget)
      /\ pc' = [pc EXCEPT ![s] = IF ceiling'[s] < 0 THEN "rejected" ELSE "running"]
      /\ UNCHANGED <<totalSpent, chainSpent, advice, store, seen, calls, paid, last,
                     cost, crashes>>

-----------------------------------------------------------------------------
(* The body of the step, and after_step *)

\* One wrapped call.  veronica-core starts none once a step has reached its
\* ceiling, and so none at all for a step that was denied; the price of a call
\* is known when it returns.
Call(s, price) ==
  /\ pc[s] = "running"
  /\ paid[s] < ceiling[s]
  /\ calls[s] < MaxCalls
  /\ paid[s] + price <= ceiling[s] + Overshoot
  /\ calls' = [calls EXCEPT ![s] = @ + 1]
  /\ paid' = [paid EXCEPT ![s] = @ + price]
  /\ last' = [last EXCEPT ![s] = price]
  /\ UNCHANGED <<osState, store, pc, seen, ceiling, cost, crashes, redisVars>>

\* SimpleCollector: the cost of the last node of the snapshot.  A snapshot
\* that cannot be taken is replaced by an empty one.
Collect(s) ==
  /\ Advance(s, "running", "collected")
  /\ \E seenCost \in {last[s]} \cup (IF "snapshot" \in MayFail THEN {0} ELSE {}) :
       cost' = [cost EXCEPT ![s] = seenCost]
  /\ UNCHANGED <<osState, store, seen, ceiling, calls, paid, last, crashes, redisVars>>

\* Mutant: the reservation of a step that is dropped is given back.
CollectTooLateRefunds(s) ==
  /\ "collector" \in MayTimeOut
  /\ Advance(s, "running", "dropped")
  /\ IF Arbiter = "redis" THEN Redis!Settle(KeyOf[s], 0) ELSE UNCHANGED redisVars
  /\ UNCHANGED <<osState, store, seen, ceiling, calls, paid, last, cost, crashes>>

\* The collector took too long: after_step returns.
CollectTooLate(s) ==
  /\ "collector" \in MayTimeOut
  /\ Advance(s, "running", "dropped")
  /\ UNCHANGED <<osState, store, seen, ceiling, calls, paid, last, cost, crashes,
                 redisVars>>

\* build_history or the analyzer raises: the exception leaves after_step, and
\* what the step paid is never counted.
AnalysisFails(s) ==
  /\ "history" \in MayFail
  /\ Advance(s, "collected", "dropped")
  /\ UNCHANGED <<osState, store, seen, ceiling, calls, paid, last, cost, crashes,
                 redisVars>>

\* Mutant: the total becomes the cost of the step that ends last.
AccountReplaces(s, recommendation) ==
  LET p == ProcOf[s] IN
  /\ Advance(s, "collected", "accounted")
  /\ advice' = [advice EXCEPT ![p] = recommendation]
  /\ totalSpent' = [totalSpent EXCEPT ![p] = cost[s]]
  /\ chainSpent' = [chainSpent EXCEPT ![p][ChainOf[s]] = @ + cost[s]]
  /\ UNCHANGED <<effective, store, seen, ceiling, calls, paid, last, cost, crashes,
                 redisVars>>

\* The analysis and the spend, under one lock acquisition.
Account(s, recommendation) ==
  LET p == ProcOf[s] IN
  /\ Advance(s, "collected", "accounted")
  /\ advice' = [advice EXCEPT ![p] = recommendation]
  /\ totalSpent' = [totalSpent EXCEPT ![p] = @ + cost[s]]
  /\ chainSpent' = [chainSpent EXCEPT ![p][ChainOf[s]] = @ + cost[s]]
  /\ UNCHANGED <<effective, store, seen, ceiling, calls, paid, last, cost, crashes,
                 redisVars>>

\* store.set_budget_context, after the lock is released.
SetBudgetContext(s) ==
  /\ Advance(s, "accounted", "ready")
  /\ context' = [context EXCEPT ![ProcOf[s]] = s]
  /\ UNCHANGED <<osState, record, seen, ceiling, calls, paid, last, cost, crashes,
                 redisVars>>

\* store.commit consumes whatever budget context the store holds.
Commit(s) ==
  /\ Advance(s, "ready", "committed")
  /\ record' = record \cup {s}
  /\ context' = [context EXCEPT ![ProcOf[s]] = 0]
  /\ UNCHANGED <<osState, seen, ceiling, calls, paid, last, cost, crashes, redisVars>>

\* Mutant: the step is settled although its commit failed.
CommitFailsSettles(s) ==
  /\ "commit" \in MayFail
  /\ Advance(s, "ready", "failed")
  /\ IF Arbiter = "redis" THEN Redis!Settle(KeyOf[s], cost[s]) ELSE UNCHANGED redisVars
  /\ UNCHANGED <<osState, store, seen, ceiling, calls, paid, last, cost, crashes>>

\* commit raises: the exception leaves after_step, nothing is settled.
CommitFails(s) ==
  /\ "commit" \in MayFail
  /\ Advance(s, "ready", "failed")
  /\ UNCHANGED <<osState, store, seen, ceiling, calls, paid, last, cost, crashes,
                 redisVars>>

\* Mutant: the settlement waits for the record of the reservation.
SettleWaitsForRecord(s) ==
  /\ Advance(s, "committed", "done")
  /\ IF Arbiter = "redis"
       THEN alloc[KeyOf[s]] # NoAlloc /\ Redis!Settle(KeyOf[s], cost[s])
       ELSE UNCHANGED redisVars
  /\ UNCHANGED <<osState, store, seen, ceiling, calls, paid, last, cost, crashes>>

\* Settle, if the arbiter can, and emit step_completed.
SettleAndEmit(s) ==
  /\ Advance(s, "committed", "done")
  /\ \/ Arbiter # "redis" /\ UNCHANGED redisVars
     \/ Arbiter = "redis" /\ \/ Redis!Settle(KeyOf[s], cost[s])
                             \/ Redis!SettleFails(KeyOf[s], cost[s])
  /\ UNCHANGED <<osState, store, seen, ceiling, calls, paid, last, cost, crashes>>

-----------------------------------------------------------------------------
(* The environment *)

\* A process dies and starts again: its memory is new, the store and Redis
\* are as they were, its steps in flight are no more.
Crash(p) ==
  /\ crashes < MaxCrashes
  /\ crashes' = crashes + 1
  /\ totalSpent' = [totalSpent EXCEPT ![p] = 0]
  /\ chainSpent' = [chainSpent EXCEPT ![p] = [c \in Chains |-> 0]]
  /\ effective' = [effective EXCEPT ![p] = BaseCeiling]
  /\ advice' = [advice EXCEPT ![p] = "none"]
  /\ context' = [context EXCEPT ![p] = 0]
  /\ pc' = [s \in Steps |-> IF ProcOf[s] = p /\ pc[s] # "idle" THEN "gone" ELSE pc[s]]
  /\ UNCHANGED <<record, seen, ceiling, calls, paid, last, cost, redisVars>>

\* Redis by itself: an allocation expires, or a delayed script runs.
RedisMoves ==
  /\ \/ \E k \in 1..NKeys : Redis!Expire(k)
     \/ \E m \in late : Redis!RunLate(m)
  /\ UNCHANGED <<osState, store, stepState, crashes>>

StepNext(s) ==
  \/ Deny(s)
  \/ ReadAnalysis(s)
  \/ PlanAndArbitrate(s)
  \/ \E price \in 0..(ceiling[s] + Overshoot) : Call(s, price)
  \/ Collect(s)
  \/ CollectTooLate(s)
  \/ AnalysisFails(s)
  \/ \E r \in Recommendations : Account(s, r)
  \/ SetBudgetContext(s)
  \/ Commit(s)
  \/ CommitFails(s)
  \/ SettleAndEmit(s)

Next ==
  \/ \E s \in Steps : StepNext(s)
  \/ \E p \in Procs : Crash(p)
  \/ RedisMoves

\* A thread that has begun a step goes on with it; the application's calls end.
Fairness == \A s \in Steps : WF_vars(pc[s] # "idle" /\ StepNext(s))

Spec == Init /\ [][Next]_vars
FairSpec == Spec /\ Fairness

-----------------------------------------------------------------------------
(* Properties. *)

SumOver(S, f) == SumTo([s \in Steps |-> IF s \in S THEN f[s] ELSE 0], NSteps)

\* Steps of a process that may spend, or have spent, and are not accounted for.
Outstanding(p) == {s \in Steps : ProcOf[s] = p /\ pc[s] \in {"running", "collected"}}

\* Steps whose cost their process has counted since it last started.
Accounted(p) == {s \in Steps : /\ ProcOf[s] = p
                               /\ pc[s] \in {"accounted", "ready", "committed", "failed",
                                            "done"}}

\* What a process may spend past its budget: the steps that run beside the last
\* one planned, and the last call of each of them all.
Excess == (Threads - 1) * MaxCeiling + Threads * Overshoot

\* What a step has paid, or what it was found to cost once it is collected.
Known(s) == IF pc[s] = "running" THEN paid[s] ELSE cost[s]

(* What the steps of a process have paid, as far as they run or have been  *)
(* collected, exceeds its request budget only by what the threads at its   *)
(* side may spend: no payment that was collected makes room for another    *)
(* one (before_step reads what after_step of other threads has added).     *)
RequestBudgetRespected ==
  \A p \in Procs :
    SumOver(Outstanding(p) \cup Accounted(p), [s \in Steps |-> Known(s)]) <= Budget + Excess

(* Concurrent steps may overrun the budget by the ceilings of all of them  *)
(* but one: the last to begin fits in what remains (PassthroughArbiter).   *)
OverrunBounded ==
  \A p \in Procs :
    totalSpent[p] + SumOver(Outstanding(p), ceiling) <= Budget + Excess

(* No step runs with a ceiling above the one the organisation sets         *)
(* (OrgPolicy.clamp is applied after the planner, before the arbiter).     *)
OrgCapHolds == \A s \in Steps : pc[s] = "running" => ceiling[s] <= OrgCeiling

(* The shared budget is charged only for committed steps, each at most     *)
(* once (after_step settles after store.commit has returned).              *)
ChargedOnceCommitted == spent <= SumOver(record, cost)

(* A reservation is given back only for a committed step of its key or by  *)
(* its time to live: a failed commit, a collector that was too slow or a   *)
(* crash leaves it (after_step).                                           *)
ReleasedWhenCommitted ==
  [][\A k \in 1..NKeys :
       (alloc[k] # NoAlloc /\ alloc'[k] = NoAlloc /\ ~Redis!Expire(k)) =>
         \E s \in record : KeyOf[s] = k]_vars

(* A step that runs comes to an end: committed and emitted, or dropped on  *)
(* the way, and a thread is free again (step(), after_step).               *)
StepCompletes == \A s \in Steps : pc[s] = "running" ~> pc[s] \in Ended

=============================================================================
