-------------------------- MODULE VeronicaOSProofs --------------------------
(***************************************************************************)
(* VeronicaOS for any number of processes, threads, chains and steps, any  *)
(* arbiter and any crashes: a reservation ends by its time to live or for  *)
(* a committed step.  The processes use Redis as RedisArbiter allows, so   *)
(* the shared budget is charged once per committed step.  No step runs     *)
(* above the cap of the organisation.  Under a local arbiter what the      *)
(* steps of a process pay, and what they may still pay, is bounded by its  *)
(* budget and by what its other threads may spend.                         *)
(***************************************************************************)
EXTENDS VeronicaOS, FiniteSetTheorems, TLAPS

-----------------------------------------------------------------------------
(* VeronicaOS uses Redis as RedisArbiter allows, so all that is proved of  *)
(* RedisArbiter holds of the budget that the processes share.              *)

RedisProofs == INSTANCE RedisArbiterProofs
  WITH TotalUsd <- SharedUsd, Grain <- 1, Desires <- [ceiling : Int, priority : Int],
       Budgets <- Int, Costs <- Nat, MaxSettles <- NSteps, Retries <- 1..NKeys

(* The constants that VeronicaOS gives RedisArbiter are as it assumes.     *)
LEMMA RedisAssumed ==
  /\ NKeys \in Nat /\ NSteps \in Nat /\ MaxLate \in Nat
  /\ 1 \in Nat \ {0}
  /\ SharedUsd \in Nat
  /\ MinAllocation \in Int
  /\ [ceiling : Int, priority : Int] \subseteq [ceiling : Int, priority : Int]
  /\ Int \subseteq Int
  /\ Nat \ {NonFinite} \subseteq Nat
  /\ NoKey \notin Int /\ NoAlloc \notin Int
  /\ NoGrant \notin RedisProofs!Grants
  /\ 1..NKeys \subseteq RedisProofs!Keys
  /\ Faults \in BOOLEAN
<1>1. RedisProofs!Grants = Redis!Grants
  BY DEF RedisProofs!Grants, Redis!Grants
<1>2. 1..NKeys \subseteq RedisProofs!Keys
  BY DEF RedisProofs!Keys
<1>3. Faults \in BOOLEAN
  BY SharedAssumption, Zenon
<1>4. /\ NKeys \in Nat /\ NSteps \in Nat /\ MaxLate \in Nat
      /\ 1 \in Nat \ {0}
      /\ SharedUsd \in Nat /\ MinAllocation \in Int
      /\ NoKey \notin Int /\ NoAlloc \notin Int
  BY VeronicaAssumption, SharedAssumption
<1> QED BY <1>1, <1>2, <1>3, <1>4, SharedAssumption, Zenon

(* Both speak of the same sums, so what is proved of them there holds here. *)
LEMMA SameSums == \A f, n : RedisProofs!SumTo(f, n) = SumTo(f, n)
BY Zenon DEF RedisProofs!SumTo, SumTo, RedisProofs!PartialSums, PartialSums

(* A sum of integers is an integer. *)
LEMMA SumIsInt ==
  ASSUME NEW n \in Nat, NEW f \in [1..n -> Int]
  PROVE  SumTo(f, n) \in Int
BY RedisAssumed, SameSums, RedisProofs!SumIsInt

(* Changing one term changes the sum by as much. *)
LEMMA SumUpdate ==
  ASSUME NEW n \in Nat, NEW f \in [1..n -> Int], NEW k \in 1..n, NEW v \in Int
  PROVE  SumTo([f EXCEPT ![k] = v], n) = SumTo(f, n) - f[k] + v
<1> DEFINE g == [f EXCEPT ![k] = v]
<1>1. g \in [1..n -> Int] /\ g[k] = v /\ \A i \in 1..n : i # k => g[i] = f[i]
  OBVIOUS
<1> HIDE DEF g
<1>2. RedisProofs!SumTo(g, n) + f[k] = RedisProofs!SumTo(f, n) + g[k]
  BY <1>1, RedisAssumed, RedisProofs!SumExchange, SMTT(30)
<1>3. SumTo(g, n) + f[k] = SumTo(f, n) + v
  BY <1>1, <1>2, SameSums, Zenon
<1>4. SumTo(g, n) \in Int /\ SumTo(f, n) \in Int /\ f[k] \in Int
  BY <1>1, SumIsInt
<1>5. SumTo(g, n) = SumTo(f, n) - f[k] + v
  BY <1>3, <1>4
<1> QED BY <1>5 DEF g

(* A sum of naturals is a natural that no term exceeds. *)
LEMMA SumBoundsTerm ==
  ASSUME NEW n \in Nat, NEW f \in [1..n -> Nat], NEW k \in 1..n
  PROVE  f[k] <= SumTo(f, n)
BY RedisAssumed, SameSums, RedisProofs!SumBoundsTerm

(* A sum of naturals is a natural. *)
LEMMA SumIsNat ==
  ASSUME NEW n \in Nat, NEW f \in [1..n -> Nat]
  PROVE  SumTo(f, n) \in Nat
BY RedisAssumed, SameSums, RedisProofs!SumIsNat

(* The sum of zeros is zero. *)
LEMMA SumOfZeros ==
  ASSUME NEW n \in Nat, NEW f \in [1..n -> {0}]
  PROVE  SumTo(f, n) = 0
BY RedisAssumed, SameSums, RedisProofs!SumOfZeros

(* Adding to one term adds as much to the sum. *)
LEMMA SumAdds ==
  ASSUME NEW n \in Nat, NEW f \in [1..n -> Nat], NEW k \in 1..n, NEW d \in Nat
  PROVE  SumTo([f EXCEPT ![k] = f[k] + d], n) = SumTo(f, n) + d
<1>1. RedisProofs!SumTo([f EXCEPT ![k] = f[k] + d], n) = RedisProofs!SumTo(f, n) + d
  BY RedisAssumed, RedisProofs!SumAdds, Zenon
<1> QED BY <1>1, SameSums, Zenon

(* A sum of terms that are no larger is no larger. *)
LEMMA SumLeq ==
  ASSUME NEW n \in Nat, NEW f \in [1..n -> Int], NEW g \in [1..n -> Int],
         \A i \in 1..n : f[i] <= g[i]
  PROVE  SumTo(f, n) <= SumTo(g, n)
<1>1. RedisProofs!SumTo(f, n) <= RedisProofs!SumTo(g, n)
  BY RedisAssumed, RedisProofs!SumLeq, Zenon
<1> QED BY <1>1, SameSums, Zenon

(* The sum of sums, term by term. *)
LEMMA SumPlus ==
  ASSUME NEW n \in Nat, NEW f \in [1..n -> Int], NEW g \in [1..n -> Int],
         NEW h \in [1..n -> Int], \A i \in 1..n : h[i] = f[i] + g[i]
  PROVE  SumTo(h, n) = SumTo(f, n) + SumTo(g, n)
<1>1. RedisProofs!SumTo(h, n) = RedisProofs!SumTo(f, n) + RedisProofs!SumTo(g, n)
  BY RedisAssumed, RedisProofs!SumPlus, Zenon
<1> QED BY <1>1, SameSums, Zenon

(* A sum with few terms that are not zero, none above a maximum, is at     *)
(* most that many times the maximum.                                       *)
LEMMA SumOfFew ==
  ASSUME NEW n \in Nat, NEW f \in [1..n -> Nat], NEW T \in SUBSET (1..n), NEW M \in Nat,
         \A i \in T : f[i] <= M,
         \A i \in 1..n : i \notin T => f[i] = 0
  PROVE  SumTo(f, n) <= Cardinality(T) * M
<1>1. RedisProofs!Cardinality(T) = Cardinality(T)
  BY Zenon DEF RedisProofs!Cardinality, Cardinality
<1> QED BY <1>1, RedisAssumed, SameSums, RedisProofs!SumOfFew

-----------------------------------------------------------------------------
(* What a process counts as spent is what its steps cost. *)

\* What the count rests on: the types of the state it is taken from.
SpendTypes ==
  /\ totalSpent \in [Procs -> Nat]
  /\ chainSpent \in [Procs -> [Chains -> Nat]]
  /\ pc \in [Steps -> Stages]
  /\ cost \in [Steps -> Nat]
  /\ last \in [Steps -> Nat]

\* What a process has spent is what its chains have, and what the steps it
\* accounted for cost.
SpendAccounted ==
  \A p \in Procs :
    /\ totalSpent[p] = SumTo(chainSpent[p], NChains)
    /\ totalSpent[p] = SumOver(Accounted(p), cost)

IInv == SpendTypes /\ SpendAccounted

\* The costs that totalSpent[p] adds up.
StepCosts(p) == [s \in Steps |-> IF s \in Accounted(p) THEN cost[s] ELSE 0]

(* The bounds of the sums are natural numbers, the keys of a step are      *)
(* known, and every step is of one process and one chain.                  *)
LEMMA Numbers == /\ NProcs \in Nat /\ NChains \in Nat /\ NSteps \in Nat
                 /\ ProcOf \in [Steps -> Procs] /\ ChainOf \in [Steps -> Chains]
BY VeronicaAssumption DEF VeronicaAssumption

(* The costs of the accounted steps are one amount per step.               *)
LEMMA CostsType == ASSUME SpendTypes, NEW p
                   PROVE  StepCosts(p) \in [1..NSteps -> Nat]
BY DEF SpendTypes, StepCosts, Steps

(* A step of VeronicaOS that leaves the totals, the accounted steps and    *)
(* their cost alone leaves the accounts right.                             *)
LEMMA SameAccounts ==
  ASSUME IInv, SpendTypes', UNCHANGED <<totalSpent, chainSpent>>,
         \A s \in Steps : pc'[s] \in {"accounted", "ready", "committed", "failed", "done"}
                            <=> pc[s] \in {"accounted", "ready", "committed", "failed", "done"},
         \A s \in Steps : pc[s] \in {"accounted", "ready", "committed", "failed", "done"}
                            => cost'[s] = cost[s]
  PROVE  SpendAccounted'
<1>1. \A p \in Procs : StepCosts(p)' = StepCosts(p)
  BY DEF StepCosts, Accounted
<1> QED
  BY <1>1 DEF IInv, SpendAccounted, SumOver, StepCosts

(* Before any step nothing is spent (VeronicaOS.__init__).                 *)
LEMMA InitAccounts == Init => IInv
<1> SUFFICES ASSUME Init PROVE IInv
  OBVIOUS
<1>1. SpendTypes
  BY DEF Init, SpendTypes, Stages, Ended
<1>2. SpendAccounted
  <2> SUFFICES ASSUME NEW p \in Procs
               PROVE  /\ totalSpent[p] = SumTo(chainSpent[p], NChains)
                      /\ totalSpent[p] = SumOver(Accounted(p), cost)
    BY DEF SpendAccounted
  <2>1. totalSpent[p] = 0
    BY DEF Init
  <2>2. chainSpent[p] \in [1..NChains -> {0}]
    BY DEF Init, Chains
  <2>3. StepCosts(p) \in [1..NSteps -> {0}]
    BY DEF Init, StepCosts, Accounted, Steps
  <2>4. SumTo(chainSpent[p], NChains) = 0
    BY <2>2, Numbers, SumOfZeros
  <2>5. SumTo(StepCosts(p), NSteps) = 0
    BY <2>3, Numbers, SumOfZeros
  <2> QED
    BY <2>1, <2>4, <2>5 DEF SumOver, StepCosts
<1> QED
  BY <1>1, <1>2 DEF IInv

(* The cost of a step is added to the total and to its chain at once, and  *)
(* the step is among those accounted for from then on (after_step).        *)
LEMMA AccountAdds ==
  ASSUME IInv, NEW s \in Steps, NEW r, Account(s, r)
  PROVE  IInv'
<1> DEFINE p == ProcOf[s]
           c == ChainOf[s]
<1>0. p \in Procs /\ c \in Chains
  BY Numbers
<1>1. /\ pc[s] = "collected"
      /\ pc' = [pc EXCEPT ![s] = "accounted"]
      /\ totalSpent' = [totalSpent EXCEPT ![p] = @ + cost[s]]
      /\ chainSpent' = [chainSpent EXCEPT ![p][c] = @ + cost[s]]
      /\ cost' = cost /\ last' = last
  BY DEF Account, Advance
<1>2. SpendTypes'
  BY <1>0, <1>1 DEF IInv, SpendTypes, Stages
<1>3. ASSUME NEW q \in Procs
      PROVE  /\ totalSpent'[q] = SumTo(chainSpent'[q], NChains)
             /\ totalSpent'[q] = SumTo(StepCosts(q)', NSteps)
  <2>0. /\ totalSpent[q] = SumTo(chainSpent[q], NChains)
        /\ totalSpent[q] = SumTo(StepCosts(q), NSteps)
    BY DEF IInv, SpendAccounted, SumOver, StepCosts
  <2>1. CASE q = p
    <3>1. totalSpent'[q] = totalSpent[q] + cost[s]
      BY <1>0, <1>1, <2>1 DEF IInv, SpendTypes
    <3>2. chainSpent'[q] = [chainSpent[q] EXCEPT ![c] = chainSpent[q][c] + cost[s]]
      BY <1>0, <1>1, <2>1 DEF IInv, SpendTypes
    <3>3. SumTo(chainSpent'[q], NChains) = SumTo(chainSpent[q], NChains) + cost[s]
      <4>1. chainSpent[q] \in [1..NChains -> Nat] /\ cost[s] \in Nat
        BY DEF IInv, SpendTypes, Chains
      <4>2. c \in 1..NChains
        BY <1>0 DEF Chains
      <4> HIDE DEF c
      <4> QED
        BY <3>2, <4>1, <4>2, Numbers, SumAdds
    <3>4. StepCosts(q)' = [StepCosts(q) EXCEPT ![s] = cost[s]]
      BY <1>1, <2>1 DEF StepCosts, Accounted, IInv, SpendTypes
    <3>5. StepCosts(q)[s] = 0
      BY <1>1 DEF StepCosts, Accounted
    <3>6. SumTo(StepCosts(q)', NSteps) = SumTo(StepCosts(q), NSteps) + cost[s]
      <4>1. StepCosts(q) \in [1..NSteps -> Nat]
        BY CostsType DEF IInv
      <4>2. s \in 1..NSteps /\ cost[s] \in Nat
        BY DEF IInv, SpendTypes, Steps
      <4>3. StepCosts(q)[s] + cost[s] = cost[s]
        BY <3>5, <4>2
      <4> DEFINE f == StepCosts(q)
                 d == cost[s]
      <4>4. f \in [1..NSteps -> Nat] /\ d \in Nat /\ f[s] + d = d
        BY <4>1, <4>2, <4>3
      <4>5. StepCosts(q)' = [f EXCEPT ![s] = d]
        BY <3>4
      <4> HIDE DEF f, d
      <4>6. SumTo([f EXCEPT ![s] = f[s] + d], NSteps) = SumTo(f, NSteps) + d
        BY <4>2, <4>4, Numbers, SumAdds
      <4>7. SumTo([f EXCEPT ![s] = d], NSteps) = SumTo(f, NSteps) + d
        BY <4>4, <4>6
      <4> QED
        BY <4>5, <4>7 DEF f, d
    <3> QED
      BY <2>0, <3>1, <3>3, <3>6
  <2>2. CASE q # p
    <3>1. totalSpent'[q] = totalSpent[q] /\ chainSpent'[q] = chainSpent[q]
      BY <1>0, <1>1, <2>2 DEF IInv, SpendTypes
    <3>2. StepCosts(q)' = StepCosts(q)
      BY <1>1, <2>2 DEF StepCosts, Accounted, IInv, SpendTypes
    <3> QED
      BY <2>0, <3>1, <3>2
  <2> QED
    BY <2>1, <2>2
<1> QED
  BY <1>2, <1>3 DEF IInv, SpendAccounted, SumOver, StepCosts

(* A process that starts again has accounted for nothing, and the others   *)
(* for what they had (VeronicaOS.__init__).                                *)
LEMMA CrashForgets ==
  ASSUME IInv, NEW p \in Procs, Crash(p)
  PROVE  IInv'
<1>1. /\ pc' = [s \in Steps |-> IF ProcOf[s] = p /\ pc[s] # "idle" THEN "gone" ELSE pc[s]]
      /\ totalSpent' = [totalSpent EXCEPT ![p] = 0]
      /\ chainSpent' = [chainSpent EXCEPT ![p] = [c \in Chains |-> 0]]
      /\ cost' = cost /\ last' = last
  BY DEF Crash
<1>2. SpendTypes'
  BY <1>1 DEF IInv, SpendTypes, Stages, Ended
<1>3. ASSUME NEW q \in Procs
      PROVE  /\ totalSpent'[q] = SumTo(chainSpent'[q], NChains)
             /\ totalSpent'[q] = SumTo(StepCosts(q)', NSteps)
  <2>1. CASE q = p
    <3>1. totalSpent'[q] = 0 /\ chainSpent'[q] \in [1..NChains -> {0}]
      BY <1>1, <2>1 DEF IInv, SpendTypes, Chains
    <3>2. StepCosts(q)' \in [1..NSteps -> {0}]
      BY <1>1, <2>1 DEF StepCosts, Accounted, Steps
    <3>3. SumTo(chainSpent'[q], NChains) = 0
      BY <3>1, Numbers, SumOfZeros
    <3>4. SumTo(StepCosts(q)', NSteps) = 0
      BY <3>2, Numbers, SumOfZeros
    <3> QED
      BY <3>1, <3>3, <3>4
  <2>2. CASE q # p
    <3>1. totalSpent'[q] = totalSpent[q] /\ chainSpent'[q] = chainSpent[q]
      BY <1>1, <2>2 DEF IInv, SpendTypes
    <3>2. StepCosts(q)' = StepCosts(q)
      BY <1>1, <2>2 DEF StepCosts, Accounted, IInv, SpendTypes
    <3> QED
      BY <3>1, <3>2 DEF IInv, SpendAccounted, SumOver, StepCosts
  <2> QED
    BY <2>1, <2>2
<1> QED
  BY <1>2, <1>3 DEF IInv, SpendAccounted, SumOver, StepCosts

(* No other stage of a step touches what was accounted for (before_step,   *)
(* wrap_call, the collector, commit, settle).                              *)
LEMMA StepAccounts ==
  ASSUME IInv, NEW s \in Steps, StepNext(s)
  PROVE  IInv'
<1> USE DEF Advance, osState, store, redisVars, Stages, Ended
<1>1. CASE Deny(s)
  <2>1. SpendTypes'
    BY <1>1 DEF Deny, IInv, SpendTypes
  <2> QED
    BY <1>1, <2>1, SameAccounts DEF Deny, IInv, SpendTypes
<1>2. CASE ReadAnalysis(s)
  <2>1. SpendTypes'
    BY <1>2 DEF ReadAnalysis, IInv, SpendTypes
  <2> QED
    BY <1>2, <2>1, SameAccounts DEF ReadAnalysis, IInv, SpendTypes
<1>3. CASE PlanAndArbitrate(s)
  <2>1. /\ pc[s] = "seen"
        /\ \E to \in {"rejected", "running"} : pc' = [pc EXCEPT ![s] = to]
        /\ UNCHANGED <<totalSpent, chainSpent, cost, last>>
    BY <1>3, Zenon DEF PlanAndArbitrate
  <2>2. SpendTypes'
    BY <2>1 DEF IInv, SpendTypes
  <2> QED
    BY <2>1, <2>2, SameAccounts DEF IInv, SpendTypes
<1>4. ASSUME NEW price \in 0..(ceiling[s] + Overshoot), Call(s, price)
      PROVE  IInv'
  <2>1. SpendTypes'
    BY <1>4 DEF Call, IInv, SpendTypes
  <2> QED
    BY <1>4, <2>1, SameAccounts DEF Call, IInv, SpendTypes
<1>5. CASE Collect(s)
  <2>1. SpendTypes'
    BY <1>5 DEF Collect, IInv, SpendTypes
  <2> QED
    BY <1>5, <2>1, SameAccounts DEF Collect, IInv, SpendTypes
<1>6. CASE CollectTooLate(s) \/ AnalysisFails(s)
  <2>1. SpendTypes'
    BY <1>6 DEF CollectTooLate, AnalysisFails, IInv, SpendTypes
  <2> QED
    BY <1>6, <2>1, SameAccounts DEF CollectTooLate, AnalysisFails, IInv, SpendTypes
<1>7. ASSUME NEW r \in Recommendations, Account(s, r)
      PROVE  IInv'
  BY <1>7, AccountAdds
<1>8. CASE SetBudgetContext(s)
  <2>1. SpendTypes'
    BY <1>8 DEF SetBudgetContext, IInv, SpendTypes
  <2> QED
    BY <1>8, <2>1, SameAccounts DEF SetBudgetContext, IInv, SpendTypes
<1>9. CASE Commit(s)
  <2>1. SpendTypes'
    BY <1>9 DEF Commit, IInv, SpendTypes
  <2> QED
    BY <1>9, <2>1, SameAccounts DEF Commit, IInv, SpendTypes
<1>10. CASE CommitFails(s)
  <2>1. SpendTypes'
    BY <1>10 DEF CommitFails, IInv, SpendTypes
  <2> QED
    BY <1>10, <2>1, SameAccounts DEF CommitFails, IInv, SpendTypes
<1>11. CASE SettleAndEmit(s)
  <2>1. /\ pc[s] = "committed"
        /\ pc' = [pc EXCEPT ![s] = "done"]
        /\ UNCHANGED <<totalSpent, chainSpent, cost, last>>
    BY <1>11, Zenon DEF SettleAndEmit
  <2>2. SpendTypes'
    BY <2>1 DEF IInv, SpendTypes
  <2> QED
    BY <2>1, <2>2, SameAccounts DEF IInv, SpendTypes
<1> QED
  BY <1>1, <1>2, <1>3, <1>4, <1>5, <1>6, <1>7, <1>8, <1>9, <1>10, <1>11 DEF StepNext

(* Every step of the system keeps the accounts right, whatever thread,     *)
(* process or Redis takes it.                                              *)
LEMMA NextAccounts == IInv /\ [Next]_vars => IInv'
<1> SUFFICES ASSUME IInv, [Next]_vars PROVE IInv'
  OBVIOUS
<1>1. ASSUME NEW s \in Steps, StepNext(s) PROVE IInv'
  BY <1>1, StepAccounts
<1>2. ASSUME NEW p \in Procs, Crash(p) PROVE IInv'
  BY <1>2, CrashForgets
<1>3. ASSUME UNCHANGED <<totalSpent, chainSpent, pc, cost, last>> PROVE IInv'
  BY <1>3 DEF IInv, SpendTypes, SpendAccounted, SumOver, Accounted
<1>4. CASE RedisMoves
  <2>1. UNCHANGED <<totalSpent, chainSpent, pc, cost, last>>
    BY <1>4, Zenon DEF RedisMoves, osState, stepState
  <2> QED
    BY <1>3, <2>1
<1>5. CASE UNCHANGED vars
  BY <1>3, <1>5 DEF vars, osState, stepState
<1> QED
  BY <1>1, <1>2, <1>4, <1>5 DEF Next

(* The accounts are right in every reachable state.                        *)
LEMMA Invariance == Spec => []IInv
<1>1. Init => IInv
  BY InitAccounts
<1>2. IInv /\ [Next]_vars => IInv'
  BY NextAccounts
<1> QED
  BY <1>1, <1>2, PTL DEF Spec

-----------------------------------------------------------------------------
(* Where steps stand. *)

Flying(s) == pc[s] \notin {"idle"} \cup Ended

(* Every step is at some stage.                                            *)
LEMMA StageType == ASSUME IInv PROVE pc \in [Steps -> Stages]
BY DEF IInv, SpendTypes

\* How one step may move, and what it does to context and record.
Begins(s) ==
  /\ CanBegin(s)
  /\ \E to \in {"seen", "running"} : Advance(s, "idle", to)
  /\ UNCHANGED <<context, record>>
GoesOn(s) ==
  /\ Flying(s)
  /\ \E to \in Stages \ {"idle", "ready", "committed"} : pc' = [pc EXCEPT ![s] = to]
  /\ UNCHANGED <<context, record>>

(* What each part of step() does to the stages, the budget contexts and    *)
(* the records: one step begins, goes on, sets its context or commits      *)
(* (before_step, after_step).                                              *)
LEMMA StepMoves ==
  ASSUME IInv, NEW s \in Steps, StepNext(s)
  PROVE  Begins(s) \/ GoesOn(s) \/ SetBudgetContext(s) \/ Commit(s)
         \/ (UNCHANGED <<pc, context, record>>)
<1> USE DEF Advance, store, Flying, Stages, Ended
<1>1. CASE Deny(s) \/ ReadAnalysis(s)
  BY <1>1 DEF Deny, ReadAnalysis, Begins
<1>2. CASE PlanAndArbitrate(s)
  <2>1. /\ pc[s] = "seen" /\ UNCHANGED <<context, record>>
        /\ \E to \in {"rejected", "running"} : pc' = [pc EXCEPT ![s] = to]
    BY <1>2, Zenon DEF PlanAndArbitrate, store
  <2> QED
    BY <2>1 DEF GoesOn
<1>3. ASSUME NEW price \in 0..(ceiling[s] + Overshoot), Call(s, price)
      PROVE  UNCHANGED <<pc, context, record>>
  BY <1>3 DEF Call
<1>4. CASE Collect(s) \/ CollectTooLate(s) \/ AnalysisFails(s) \/ CommitFails(s)
  BY <1>4 DEF Collect, CollectTooLate, AnalysisFails, CommitFails, GoesOn
<1>5. ASSUME NEW r \in Recommendations, Account(s, r) PROVE GoesOn(s)
  BY <1>5 DEF Account, GoesOn
<1>6. CASE SettleAndEmit(s)
  <2>1. /\ pc[s] = "committed" /\ UNCHANGED <<context, record>>
        /\ pc' = [pc EXCEPT ![s] = "done"]
    BY <1>6, Zenon DEF SettleAndEmit, store
  <2> QED
    BY <2>1 DEF GoesOn
<1> QED
  BY <1>1, <1>2, <1>3, <1>4, <1>5, <1>6 DEF StepNext

-----------------------------------------------------------------------------
(* What becomes of reservations. *)

Settled(k) == \E s \in record : KeyOf[s] = k

\* Who has committed has a record, and so has who asked for a late settlement.
SettleInv ==
  /\ DOMAIN alloc = 1..NKeys
  /\ \A s \in Steps : pc[s] = "committed" => s \in record
  /\ \A m \in late : m.op = "settle" => Settled(m.key)

\* Reservations that end in this step expire, or belong to recorded steps.
Ending ==
  \A k \in 1..NKeys :
    alloc[k] # NoAlloc /\ alloc'[k] = NoAlloc => Redis!Expire(k) \/ Settled(k)

(* LUA_RESERVE adds an allocation or leaves all as they were.              *)
LEMMA ReserveEndsNone ==
  ASSUME DOMAIN alloc = 1..NKeys, NEW k, NEW micro, Redis!LuaReserve(k, micro)
  PROVE  /\ DOMAIN alloc' = 1..NKeys
         /\ \A j \in 1..NKeys : alloc[j] # NoAlloc => alloc'[j] # NoAlloc
BY DEF Redis!LuaReserve, Redis!redis

(* LUA_SETTLE ends the allocation of its own key at most.                  *)
LEMMA SettleEndsOne ==
  ASSUME DOMAIN alloc = 1..NKeys, NEW k, NEW micro, Redis!LuaSettle(k, micro)
  PROVE  /\ DOMAIN alloc' = 1..NKeys
         /\ \A j \in 1..NKeys : alloc[j] # NoAlloc /\ j # k => alloc'[j] # NoAlloc
BY DEF Redis!LuaSettle

(* The arbiter, in time or too late, reserves and asks for no settlement.  *)
LEMMA ArbiterEndsNone ==
  ASSUME SettleInv, NEW s \in Steps, PlanAndArbitrate(s)
  PROVE  SettleInv' /\ Ending
<1>1. /\ \E to \in {"rejected", "running"} : pc' = [pc EXCEPT ![s] = to]
      /\ record' = record
  BY Zenon DEF PlanAndArbitrate, store
<1>2. \/ UNCHANGED redisVars
      \/ \E d : Redis!Arbitrate(KeyOf[s], d)
      \/ \E d, b : Redis!ArbitrateFails(KeyOf[s], d, b)
  BY Zenon DEF PlanAndArbitrate, Arbitrated, ArbiterTooLate
<1>3. /\ DOMAIN alloc' = 1..NKeys
      /\ \A j \in 1..NKeys : alloc[j] # NoAlloc => alloc'[j] # NoAlloc
      /\ \A m \in late' : m \in late \/ m.op = "reserve"
  <2>1. CASE UNCHANGED redisVars
    BY <2>1 DEF redisVars, SettleInv
  <2>2. ASSUME NEW d, Redis!Arbitrate(KeyOf[s], d)
        PROVE  /\ DOMAIN alloc' = 1..NKeys /\ late' = late
               /\ \A j \in 1..NKeys : alloc[j] # NoAlloc => alloc'[j] # NoAlloc
    BY <2>2, ReserveEndsNone DEF Redis!Arbitrate, SettleInv
  <2>3. ASSUME NEW d, NEW b, Redis!ArbitrateFails(KeyOf[s], d, b)
        PROVE  alloc' = alloc /\ \A m \in late' : m \in late \/ m.op = "reserve"
    BY <2>3 DEF Redis!ArbitrateFails, Redis!MayRunLate
  <2> QED
    BY <1>2, <2>1, <2>2, <2>3 DEF SettleInv
<1> QED
  BY <1>1, <1>3 DEF SettleInv, Ending, Settled

(* A step settles when it has committed. *)
LEMMA SettlementIsRecorded ==
  ASSUME SettleInv, NEW s \in Steps, SettleAndEmit(s)
  PROVE  SettleInv' /\ Ending
<1>1. /\ pc[s] = "committed" /\ pc' = [pc EXCEPT ![s] = "done"]
      /\ record' = record
  BY Zenon DEF SettleAndEmit, store, Advance
<1>2. \/ UNCHANGED redisVars
      \/ Redis!Settle(KeyOf[s], cost[s])
      \/ Redis!SettleFails(KeyOf[s], cost[s])
  BY Zenon DEF SettleAndEmit
<1>3. Settled(KeyOf[s])
  BY <1>1 DEF SettleInv, Settled
<1>4. /\ DOMAIN alloc' = 1..NKeys
      /\ \A j \in 1..NKeys : alloc[j] # NoAlloc /\ j # KeyOf[s] => alloc'[j] # NoAlloc
      /\ \A m \in late' : m \in late \/ m.key = KeyOf[s]
  <2>1. CASE UNCHANGED redisVars
    BY <2>1 DEF redisVars, SettleInv
  <2>2. CASE Redis!Settle(KeyOf[s], cost[s])
    BY <2>2, SettleEndsOne DEF Redis!Settle, SettleInv
  <2>3. CASE Redis!SettleFails(KeyOf[s], cost[s])
    BY <2>3 DEF Redis!SettleFails, Redis!MayRunLate, SettleInv
  <2> QED
    BY <1>2, <2>1, <2>2, <2>3
<1> QED
  BY <1>1, <1>3, <1>4 DEF SettleInv, Ending, Settled

(* Expiry, and the scripts that run late. *)
LEMMA RedisEnds ==
  ASSUME SettleInv, RedisMoves
  PROVE  SettleInv' /\ Ending
<1>1. UNCHANGED <<pc, record>>
  BY Zenon DEF RedisMoves, store, stepState
<1>2. ASSUME NEW k \in 1..NKeys, Redis!Expire(k)
      PROVE  SettleInv' /\ Ending
  <2>1. alloc' = [alloc EXCEPT ![k] = NoAlloc] /\ late' = late
    BY <1>2 DEF Redis!Expire
  <2> QED
    BY <1>1, <1>2, <2>1 DEF SettleInv, Ending, Settled
<1>3. ASSUME NEW m \in late, Redis!RunLate(m)
      PROVE  SettleInv' /\ Ending
  <2>1. late' \subseteq late
    BY <1>3 DEF Redis!RunLate
  <2>2. CASE m.op = "reserve" /\ Redis!LuaReserve(m.key, m.micro)
    BY <1>1, <2>1, <2>2, ReserveEndsNone DEF SettleInv, Ending, Settled
  <2>3. CASE m.op = "settle" /\ Redis!LuaSettle(m.key, m.micro)
    BY <1>1, <2>1, <2>3, SettleEndsOne DEF SettleInv, Ending, Settled
  <2> QED
    BY <1>3, <2>2, <2>3 DEF Redis!RunLate
<1> QED
  BY <1>2, <1>3 DEF RedisMoves

(* Every action keeps committed steps recorded, and ends a reservation     *)
(* only by expiry or for a recorded step (after_step settles after         *)
(* commit).                                                                *)
LEMMA ReservationsKept == IInv /\ SettleInv /\ [Next]_vars => SettleInv' /\ Ending
<1> SUFFICES ASSUME IInv, SettleInv, [Next]_vars PROVE SettleInv' /\ Ending
  OBVIOUS
<1>1. ASSUME UNCHANGED redisVars,
             \A s \in record : s \in record',
             \A s \in Steps : pc'[s] = "committed" => pc[s] = "committed" \/ s \in record'
      PROVE  SettleInv' /\ Ending
  BY <1>1 DEF redisVars, SettleInv, Ending, Settled
<1>2. ASSUME NEW s \in Steps, StepNext(s)
      PROVE  SettleInv' /\ Ending
  <2>a. pc \in [Steps -> Stages]
    BY StageType
  <2>1. CASE PlanAndArbitrate(s) \/ SettleAndEmit(s)
    BY <2>1, ArbiterEndsNone, SettlementIsRecorded
  <2>2. CASE ~PlanAndArbitrate(s) /\ ~SettleAndEmit(s)
    <3>1. UNCHANGED redisVars
      BY <1>2, <2>2, Zenon DEF StepNext, Deny, ReadAnalysis, Call, Collect, CollectTooLate,
         AnalysisFails, Account, SetBudgetContext, Commit, CommitFails
    <3>2. CASE Begins(s) \/ GoesOn(s)
      BY <1>1, <2>a, <3>1, <3>2 DEF Begins, GoesOn, Advance
    <3>3. CASE SetBudgetContext(s)
      BY <1>1, <2>a, <3>1, <3>3 DEF SetBudgetContext, Advance
    <3>4. CASE Commit(s)
      BY <1>1, <2>a, <3>1, <3>4 DEF Commit, Advance
    <3>5. CASE UNCHANGED <<pc, context, record>>
      BY <1>1, <3>1, <3>5
    <3> QED
      BY <1>2, <3>2, <3>3, <3>4, <3>5, StepMoves
  <2> QED
    BY <2>1, <2>2
<1>3. ASSUME NEW p \in Procs, Crash(p)
      PROVE  SettleInv' /\ Ending
  BY <1>1, <1>3 DEF Crash
<1>4. CASE UNCHANGED vars
  BY <1>1, <1>4 DEF vars, store, stepState
<1> QED
  BY <1>2, <1>3, <1>4, RedisEnds DEF Next

(* A reservation ends by its time to live or for a committed step of its   *)
(* key, whatever is lost, late or repeated and whoever crashes.            *)
THEOREM OSReleasedWhenCommitted == Spec => ReleasedWhenCommitted
<1>1. Init => SettleInv
  BY DEF Init, SettleInv, Redis!Init, Redis!Keys
<1>2. IInv /\ SettleInv /\ [Next]_vars => SettleInv'
  BY ReservationsKept
<1>3. IInv /\ SettleInv /\ [Next]_vars =>
        [\A k \in 1..NKeys :
           (alloc[k] # NoAlloc /\ alloc'[k] = NoAlloc /\ ~Redis!Expire(k)) =>
             \E s \in record : KeyOf[s] = k]_vars
  BY ReservationsKept DEF Ending, Settled
<1> QED
  BY <1>1, <1>2, <1>3, Invariance, PTL DEF Spec, ReleasedWhenCommitted

-----------------------------------------------------------------------------
(* The steps of VeronicaOS are, for Redis, steps of RedisArbiter. *)

(* The two instances of RedisArbiter speak of the same calls. *)
LEMMA SameCalls ==
  ASSUME NEW k, NEW d, NEW b, NEW c, NEW m
  PROVE  /\ Redis!Arbitrate(k, d) <=> RedisProofs!Arbitrate(k, d)
         /\ Redis!ArbitrateFails(k, d, b) <=> RedisProofs!ArbitrateFails(k, d, b)
         /\ Redis!Settle(k, c) <=> RedisProofs!Settle(k, c)
         /\ Redis!SettleFails(k, c) <=> RedisProofs!SettleFails(k, c)
         /\ Redis!Expire(k) <=> RedisProofs!Expire(k)
         /\ Redis!RunLate(m) <=> RedisProofs!RunLate(m)
<1> USE DEF Redis!MayArbitrate, RedisProofs!MayArbitrate,
  Redis!LuaReserve, RedisProofs!LuaReserve, Redis!LuaSettle, RedisProofs!LuaSettle,
  Redis!Available, RedisProofs!Available, Redis!OrZero, RedisProofs!OrZero,
  Redis!AtLeastZero, RedisProofs!AtLeastZero, Redis!Total, RedisProofs!Total,
  Redis!ToMicro, RedisProofs!ToMicro, Redis!FromMicro, RedisProofs!FromMicro,
  Redis!ActualMicro, RedisProofs!ActualMicro, Redis!MayRunLate, RedisProofs!MayRunLate,
  Redis!MaySettle, RedisProofs!MaySettle, Redis!Fallback, RedisProofs!Fallback,
  Redis!ProportionalGrants, RedisProofs!ProportionalGrants,
  Redis!ProportionalCeiling, RedisProofs!ProportionalCeiling,
  Redis!redis, RedisProofs!redis, Redis!history, RedisProofs!history
<1>0. Redis!Cardinality(late) = RedisProofs!Cardinality(late)
  BY Zenon DEF Redis!Cardinality, RedisProofs!Cardinality
<1>1. Redis!Arbitrate(k, d) <=> RedisProofs!Arbitrate(k, d)
  BY Zenon DEF Redis!Arbitrate, RedisProofs!Arbitrate
<1>2. Redis!ArbitrateFails(k, d, b) <=> RedisProofs!ArbitrateFails(k, d, b)
  BY <1>0, Zenon DEF Redis!ArbitrateFails, RedisProofs!ArbitrateFails
<1>3. Redis!Settle(k, c) <=> RedisProofs!Settle(k, c)
  BY Zenon DEF Redis!Settle, RedisProofs!Settle
<1>4. Redis!SettleFails(k, c) <=> RedisProofs!SettleFails(k, c)
  BY <1>0, Zenon DEF Redis!SettleFails, RedisProofs!SettleFails
<1>5. Redis!Expire(k) <=> RedisProofs!Expire(k)
  BY Zenon DEF Redis!Expire, RedisProofs!Expire
<1>6. Redis!RunLate(m) <=> RedisProofs!RunLate(m)
  BY Zenon DEF Redis!RunLate, RedisProofs!RunLate
<1> QED BY <1>1, <1>2, <1>3, <1>4, <1>5, <1>6

(* The two instances of RedisArbiter take the same steps. *)
LEMMA SameNext ==
  [Redis!Next]_redisVars => [RedisProofs!Next]_(RedisProofs!vars)
<1>1. Redis!Keys = RedisProofs!Keys
  BY DEF Redis!Keys, RedisProofs!Keys
<1>3. ASSUME Redis!Next PROVE RedisProofs!Next
  <2>1. CASE \E k \in Redis!Keys, d \in [ceiling : Int, priority : Int] : Redis!Arbitrate(k, d)
    BY <1>1, <2>1, SameCalls, Zenon DEF RedisProofs!Next
  <2>2. CASE \E k \in Redis!Keys, d \in [ceiling : Int, priority : Int], b \in Int :
               Redis!ArbitrateFails(k, d, b)
    BY <1>1, <2>2, SameCalls, Zenon DEF RedisProofs!Next
  <2>3. CASE \E k \in Redis!Keys, c \in Nat : Redis!Settle(k, c)
    BY <1>1, <2>3, SameCalls, Zenon DEF RedisProofs!Next
  <2>4. CASE \E k \in Redis!Keys, c \in Nat : Redis!SettleFails(k, c)
    BY <1>1, <2>4, SameCalls, Zenon DEF RedisProofs!Next
  <2>5. CASE \E k \in Redis!Keys : Redis!Expire(k)
    BY <1>1, <2>5, SameCalls, Zenon DEF RedisProofs!Next
  <2>6. CASE \E m \in late : Redis!RunLate(m)
    BY <2>6, SameCalls, Zenon DEF RedisProofs!Next
  <2> QED BY <1>3, <2>1, <2>2, <2>3, <2>4, <2>5, <2>6, Zenon DEF Redis!Next
<1> QED BY <1>3 DEF RedisProofs!vars, redisVars

-----------------------------------------------------------------------------
(* What a step is granted.                                                 *)

AmountTypes ==
  /\ effective \in [Procs -> Int]
  /\ ceiling \in [Steps -> Int]
  /\ calls \in [Steps -> Nat] /\ paid \in [Steps -> Nat]
  /\ crashes \in Nat

BaseInv == IInv /\ AmountTypes /\ RedisProofs!TypeInv

\* What before_step reads of the budgets.
Left(s) == Budget - totalSpent[ProcOf[s]]
ChainLeft(s) == Budget - chainSpent[ProcOf[s]][ChainOf[s]]

\* What the planner may want for a step, in time or not.
Wants(s, want) ==
  \/ /\ want <= MaxCeiling /\ want <= ChainLeft(s)
     /\ want >= MinCeiling \/ want = ChainLeft(s)
  \/ "planner" \in MayTimeOut /\ want = Lower(Dollar, Left(s))

\* What ceiling a desire may be answered with, in time or not.
Answers(s, desired, answer) ==
  \/ "arbiter" \in MayTimeOut /\ answer = desired.ceiling
  \/ Arbiter = "passthrough" /\ answer = PassthroughCeiling(desired, Left(s))
  \/ /\ Arbiter # "passthrough"
     /\ answer = IF ProportionalGrants(desired) THEN ProportionalCeiling(desired, Left(s))
                                                ELSE Dollar
  \/ /\ Arbiter = "redis" /\ answer <= desired.ceiling
     /\ answer = desired.ceiling \/ answer >= 0

\* What Redis is asked for a step.
Asks(s, desired) ==
  \/ UNCHANGED redisVars
  \/ Redis!Arbitrate(KeyOf[s], desired)
  \/ Redis!ArbitrateFails(KeyOf[s], desired, Left(s))

Planning(s, want, answer) ==
  /\ Wants(s, want) /\ Answers(s, OrgClamp(want), answer) /\ Asks(s, OrgClamp(want))
  /\ ceiling' = [ceiling EXCEPT ![s] = answer]
  /\ pc[s] = "seen"
  /\ pc' = [pc EXCEPT ![s] = IF answer < 0 THEN "rejected" ELSE "running"]

(* The planner's factor gives an amount again (tighten, loosen). *)
LEMMA DriftInt ==
  ASSUME NEW e \in Int, NEW r, NEW c \in Drift(e, r)
  PROVE  c \in Int
<1>1. Scaled(e, 9, 10) \subseteq Int /\ Scaled(e, 21, 20) \subseteq Int
  BY DEF Scaled
<1>2. Drift(e, r) = Scaled(e, 9, 10) \/ Drift(e, r) = Scaled(e, 21, 20) \/ Drift(e, r) = {e}
  BY Zenon DEF Drift
<1> QED BY <1>1, <1>2

(* The clamps of the planner: at most its maximum and what is left of the  *)
(* chain, and at least its minimum unless the chain has less.              *)
LEMMA ClampedBounds ==
  ASSUME NEW c \in Int, NEW l \in Int
  PROVE  /\ Clamped(c, l) \in Int
         /\ Clamped(c, l) <= MaxCeiling /\ Clamped(c, l) <= l
         /\ Clamped(c, l) >= MinCeiling \/ Clamped(c, l) = l
BY VeronicaAssumption DEF Clamped, Lower, Higher

(* The org clamp lowers a desire at most (OrgPolicy.clamp). *)
LEMMA OrgClampType ==
  ASSUME NEW want \in Int
  PROVE  /\ OrgClamp(want) \in [ceiling : Int, priority : Int]
         /\ OrgClamp(want).ceiling \in Int /\ OrgClamp(want).priority \in Int
         /\ OrgClamp(want).ceiling <= want /\ OrgClamp(want).ceiling <= OrgCeiling
         /\ OrgClamp(want).ceiling = want \/ OrgClamp(want).ceiling = OrgCeiling
         /\ OrgPriority > 0 => ProportionalGrants(OrgClamp(want))
BY VeronicaAssumption DEF OrgClamp, Lower, PlannerPriority, ProportionalGrants

(* The budgets that are read are amounts. *)
LEMMA LeftInt ==
  ASSUME IInv, NEW s \in Steps
  PROVE  /\ Left(s) \in Int /\ ChainLeft(s) \in Int
         /\ totalSpent[ProcOf[s]] \in Nat /\ chainSpent[ProcOf[s]][ChainOf[s]] \in Nat
         /\ ProcOf[s] \in Procs /\ ChainOf[s] \in Chains
<1>1. ProcOf[s] \in Procs /\ ChainOf[s] \in Chains /\ Budget \in Nat
  BY VeronicaAssumption
<1> QED BY <1>1 DEF IInv, SpendTypes, Left, ChainLeft

(* What Redis grants is an amount, no more than what was desired. *)
LEMMA RedisGrants ==
  ASSUME BaseInv, NEW k \in 1..NKeys, NEW d \in [ceiling : Int, priority : Int],
         Redis!Arbitrate(k, d)
  PROVE  /\ grant'[k].by # "none" /\ grant'[k].ceiling \in Int
         /\ grant'[k].ceiling <= d.ceiling
         /\ grant'[k].ceiling = d.ceiling \/ grant'[k].ceiling >= 0
<1>1. k \in DOMAIN grant
  BY DEF BaseInv, RedisProofs!TypeInv, RedisProofs!TypeOK, RedisProofs!Keys
<1>2. Redis!Available \in Nat
  <2>1. remaining \in Nat \cup {NoKey}
    BY DEF BaseInv, RedisProofs!TypeInv, RedisProofs!TypeOK
  <2>2. Redis!Total \in Nat
    BY SharedAssumption DEF Redis!Total, Redis!ToMicro
  <2> QED BY <2>1, <2>2 DEF Redis!Available
<1>3. /\ Redis!FromMicro(Redis!Available) = Redis!Available
      /\ Redis!ToMicro(d.ceiling) = d.ceiling /\ d.ceiling \in Int
  BY <1>2 DEF Redis!FromMicro, Redis!ToMicro
<1>4. CASE alloc[k] = NoAlloc /\ Redis!Available < d.ceiling
  <2>1. grant'[k] = [ceiling |-> Redis!FromMicro(Redis!Available), by |-> "insufficient"]
    BY <1>1, <1>3, <1>4 DEF Redis!Arbitrate
  <2> QED BY <1>2, <1>3, <1>4, <2>1
<1>5. CASE ~(alloc[k] = NoAlloc /\ Redis!Available < d.ceiling)
  <2>1. grant'[k] = [ceiling |-> d.ceiling, by |-> "reserved"]
    BY <1>1, <1>3, <1>5 DEF Redis!Arbitrate
  <2> QED BY <1>3, <2>1
<1> QED BY <1>4, <1>5

(* What the fallback grants is what the proportional arbiter would. *)
LEMMA FallbackGrants ==
  ASSUME BaseInv, NEW k \in 1..NKeys, NEW d \in [ceiling : Int, priority : Int],
         NEW b \in Int, Redis!ArbitrateFails(k, d, b)
  PROVE  IF ProportionalGrants(d)
           THEN grant'[k].by # "none" /\ grant'[k].ceiling = ProportionalCeiling(d, b)
           ELSE grant'[k].by = "none"
<1>1. k \in DOMAIN grant
  BY DEF BaseInv, RedisProofs!TypeInv, RedisProofs!TypeOK, RedisProofs!Keys
<1>2. grant'[k] = Redis!Fallback(d, b)
  BY <1>1 DEF Redis!ArbitrateFails
<1>3. /\ Redis!ProportionalGrants(d) <=> ProportionalGrants(d)
      /\ Redis!ProportionalCeiling(d, b) = ProportionalCeiling(d, b)
  BY DEF Redis!ProportionalGrants, ProportionalGrants, Redis!ProportionalCeiling,
         ProportionalCeiling
<1> QED BY <1>2, <1>3 DEF Redis!Fallback

(* before_step, in one place: what it wants, asks for and is answered. *)
LEMMA PlannedStep ==
  ASSUME BaseInv, NEW s \in Steps, PlanAndArbitrate(s)
  PROVE  /\ \E want \in Int, answer \in Int : Planning(s, want, answer)
         /\ effective' \in [Procs -> Int]
         /\ UNCHANGED <<totalSpent, chainSpent, store, calls, paid, last, cost, crashes>>
<1> DEFINE p == ProcOf[s]
<1>0. /\ p \in Procs /\ effective \in [Procs -> Int] /\ effective[p] \in Int
      /\ ceiling \in [Steps -> Int] /\ KeyOf[s] \in 1..NKeys
      /\ Left(s) \in Int /\ ChainLeft(s) \in Int /\ Dollar \in Int /\ MinAllocation \in Int
  BY LeftInt, VeronicaAssumption DEF BaseInv, AmountTypes
<1>1. /\ pc[s] = "seen"
      /\ pc' = [pc EXCEPT ![s] = IF ceiling'[s] < 0 THEN "rejected" ELSE "running"]
      /\ UNCHANGED <<totalSpent, chainSpent, store, calls, paid, last, cost, crashes>>
      /\ \E c \in Drift(effective[p], seen[s]) :
           /\ effective' = [effective EXCEPT ![p] = Clamped(c, ChainLeft(s))]
           /\ \E want \in Planned(Clamped(c, ChainLeft(s)), Left(s)) :
                \/ Arbitrated(s, OrgClamp(want), Left(s))
                \/ ArbiterTooLate(s, OrgClamp(want), Left(s))
  BY Zenon DEF PlanAndArbitrate, Left, ChainLeft
<1>2. PICK c \in Drift(effective[p], seen[s]) :
        /\ effective' = [effective EXCEPT ![p] = Clamped(c, ChainLeft(s))]
        /\ \E want \in Planned(Clamped(c, ChainLeft(s)), Left(s)) :
             \/ Arbitrated(s, OrgClamp(want), Left(s))
             \/ ArbiterTooLate(s, OrgClamp(want), Left(s))
  BY <1>1
<1> DEFINE plan == Clamped(c, ChainLeft(s))
<1>3. /\ plan \in Int /\ plan <= MaxCeiling /\ plan <= ChainLeft(s)
      /\ plan >= MinCeiling \/ plan = ChainLeft(s)
  BY <1>0, DriftInt, ClampedBounds
<1> HIDE DEF plan
<1>4. PICK want \in Planned(plan, Left(s)) :
             \/ Arbitrated(s, OrgClamp(want), Left(s))
             \/ ArbiterTooLate(s, OrgClamp(want), Left(s))
  BY <1>2 DEF plan
<1>5. want \in Int /\ Wants(s, want)
  BY <1>0, <1>3 DEF Planned, Wants, Lower
<1> DEFINE d == OrgClamp(want)
<1>6. d \in [ceiling : Int, priority : Int] /\ d.ceiling \in Int /\ d.priority \in Int
  BY <1>5, OrgClampType
<1> HIDE DEF d
<1>7. \E answer \in Int :
        Answers(s, d, answer) /\ Asks(s, d) /\ ceiling' = [ceiling EXCEPT ![s] = answer]
  <2>1. CASE ArbiterTooLate(s, d, Left(s))
    <3>1. Answers(s, d, d.ceiling) /\ ceiling' = [ceiling EXCEPT ![s] = d.ceiling]
      BY <2>1 DEF ArbiterTooLate, Answers
    <3>2. Asks(s, d)
      BY <2>1, Zenon DEF ArbiterTooLate, Asks
    <3> QED BY <1>6, <3>1, <3>2
  <2>2. CASE Arbiter = "passthrough" /\ Arbitrated(s, d, Left(s))
    <3>1. /\ ceiling' = [ceiling EXCEPT ![s] = PassthroughCeiling(d, Left(s))]
          /\ Asks(s, d)
      BY <2>2 DEF Arbitrated, LocalCeiling, Asks
    <3>2. PassthroughCeiling(d, Left(s)) \in Int
      BY <1>0, <1>6 DEF PassthroughCeiling
    <3> QED BY <2>2, <3>1, <3>2 DEF Answers
  <2> DEFINE a == IF ProportionalGrants(d) THEN ProportionalCeiling(d, Left(s)) ELSE Dollar
  <2>3. a \in Int
    BY <1>0, <1>6 DEF ProportionalCeiling
  <2>4. CASE Arbiter = "proportional" /\ Arbitrated(s, d, Left(s))
    <3>1. ceiling' = [ceiling EXCEPT ![s] = a] /\ Asks(s, d)
      BY <2>4 DEF Arbitrated, LocalCeiling, Asks, DefaultCeiling
    <3> QED BY <2>3, <2>4, <3>1 DEF Answers
  <2>5. CASE Arbiter = "redis" /\ Redis!Arbitrate(KeyOf[s], d) /\ Arbitrated(s, d, Left(s))
    <3> DEFINE g == grant'[KeyOf[s]]
    <3>1. ceiling' = [ceiling EXCEPT ![s] = IF g.by = "none" THEN DefaultCeiling ELSE g.ceiling]
      BY <2>5, Zenon DEF Arbitrated
    <3>2. /\ g.by # "none" /\ g.ceiling \in Int /\ g.ceiling <= d.ceiling
          /\ g.ceiling = d.ceiling \/ g.ceiling >= 0
      BY <1>0, <1>6, <2>5, RedisGrants
    <3> HIDE DEF g
    <3>3. ceiling' = [ceiling EXCEPT ![s] = g.ceiling] /\ Answers(s, d, g.ceiling)
      BY <2>5, <3>1, <3>2 DEF Answers
    <3>4. Asks(s, d)
      BY <2>5, Zenon DEF Asks
    <3> QED BY <3>2, <3>3, <3>4
  <2>6. CASE Arbiter = "redis" /\ Redis!ArbitrateFails(KeyOf[s], d, Left(s))
             /\ Arbitrated(s, d, Left(s))
    <3> DEFINE g == grant'[KeyOf[s]]
    <3>1. ceiling' = [ceiling EXCEPT ![s] = IF g.by = "none" THEN DefaultCeiling ELSE g.ceiling]
      BY <2>6, Zenon DEF Arbitrated
    <3>2. IF ProportionalGrants(d) THEN g.by # "none" /\ g.ceiling = ProportionalCeiling(d, Left(s))
                                   ELSE g.by = "none"
      BY <1>0, <1>6, <2>6, FallbackGrants
    <3> HIDE DEF g
    <3>3. ceiling' = [ceiling EXCEPT ![s] = a]
      BY <3>1, <3>2 DEF DefaultCeiling
    <3>4. Asks(s, d)
      BY <2>6, Zenon DEF Asks
    <3> QED BY <2>3, <2>6, <3>3, <3>4 DEF Answers
  <2>7. Arbiter \in {"passthrough", "proportional", "redis"}
    BY VeronicaAssumption, Zenon
  <2>8. CASE Arbitrated(s, d, Left(s))
    <3>1. CASE Arbiter = "redis"
      <4>1. Redis!Arbitrate(KeyOf[s], d) \/ Redis!ArbitrateFails(KeyOf[s], d, Left(s))
        BY <2>8, <3>1, Zenon DEF Arbitrated
      <4> QED BY <2>5, <2>6, <2>8, <3>1, <4>1
    <3> QED BY <2>2, <2>4, <2>7, <2>8, <3>1, Zenon
  <2> QED BY <1>4, <2>1, <2>8, Zenon DEF d
<1>8. PICK answer \in Int :
        Answers(s, d, answer) /\ Asks(s, d) /\ ceiling' = [ceiling EXCEPT ![s] = answer]
  BY <1>7
<1>9. ceiling'[s] = answer
  BY <1>0, <1>8
<1>10. Planning(s, want, answer)
  BY <1>1, <1>5, <1>8, <1>9, Zenon DEF Planning, d
<1>11. effective' \in [Procs -> Int]
  BY <1>0, <1>2, <1>3 DEF plan
<1> QED BY <1>1, <1>5, <1>8, <1>10, <1>11

(* Only before_step, the settlement and Redis itself change Redis.         *)
LEMMA RedisUntouched ==
  ASSUME NEW s \in Steps, StepNext(s), ~PlanAndArbitrate(s), ~SettleAndEmit(s)
  PROVE  UNCHANGED redisVars
BY Zenon DEF StepNext, Deny, ReadAnalysis, Call, Collect, CollectTooLate,
             AnalysisFails, Account, SetBudgetContext, Commit, CommitFails

(* What a step of VeronicaOS does to Redis is a step of RedisArbiter.      *)
LEMMA RedisStep == BaseInv /\ [Next]_vars => [Redis!Next]_redisVars
<1> SUFFICES ASSUME BaseInv, [Next]_vars PROVE [Redis!Next]_redisVars
  OBVIOUS
<1>1. ASSUME NEW s \in Steps, PlanAndArbitrate(s) PROVE [Redis!Next]_redisVars
  <2>1. PICK want \in Int, answer \in Int : Planning(s, want, answer)
    BY <1>1, PlannedStep
  <2> DEFINE d == OrgClamp(want)
             b == Left(s)
             k == KeyOf[s]
  <2>2. d \in [ceiling : Int, priority : Int] /\ b \in Int /\ k \in Redis!Keys
    BY OrgClampType, LeftInt, VeronicaAssumption DEF BaseInv, Redis!Keys
  <2>3. Asks(s, d)
    BY <2>1, Zenon DEF Planning
  <2>4. (UNCHANGED redisVars) \/ Redis!Arbitrate(k, d) \/ Redis!ArbitrateFails(k, d, b)
    BY <2>3, Zenon DEF Asks
  <2> HIDE DEF d, b, k
  <2>5. Redis!Next \/ UNCHANGED redisVars
    BY <2>2, <2>4, Zenon DEF Redis!Next
  <2> QED BY <2>5
<1>2. ASSUME NEW s \in Steps, SettleAndEmit(s) PROVE [Redis!Next]_redisVars
  <2>1. cost[s] \in Nat /\ KeyOf[s] \in Redis!Keys
    BY VeronicaAssumption DEF BaseInv, IInv, SpendTypes, Redis!Keys
  <2>2. \/ UNCHANGED redisVars
        \/ Redis!Settle(KeyOf[s], cost[s])
        \/ Redis!SettleFails(KeyOf[s], cost[s])
    BY <1>2, Zenon DEF SettleAndEmit
  <2>3. Redis!Next \/ UNCHANGED redisVars
    BY <2>1, <2>2, Zenon DEF Redis!Next
  <2> QED BY <2>3
<1>3. ASSUME NEW s \in Steps, StepNext(s) PROVE [Redis!Next]_redisVars
  <2>1. CASE ~PlanAndArbitrate(s) /\ ~SettleAndEmit(s)
    <3>1. UNCHANGED redisVars
      BY <1>3, <2>1, RedisUntouched
    <3> QED BY <3>1
  <2> QED BY <1>1, <1>2, <2>1
<1>4. ASSUME NEW p \in Procs, Crash(p) PROVE [Redis!Next]_redisVars
  <2>1. UNCHANGED redisVars
    BY <1>4, Zenon DEF Crash
  <2> QED BY <2>1
<1>5. CASE RedisMoves
  <2>1. Redis!Next
    BY <1>5, Zenon DEF RedisMoves, Redis!Next, Redis!Keys
  <2> QED BY <2>1
<1>6. CASE UNCHANGED vars
  <2>1. UNCHANGED redisVars
    BY <1>6, Zenon DEF vars
  <2> QED BY <2>1
<1> QED BY <1>3, <1>4, <1>5, <1>6 DEF Next

(* The amounts stay integers, whoever moves. *)
LEMMA AmountsKept == BaseInv /\ [Next]_vars => AmountTypes'
<1> SUFFICES ASSUME BaseInv, [Next]_vars PROVE AmountTypes'
  OBVIOUS
<1> USE DEF AmountTypes
<1>0. AmountTypes
  BY DEF BaseInv
<1>1. CASE UNCHANGED <<effective, ceiling, calls, paid, crashes>>
  BY <1>0, <1>1
<1>2. ASSUME NEW s \in Steps, StepNext(s) PROVE AmountTypes'
  <2>1. CASE PlanAndArbitrate(s)
    <3>1. PICK want \in Int, answer \in Int : Planning(s, want, answer)
      BY <2>1, PlannedStep
    <3>2. ceiling' = [ceiling EXCEPT ![s] = answer]
      BY <3>1, Zenon DEF Planning
    <3>3. /\ effective' \in [Procs -> Int] /\ calls' = calls /\ paid' = paid
          /\ crashes' = crashes
      BY <2>1, PlannedStep
    <3> QED BY <1>0, <3>2, <3>3
  <2>2. CASE Deny(s)
    BY <1>0, <2>2 DEF Deny, osState
  <2>3. ASSUME NEW price \in 0..(ceiling[s] + Overshoot), Call(s, price)
        PROVE  AmountTypes'
    BY <1>0, <2>3, VeronicaAssumption DEF Call, osState
  <2>4. CASE SettleAndEmit(s)
    <3>1. UNCHANGED <<osState, ceiling, calls, paid, crashes>>
      BY <2>4, Zenon DEF SettleAndEmit
    <3> QED BY <1>1, <3>1 DEF osState
  <2>5. CASE ReadAnalysis(s) \/ Collect(s) \/ CollectTooLate(s) \/ AnalysisFails(s)
             \/ SetBudgetContext(s) \/ Commit(s) \/ CommitFails(s) \/ \E r \in Recommendations : Account(s, r)
    BY <1>1, <2>5 DEF ReadAnalysis, Collect, CollectTooLate, AnalysisFails,
                      SetBudgetContext, Commit, CommitFails, Account, osState
  <2> QED BY <1>2, <2>1, <2>2, <2>3, <2>4, <2>5 DEF StepNext
<1>3. ASSUME NEW p \in Procs, Crash(p) PROVE AmountTypes'
  BY <1>0, <1>3, VeronicaAssumption DEF Crash
<1>4. CASE RedisMoves
  <2>1. UNCHANGED <<osState, stepState, crashes>>
    BY <1>4, Zenon DEF RedisMoves
  <2> QED BY <1>1, <2>1 DEF osState, stepState
<1>5. CASE UNCHANGED vars
  BY <1>1, <1>5 DEF vars, osState, stepState
<1> QED BY <1>2, <1>3, <1>4, <1>5 DEF Next

(* Redis is empty at first, as RedisArbiter has it. *)
LEMMA RedisInit == Redis!Init <=> RedisProofs!Init
BY Zenon DEF Redis!Init, RedisProofs!Init, Redis!Keys, RedisProofs!Keys

(* The types of the amounts and of Redis hold in every reachable state.    *)
LEMMA BaseInvariance == Spec => []BaseInv
<1>1. Init => BaseInv
  <2> SUFFICES ASSUME Init PROVE BaseInv
    OBVIOUS
  <2>1. IInv
    BY InitAccounts
  <2>2. AmountTypes
    BY VeronicaAssumption DEF Init, AmountTypes
  <2>3. RedisProofs!Init
    BY RedisInit, Zenon DEF Init
  <2>4. RedisProofs!TypeInv
    BY <2>3, RedisAssumed, RedisProofs!InitTypes, Zenon
  <2> QED BY <2>1, <2>2, <2>4 DEF BaseInv
<1>2. BaseInv /\ [Next]_vars => BaseInv'
  <2> SUFFICES ASSUME BaseInv, [Next]_vars PROVE BaseInv'
    OBVIOUS
  <2>1. [RedisProofs!Next]_(RedisProofs!vars)
    BY RedisStep, SameNext
  <2>2. RedisProofs!TypeInv'
    BY <2>1, RedisAssumed, RedisProofs!NextTypes, Zenon DEF BaseInv
  <2>3. IInv' /\ AmountTypes'
    BY NextAccounts, AmountsKept DEF BaseInv
  <2> QED BY <2>2, <2>3, Zenon DEF BaseInv
<1> QED BY <1>1, <1>2, PTL DEF Spec

(* Whatever the processes of VeronicaOS do to the shared budget, crash or  *)
(* fail, RedisArbiter allows: an answer that comes too late, a settlement  *)
(* that is lost, a step that is never settled (before_step, after_step).   *)
THEOREM OSImplementsRedis == Spec => Redis!Spec
<1>1. Init => Redis!Init
  BY DEF Init
<1>2. BaseInv /\ [Next]_vars => [Redis!Next]_(Redis!vars)
  BY RedisStep DEF Redis!vars, redisVars
<1> QED BY <1>1, <1>2, BaseInvariance, PTL DEF Spec, Redis!Spec

-----------------------------------------------------------------------------
(* The kinds of steps, as far as stages and amounts go.                    *)

money == <<totalSpent, chainSpent, calls, paid, last>>

\* A step begins: it is to be planned, or denied and has a ceiling of zero.
Opens(s) ==
  /\ CanBegin(s)
  /\ \/ Advance(s, "idle", "seen") /\ ceiling' = ceiling
     \/ Advance(s, "idle", "running") /\ ceiling' = [ceiling EXCEPT ![s] = 0]
  /\ UNCHANGED <<money, cost>>
Plans(s) ==
  /\ \E want \in Int, answer \in Int : Planning(s, want, answer)
  /\ UNCHANGED <<money, cost>>
Pays(s) == \E price \in 0..(ceiling[s] + Overshoot) : Call(s, price)
\* after_step is left before the cost is counted.
Drops(s) ==
  /\ pc[s] \in {"running", "collected"}
  /\ pc' = [pc EXCEPT ![s] = "dropped"]
  /\ UNCHANGED <<money, cost, ceiling>>
Accounts(s) == \E r \in Recommendations : Account(s, r)
\* A step that was accounted for goes on to its end.
Closes(s) ==
  /\ pc[s] \in {"accounted", "ready", "committed"}
  /\ \E to \in {"ready", "committed", "failed", "done"} : pc' = [pc EXCEPT ![s] = to]
  /\ UNCHANGED <<money, cost, ceiling>>

Rests == UNCHANGED <<money, cost, ceiling, pc>>

(* Every part of step() is of one kind. *)
LEMMA StepKinds ==
  ASSUME BaseInv, NEW s \in Steps, StepNext(s)
  PROVE  Opens(s) \/ Plans(s) \/ Pays(s) \/ Collect(s) \/ Drops(s) \/ Accounts(s)
         \/ Closes(s)
<1> USE DEF Advance, money, osState
<1>1. CASE Deny(s) \/ ReadAnalysis(s)
  BY <1>1 DEF Deny, ReadAnalysis, Opens
<1>2. CASE PlanAndArbitrate(s)
  <2>1. \E want \in Int, answer \in Int : Planning(s, want, answer)
    BY <1>2, PlannedStep
  <2>2. UNCHANGED <<totalSpent, chainSpent, store, calls, paid, last, cost, crashes>>
    BY <1>2, PlannedStep
  <2> QED BY <2>1, <2>2, Zenon DEF Plans
<1>3. CASE CollectTooLate(s) \/ AnalysisFails(s)
  BY <1>3 DEF CollectTooLate, AnalysisFails, Drops
<1>4. CASE SetBudgetContext(s) \/ Commit(s) \/ CommitFails(s)
  BY <1>4 DEF SetBudgetContext, Commit, CommitFails, Closes
<1>5. CASE SettleAndEmit(s)
  <2>1. pc[s] = "committed" /\ pc' = [pc EXCEPT ![s] = "done"]
        /\ UNCHANGED <<money, cost, ceiling>>
    BY <1>5, Zenon DEF SettleAndEmit
  <2> QED BY <2>1 DEF Closes
<1> QED BY <1>1, <1>2, <1>3, <1>4, <1>5 DEF StepNext, Pays, Accounts

(* So is every step of the system, unless a process crashes. *)
LEMMA NextKinds ==
  ASSUME BaseInv, [Next]_vars
  PROVE  \/ \E s \in Steps : StepNext(s)
         \/ \E p \in Procs : Crash(p)
         \/ Rests
<1>1. CASE RedisMoves
  BY <1>1, Zenon DEF RedisMoves, Rests, money, osState, stepState
<1>2. CASE UNCHANGED vars
  BY <1>2, Zenon DEF vars, Rests, money, osState, stepState
<1> QED BY <1>1, <1>2 DEF Next

-----------------------------------------------------------------------------
(* The cap of the organisation. *)

\* An arbiter that raises no ceiling past the cap, and always answers.
OrgCapIsReal ==
  /\ OrgCeiling >= 0
  /\ Arbiter = "passthrough" \/ (MinAllocation <= OrgCeiling /\ OrgPriority > 0)

(* No answer is above the cap.  *)
LEMMA AnswerCapped ==
  ASSUME OrgCapIsReal, IInv, NEW s \in Steps, NEW want \in Int, NEW answer \in Int,
         Answers(s, OrgClamp(want), answer)
  PROVE  answer <= OrgCeiling
<1> DEFINE d == OrgClamp(want)
<1>1. d.ceiling \in Int /\ d.ceiling <= OrgCeiling /\ (OrgPriority > 0 => ProportionalGrants(d))
  BY OrgClampType
<1>2. Left(s) \in Int /\ OrgCeiling \in Int /\ MinAllocation \in Int
  BY LeftInt, VeronicaAssumption
<1>3. Answers(s, d, answer)
  OBVIOUS
<1> HIDE DEF d
<1> QED
  BY <1>1, <1>2, <1>3 DEF OrgCapIsReal, Answers, PassthroughCeiling, ProportionalCeiling

(* Only before_step sets a ceiling: zero for a step that the policy denies. *)
LEMMA OrgCapKept ==
  ASSUME OrgCapIsReal, BaseInv, OrgCapHolds, [Next]_vars
  PROVE  OrgCapHolds'
<1> USE DEF OrgCapHolds
<1>0. /\ pc \in [Steps -> Stages] /\ ceiling \in [Steps -> Int] /\ OrgCeiling \in Int
      /\ OrgCeiling >= 0
  BY StageType, VeronicaAssumption DEF BaseInv, AmountTypes, OrgCapIsReal
<1>1. ASSUME NEW s \in Steps, Plans(s) PROVE OrgCapHolds'
  <2>1. PICK want \in Int, answer \in Int : Planning(s, want, answer)
    BY <1>1 DEF Plans
  <2>2. answer <= OrgCeiling
    BY <2>1, AnswerCapped DEF BaseInv, Planning
  <2>3. /\ ceiling' = [ceiling EXCEPT ![s] = answer]
        /\ pc' = [pc EXCEPT ![s] = IF answer < 0 THEN "rejected" ELSE "running"]
    BY <2>1, Zenon DEF Planning
  <2> QED BY <1>0, <2>2, <2>3
<1>2. ASSUME NEW s \in Steps, Opens(s) PROVE OrgCapHolds'
  BY <1>0, <1>2 DEF Opens, Advance
<1>3. ASSUME NEW s \in Steps, Pays(s) \/ Collect(s) \/ Drops(s) \/ Accounts(s) \/ Closes(s)
      PROVE OrgCapHolds'
  BY <1>0, <1>3 DEF Pays, Call, Collect, Drops, Accounts, Account, Closes, Advance
<1>4. ASSUME NEW p \in Procs, Crash(p) PROVE OrgCapHolds'
  BY <1>0, <1>4 DEF Crash
<1>5. CASE Rests
  BY <1>5 DEF Rests
<1> QED BY <1>1, <1>2, <1>3, <1>4, <1>5, NextKinds, StepKinds

(* No step runs with a ceiling above the one the organisation sets, with   *)
(* any arbiter, in time or too late, as long as the minimum allocation is  *)
(* no larger and the priority positive: an arbiter that leaves the chain   *)
(* out makes before_step fall back to a fixed ceiling (OrgPolicy.clamp).   *)
THEOREM OSOrgCapHolds == ASSUME OrgCapIsReal PROVE Spec => []OrgCapHolds
<1>1. Init => OrgCapHolds
  BY DEF Init, OrgCapHolds
<1>2. BaseInv /\ OrgCapHolds /\ [Next]_vars => OrgCapHolds'
  BY OrgCapKept
<1> QED BY <1>1, <1>2, BaseInvariance, PTL DEF Spec

-----------------------------------------------------------------------------
(* What steps pay.                                                         *)

\* What a step may pay under its ceiling: nothing under one of zero.
Room(c) == IF c <= 0 THEN 0 ELSE c + Overshoot

\* A step pays within its ceiling and the overshoot of its last call, and what
\* is collected of it was paid.
PaidWithin ==
  \A s \in Steps :
    /\ last[s] <= paid[s]
    /\ pc[s] \in {"idle", "seen"} => paid[s] = 0
    /\ pc[s] \in {"running", "collected"} =>
         ceiling[s] >= 0 /\ paid[s] <= Room(ceiling[s])
    /\ pc[s] = "collected" => cost[s] <= paid[s]

PayInv == BaseInv /\ PaidWithin

(* veronica-core halts a step at its ceiling, so a step pays no more than  *)
(* one call past it, and the last of its calls costs no more than it paid  *)
(* (collector).                                                            *)
LEMMA PaidKept == ASSUME PayInv, [Next]_vars PROVE PaidWithin'
<1>0. /\ pc \in [Steps -> Stages] /\ ceiling \in [Steps -> Int]
      /\ paid \in [Steps -> Nat] /\ last \in [Steps -> Nat] /\ cost \in [Steps -> Nat]
      /\ PaidWithin /\ Overshoot \in Nat
  BY VeronicaAssumption DEF PayInv, BaseInv, IInv, SpendTypes, AmountTypes
<1> USE DEF PaidWithin, Room
<1>1. ASSUME NEW s \in Steps, Opens(s) PROVE PaidWithin'
  BY <1>0, <1>1 DEF Opens, Advance, money
<1>2. ASSUME NEW s \in Steps, Plans(s) PROVE PaidWithin'
  <2>1. PICK want \in Int, answer \in Int : Planning(s, want, answer)
    BY <1>2 DEF Plans
  <2>2. /\ ceiling' = [ceiling EXCEPT ![s] = answer] /\ pc[s] = "seen"
        /\ pc' = [pc EXCEPT ![s] = IF answer < 0 THEN "rejected" ELSE "running"]
    BY <2>1, Zenon DEF Planning
  <2>3. UNCHANGED <<paid, last, cost>>
    BY <1>2, Zenon DEF Plans, money
  <2> QED BY <1>0, <2>2, <2>3
<1>3. ASSUME NEW s \in Steps, NEW price \in 0..(ceiling[s] + Overshoot), Call(s, price)
      PROVE PaidWithin'
  BY <1>0, <1>3 DEF Call
<1>4. ASSUME NEW s \in Steps, Collect(s) PROVE PaidWithin'
  BY <1>0, <1>4 DEF Collect, Advance
<1>5. ASSUME NEW s \in Steps, Drops(s) \/ Accounts(s) \/ Closes(s) PROVE PaidWithin'
  BY <1>0, <1>5 DEF Drops, Accounts, Account, Closes, Advance, money
<1>6. ASSUME NEW p \in Procs, Crash(p) PROVE PaidWithin'
  BY <1>0, <1>6 DEF Crash
<1>7. CASE Rests
  BY <1>0, <1>7 DEF Rests, money
<1> QED BY <1>1, <1>2, <1>3, <1>4, <1>5, <1>6, <1>7, NextKinds, StepKinds DEF PayInv, Pays

(* A step pays within its ceiling in every reachable state.                *)
LEMMA PayInvariance == Spec => []PayInv
<1>1. Init => PaidWithin
  BY DEF Init, PaidWithin
<1>2. PayInv /\ [Next]_vars => PaidWithin'
  BY PaidKept
<1> QED BY <1>1, <1>2, BaseInvariance, PTL DEF Spec, PayInv

-----------------------------------------------------------------------------
(* Steps at a time. *)

ThreadsInv == \A p \in Procs : Cardinality(InFlight(p)) <= Threads

(* The steps of a process in flight are finitely many. *)
LEMMA FlyingFinite ==
  ASSUME NEW p
  PROVE  IsFiniteSet(InFlight(p)) /\ Cardinality(InFlight(p)) \in Nat
<1>1. IsFiniteSet(1..NSteps)
  BY Numbers, FS_Interval
<1>2. InFlight(p) \in SUBSET (1..NSteps)
  BY DEF InFlight, Steps
<1>3. IsFiniteSet(InFlight(p))
  BY <1>1, <1>2, FS_Subset
<1> QED BY <1>3, FS_CardinalityType

(* Fewer steps are within the bound if more are. *)
LEMMA FewerFly ==
  ASSUME NEW p \in Procs, NEW T, T \subseteq InFlight(p), ThreadsInv
  PROVE  Cardinality(T) <= Threads
<1>1. IsFiniteSet(InFlight(p)) /\ T \in SUBSET InFlight(p)
  BY FlyingFinite
<1>2. Cardinality(T) <= Cardinality(InFlight(p)) /\ Cardinality(T) \in Nat
  BY <1>1, FS_Subset, FS_CardinalityType
<1>3. Cardinality(InFlight(p)) <= Threads /\ Cardinality(InFlight(p)) \in Nat /\ Threads \in Nat
  BY FlyingFinite, VeronicaAssumption DEF ThreadsInv
<1> QED BY <1>2, <1>3

(* A step begins only when a thread is free, and no other event puts one   *)
(* in flight.                                                              *)
LEMMA ThreadsKept == ASSUME BaseInv, ThreadsInv, [Next]_vars PROVE ThreadsInv'
<1>0. pc \in [Steps -> Stages] /\ ProcOf \in [Steps -> Procs] /\ Threads \in Nat
  BY StageType, VeronicaAssumption DEF BaseInv
<1>1. ASSUME \A t \in Steps : Flying(t)' => Flying(t)
      PROVE  ThreadsInv'
  <2> SUFFICES ASSUME NEW p \in Procs PROVE Cardinality(InFlight(p)') <= Threads
    BY DEF ThreadsInv
  <2>1. InFlight(p)' \subseteq InFlight(p)
    BY <1>1 DEF InFlight, Flying
  <2> QED BY <2>1, FewerFly
<1>2. ASSUME NEW s \in Steps, Opens(s) PROVE ThreadsInv'
  <2>1. \A t \in Steps : Flying(t)' => Flying(t) \/ t = s
    BY <1>0, <1>2 DEF Opens, Advance, Flying, Stages, Ended
  <2> SUFFICES ASSUME NEW p \in Procs PROVE Cardinality(InFlight(p)') <= Threads
    BY DEF ThreadsInv
  <2>2. CASE p = ProcOf[s]
    <3>1. Cardinality(InFlight(p)) < Threads
      BY <1>2, <2>2 DEF Opens, CanBegin
    <3>2. IsFiniteSet(InFlight(p)) /\ Cardinality(InFlight(p)) \in Nat
      BY FlyingFinite
    <3> DEFINE T == InFlight(p) \cup {s}
    <3>3. IsFiniteSet(T) /\ Cardinality(T) <= Cardinality(InFlight(p)) + 1
          /\ Cardinality(T) \in Nat
      <4>1. /\ IsFiniteSet(T)
            /\ Cardinality(T) = Cardinality(InFlight(p))
               \/ Cardinality(T) = Cardinality(InFlight(p)) + 1
        BY <3>2, FS_AddElement, Zenon
      <4>2. Cardinality(T) \in Nat
        BY <4>1, FS_CardinalityType
      <4> QED BY <3>2, <4>1, <4>2
    <3>4. InFlight(p)' \subseteq T
      BY <2>1 DEF InFlight, Flying
    <3> DEFINE U == InFlight(p)'
    <3>5. U \in SUBSET T
      BY <3>4
    <3> HIDE DEF T, U
    <3>6. IsFiniteSet(U) /\ Cardinality(U) <= Cardinality(T)
      BY <3>3, <3>5, FS_Subset
    <3>7. Cardinality(U) \in Nat
      BY <3>6, FS_CardinalityType
    <3>8. Cardinality(U) <= Threads
      BY <1>0, <3>1, <3>2, <3>3, <3>6, <3>7
    <3> QED BY <3>8 DEF U
  <2>3. CASE p # ProcOf[s]
    <3>1. InFlight(p)' \subseteq InFlight(p)
      BY <2>1, <2>3 DEF InFlight, Flying
    <3> QED BY <3>1, FewerFly
  <2> QED BY <2>2, <2>3
<1>3. ASSUME NEW s \in Steps, Plans(s) PROVE ThreadsInv'
  <2>1. PICK want \in Int, answer \in Int : Planning(s, want, answer)
    BY <1>3 DEF Plans
  <2>2. /\ pc[s] = "seen"
        /\ pc' = [pc EXCEPT ![s] = IF answer < 0 THEN "rejected" ELSE "running"]
    BY <2>1, Zenon DEF Planning
  <2> QED BY <1>0, <1>1, <2>2 DEF Flying, Ended
<1>4. ASSUME NEW s \in Steps, Pays(s) \/ Collect(s) \/ Drops(s) \/ Accounts(s) \/ Closes(s)
      PROVE ThreadsInv'
  <2>1. \A t \in Steps : Flying(t)' => Flying(t)
    BY <1>0, <1>4 DEF Pays, Call, Collect, Drops, Accounts, Account, Closes, Advance,
                      Flying, Ended
  <2> QED BY <1>1, <2>1
<1>5. ASSUME NEW p \in Procs, Crash(p) PROVE ThreadsInv'
  <2>1. \A t \in Steps : Flying(t)' => Flying(t)
    BY <1>0, <1>5 DEF Crash, Flying, Ended
  <2> QED BY <1>1, <2>1
<1>6. CASE Rests
  BY <1>1, <1>6 DEF Rests, Flying
<1> QED BY <1>2, <1>3, <1>4, <1>5, <1>6, NextKinds, StepKinds

-----------------------------------------------------------------------------
(* Overrun. *)

\* A local arbiter in time, which never answers more than is left.
InBudget ==
  /\ Threads >= 1
  /\ "arbiter" \notin MayTimeOut
  /\ Arbiter = "passthrough" \/ (Arbiter = "proportional" /\ OrgPriority > 0)

\* What may be paid under the ceilings that are outstanding.
Hot(p) == [s \in Steps |-> IF s \in Outstanding(p) THEN Room(ceiling[s]) ELSE 0]

\* No step may pay more than M.
RoomsWithin(M) ==
  \A s \in Steps : pc[s] \in {"running", "collected"} => Room(ceiling[s]) <= M

Overrun(M) ==
  \A p \in Procs :
    totalSpent[p] + SumTo(Hot(p), NSteps) <= Budget + Overshoot + (Threads - 1) * M

(* What may be paid is a natural number.                                   *)
LEMMA HotType == ASSUME PayInv, NEW p PROVE Hot(p) \in [1..NSteps -> Nat]
<1>1. \A s \in Steps : s \in Outstanding(p) => Room(ceiling[s]) \in Nat
  BY VeronicaAssumption DEF PayInv, PaidWithin, BaseInv, AmountTypes, Outstanding, Room
<1> QED BY <1>1 DEF Hot, Steps

(* The stage and the ceiling of one step change one of the terms.          *)
LEMMA HotUpdate ==
  ASSUME PayInv, NEW s \in Steps, NEW to, NEW c \in Int, NEW p,
         pc' = [pc EXCEPT ![s] = to], ceiling' = [ceiling EXCEPT ![s] = c]
  PROVE  SumTo(Hot(p)', NSteps) = SumTo(Hot(p), NSteps) - Hot(p)[s]
           + (IF ProcOf[s] = p /\ to \in {"running", "collected"} THEN Room(c) ELSE 0)
<1> DEFINE v == IF ProcOf[s] = p /\ to \in {"running", "collected"} THEN Room(c) ELSE 0
<1>0. pc \in [Steps -> Stages] /\ ceiling \in [Steps -> Int]
  BY StageType DEF PayInv, BaseInv, AmountTypes
<1>1. v \in Int
  BY VeronicaAssumption DEF Room
<1>2. \A t \in Steps : pc'[t] = IF t = s THEN to ELSE pc[t]
  BY <1>0
<1>3. \A t \in Steps : ceiling'[t] = IF t = s THEN c ELSE ceiling[t]
  BY <1>0
<1>4. \A t \in Steps : (IF t \in Outstanding(p)' THEN Room(ceiling'[t]) ELSE 0)
                        = IF t = s THEN v ELSE Hot(p)[t]
  BY <1>2, <1>3 DEF Outstanding, Hot
<1>5. Hot(p)' = [Hot(p) EXCEPT ![s] = v]
  BY <1>4 DEF Hot, Room
<1> HIDE DEF v
<1>6. Hot(p) \in [1..NSteps -> Int] /\ s \in 1..NSteps /\ NSteps \in Nat
  BY HotType, Numbers DEF Steps
<1>7. SumTo([Hot(p) EXCEPT ![s] = v], NSteps) = SumTo(Hot(p), NSteps) - Hot(p)[s] + v
  BY <1>1, <1>6, SumUpdate
<1> QED BY <1>5, <1>7 DEF v

(* When a step is to be planned, all but one thread of its process may     *)
(* have a ceiling outstanding.                                             *)
LEMMA FewHot ==
  ASSUME PayInv, ThreadsInv, Threads >= 1, NEW M \in Nat,
         RoomsWithin(M), NEW s \in Steps, pc[s] = "seen"
  PROVE  SumTo(Hot(ProcOf[s]), NSteps) <= (Threads - 1) * M
<1> DEFINE p == ProcOf[s]
           T == Outstanding(p)
<1>0. p \in Procs /\ Threads \in Nat /\ NSteps \in Nat
  BY VeronicaAssumption
<1>1. T \cup {s} \subseteq InFlight(p) /\ s \notin T /\ T \in SUBSET (1..NSteps)
  BY DEF Outstanding, InFlight, Ended, Steps
<1>2. Cardinality(T \cup {s}) <= Threads
  <2> HIDE DEF T, p
  <2> QED BY <1>0, <1>1, FewerFly
<1>3. IsFiniteSet(T) /\ Cardinality(T) \in Nat
  <2>1. T \in SUBSET InFlight(p)
    BY <1>1
  <2> HIDE DEF T, p
  <2> QED BY <2>1, FlyingFinite, FS_Subset, FS_CardinalityType
<1>4. Cardinality(T \cup {s}) = Cardinality(T) + 1
  BY <1>1, <1>3, FS_AddElement
<1>5. Cardinality(T) <= Threads - 1
  BY <1>0, <1>2, <1>3, <1>4
<1>6. \A t \in T : Hot(p)[t] <= M
  BY DEF RoomsWithin, Hot, Outstanding
<1>7. \A t \in 1..NSteps : t \notin T => Hot(p)[t] = 0
  BY DEF Hot, Steps
<1>8. SumTo(Hot(p), NSteps) <= Cardinality(T) * M
  <2>1. Hot(p) \in [1..NSteps -> Nat]
    BY HotType
  <2> HIDE DEF T, p
  <2> DEFINE f == Hot(p)
  <2>2. /\ f \in [1..NSteps -> Nat] /\ \A t \in T : f[t] <= M
        /\ \A t \in 1..NSteps : t \notin T => f[t] = 0
    BY <1>6, <1>7, <2>1
  <2> HIDE DEF f
  <2>3. SumTo(f, NSteps) <= Cardinality(T) * M
    BY <1>0, <1>1, <2>2, SumOfFew
  <2> QED BY <2>3 DEF f
<1>9. Cardinality(T) * M <= (Threads - 1) * M
  <2> DEFINE a == Cardinality(T)
             b == Threads - 1
  <2>1. a \in Nat /\ b \in Nat /\ a <= b
    BY <1>0, <1>3, <1>5
  <2> HIDE DEF a, b
  <2>2. a * M <= b * M
    BY <2>1
  <2> QED BY <2>2 DEF a, b
<1>10. SumTo(Hot(p), NSteps) \in Int /\ Cardinality(T) * M \in Int /\ (Threads - 1) * M \in Int
  <2>1. SumTo(Hot(p), NSteps) \in Int
    BY <1>0, HotType, SumIsNat
  <2>2. Cardinality(T) * M \in Int /\ (Threads - 1) * M \in Int
    BY <1>0, <1>3
  <2> QED BY <2>1, <2>2
<1> QED BY <1>8, <1>9, <1>10

(* A local arbiter answers within what is left, or with zero.              *)
LEMMA AnswerInBudget ==
  ASSUME InBudget, IInv, NEW s \in Steps, NEW want \in Int, NEW answer \in Int,
         Answers(s, OrgClamp(want), answer)
  PROVE  answer <= Left(s) \/ answer <= 0
<1> DEFINE d == OrgClamp(want)
<1>1. d.ceiling \in Int /\ (OrgPriority > 0 => ProportionalGrants(d))
  BY OrgClampType
<1>2. Left(s) \in Int /\ MinAllocation \in Int
  BY LeftInt, VeronicaAssumption
<1>3. Answers(s, d, answer)
  OBVIOUS
<1> HIDE DEF d
<1> QED
  BY <1>1, <1>2, <1>3 DEF InBudget, Answers, PassthroughCeiling, ProportionalCeiling

\* What the overrun depends on.
OverrunInv(M) == PayInv /\ ThreadsInv /\ Overrun(M) /\ RoomsWithin(M)

(* The overrun stays bounded: a planned step fits in what is left, and     *)
(* what the others may still spend are the ceilings of the other threads.  *)
LEMMA OverrunKept ==
  ASSUME InBudget, NEW M \in Nat, OverrunInv(M), [Next]_vars
  PROVE  Overrun(M)'
<1> DEFINE Limit == Budget + Overshoot + (Threads - 1) * M
<1>0. /\ pc \in [Steps -> Stages] /\ ceiling \in [Steps -> Int]
      /\ totalSpent \in [Procs -> Nat] /\ cost \in [Steps -> Nat] /\ paid \in [Steps -> Nat]
      /\ ProcOf \in [Steps -> Procs] /\ NSteps \in Nat /\ Threads \in Nat /\ Budget \in Nat
      /\ Overshoot \in Nat /\ RoomsWithin(M)
      /\ PayInv /\ ThreadsInv /\ PaidWithin /\ BaseInv /\ IInv /\ Threads >= 1
  BY VeronicaAssumption
     DEF OverrunInv, PayInv, BaseInv, IInv, SpendTypes, AmountTypes, InBudget
<1>1. Limit \in Int /\ (Threads - 1) * M >= 0 /\ Limit >= 0
  <2> DEFINE t == Threads - 1
  <2>1. t \in Nat
    BY <1>0
  <2> HIDE DEF t
  <2>2. t * M \in Nat
    BY <2>1
  <2>3. (Threads - 1) * M \in Nat
    BY <2>2 DEF t
  <2> QED BY <1>0, <2>3
<1> HIDE DEF Limit
<1>2. \A p \in Procs : /\ SumTo(Hot(p), NSteps) \in Nat /\ totalSpent[p] \in Nat
                       /\ totalSpent[p] + SumTo(Hot(p), NSteps) <= Limit
  BY <1>0, HotType, SumIsNat DEF OverrunInv, Overrun, Limit
<1>3. ASSUME \A p \in Procs : totalSpent'[p] + SumTo(Hot(p)', NSteps) <= Limit
      PROVE  Overrun(M)'
  BY <1>3 DEF Overrun, Limit
<1>4. ASSUME totalSpent' = totalSpent, NEW s \in Steps, NEW to, NEW c \in Int,
             pc' = [pc EXCEPT ![s] = to], ceiling' = [ceiling EXCEPT ![s] = c],
             \/ to \notin {"running", "collected"}
             \/ c <= 0
             \/ pc[s] \in {"running", "collected"} /\ c = ceiling[s]
      PROVE  Overrun(M)'
  <2> SUFFICES ASSUME NEW p \in Procs
               PROVE  totalSpent'[p] + SumTo(Hot(p)', NSteps) <= Limit
    BY <1>3
  <2> DEFINE v == IF ProcOf[s] = p /\ to \in {"running", "collected"} THEN Room(c) ELSE 0
  <2>1. SumTo(Hot(p)', NSteps) = SumTo(Hot(p), NSteps) - Hot(p)[s] + v
    BY <1>0, <1>4, HotUpdate
  <2>2. Hot(p)[s] \in Nat
    BY <1>0, HotType DEF Steps
  <2>3. v \in Int /\ v <= Hot(p)[s]
    BY <1>0, <1>4, <2>2 DEF Hot, Outstanding, Room
  <2> HIDE DEF v
  <2>4. SumTo(Hot(p)', NSteps) <= SumTo(Hot(p), NSteps)
    BY <1>2, <2>1, <2>2, <2>3
  <2>5. SumTo(Hot(p)', NSteps) \in Int
    BY <1>2, <2>1, <2>2, <2>3
  <2> QED BY <1>1, <1>2, <1>4, <2>4, <2>5
<1>5. ASSUME NEW s \in Steps, Plans(s) PROVE Overrun(M)'
  <2>1. PICK want \in Int, answer \in Int : Planning(s, want, answer)
    BY <1>5 DEF Plans
  <2>2. totalSpent' = totalSpent
    BY <1>5, Zenon DEF Plans, money
  <2>3. /\ ceiling' = [ceiling EXCEPT ![s] = answer] /\ pc[s] = "seen"
        /\ pc' = [pc EXCEPT ![s] = IF answer < 0 THEN "rejected" ELSE "running"]
    BY <2>1, Zenon DEF Planning
  <2>4. answer <= Left(s) \/ answer <= 0
    BY <1>0, <2>1, AnswerInBudget DEF Planning
  <2>5. CASE answer <= 0
    <3> QED BY <1>4, <2>2, <2>3, <2>5
  <2>6. CASE answer > 0
    <3>1. pc' = [pc EXCEPT ![s] = "running"]
      <4>1. ~(answer < 0)
        BY <2>6
      <4> QED BY <2>3, <4>1, Zenon
    <3> SUFFICES ASSUME NEW p \in Procs
                 PROVE  totalSpent'[p] + SumTo(Hot(p)', NSteps) <= Limit
      BY <1>3
    <3>2. Hot(p)[s] = 0
      BY <2>3 DEF Hot, Outstanding
    <3>3. SumTo(Hot(p)', NSteps) = SumTo(Hot(p), NSteps) - Hot(p)[s]
            + (IF ProcOf[s] = p /\ "running" \in {"running", "collected"}
                 THEN Room(answer) ELSE 0)
      BY <1>0, <2>3, <3>1, HotUpdate
    <3>4. CASE ProcOf[s] = p
      <4>1. SumTo(Hot(p)', NSteps) = SumTo(Hot(p), NSteps) + answer + Overshoot
        BY <1>0, <1>2, <2>6, <3>2, <3>3, <3>4 DEF Room
      <4>2. SumTo(Hot(p), NSteps) <= (Threads - 1) * M
        BY <1>0, <2>3, <3>4, FewHot
      <4>3. totalSpent[p] + answer <= Budget
        BY <1>0, <2>4, <2>6, <3>4, LeftInt DEF Left
      <4>4. (Threads - 1) * M \in Int
        BY <1>0
      <4> HIDE DEF Limit
      <4> DEFINE x == (Threads - 1) * M
      <4>5. Limit = Budget + Overshoot + x /\ x \in Int /\ SumTo(Hot(p), NSteps) <= x
        BY <4>2, <4>4 DEF Limit
      <4> HIDE DEF x
      <4> QED BY <1>0, <1>2, <2>2, <4>1, <4>3, <4>5
    <3>5. CASE ProcOf[s] # p
      <4>1. SumTo(Hot(p)', NSteps) = SumTo(Hot(p), NSteps)
        BY <1>2, <3>2, <3>3, <3>5
      <4> QED BY <1>2, <2>2, <4>1
    <3> QED BY <3>4, <3>5
  <2> QED BY <2>5, <2>6
<1>6. ASSUME NEW s \in Steps, Opens(s) PROVE Overrun(M)'
  <2>1. CASE Advance(s, "idle", "seen") /\ ceiling' = ceiling
    <3>1. /\ pc' = [pc EXCEPT ![s] = "seen"] /\ ceiling' = [ceiling EXCEPT ![s] = ceiling[s]]
          /\ ceiling[s] \in Int /\ totalSpent' = totalSpent
      BY <1>0, <1>6, <2>1 DEF Opens, Advance, money
    <3> QED BY <1>4, <3>1
  <2>2. CASE Advance(s, "idle", "running") /\ ceiling' = [ceiling EXCEPT ![s] = 0]
    <3>1. pc' = [pc EXCEPT ![s] = "running"] /\ totalSpent' = totalSpent
      BY <1>6, <2>2 DEF Opens, Advance, money
    <3> DEFINE c == 0
    <3>2. c \in Int /\ c <= 0 /\ ceiling' = [ceiling EXCEPT ![s] = c]
      BY <2>2
    <3> HIDE DEF c
    <3> QED BY <1>4, <3>1, <3>2
  <2> QED BY <1>6, <2>1, <2>2 DEF Opens
<1>7. ASSUME NEW s \in Steps, Collect(s) \/ Drops(s) \/ Closes(s) PROVE Overrun(M)'
  <2>1. ceiling' = [ceiling EXCEPT ![s] = ceiling[s]] /\ ceiling[s] \in Int
        /\ totalSpent' = totalSpent
    BY <1>0, <1>7 DEF Collect, Drops, Closes, money, osState
  <2>2. \/ pc[s] \in {"running", "collected"} /\ pc' = [pc EXCEPT ![s] = "collected"]
        \/ \E to : to \notin {"running", "collected"} /\ pc' = [pc EXCEPT ![s] = to]
    BY <1>7 DEF Collect, Drops, Closes, Advance
  <2> QED BY <1>4, <2>1, <2>2
<1>8. ASSUME NEW s \in Steps, Accounts(s) PROVE Overrun(M)'
  <2>1. PICK r : Account(s, r)
    BY <1>8 DEF Accounts
  <2>2. /\ pc[s] = "collected" /\ pc' = [pc EXCEPT ![s] = "accounted"]
        /\ ceiling' = [ceiling EXCEPT ![s] = ceiling[s]] /\ ceiling[s] \in Int
        /\ totalSpent' = [totalSpent EXCEPT ![ProcOf[s]] = totalSpent[ProcOf[s]] + cost[s]]
    BY <1>0, <2>1 DEF Account, Advance
  <2>3. cost[s] \in Nat /\ cost[s] <= Room(ceiling[s]) /\ Room(ceiling[s]) \in Int
    BY <1>0, <2>2 DEF PaidWithin, Room
  <2> SUFFICES ASSUME NEW p \in Procs
               PROVE  totalSpent'[p] + SumTo(Hot(p)', NSteps) <= Limit
    BY <1>3
  <2>4. SumTo(Hot(p)', NSteps) = SumTo(Hot(p), NSteps) - Hot(p)[s]
          + (IF ProcOf[s] = p /\ "accounted" \in {"running", "collected"}
               THEN Room(ceiling[s]) ELSE 0)
    BY <1>0, <2>2, HotUpdate
  <2>5. SumTo(Hot(p)', NSteps) = SumTo(Hot(p), NSteps) - Hot(p)[s] /\ Hot(p)[s] \in Nat
    <3>1. Hot(p)[s] \in Nat
      BY <1>0, HotType DEF Steps
    <3> QED BY <1>2, <2>4, <3>1
  <2>6. CASE ProcOf[s] = p
    <3>1. Hot(p)[s] = Room(ceiling[s])
      BY <2>2, <2>6 DEF Hot, Outstanding
    <3>2. totalSpent'[p] = totalSpent[p] + cost[s]
      BY <1>0, <2>2, <2>6
    <3> QED BY <1>1, <1>2, <2>2, <2>3, <2>5, <3>1, <3>2
  <2>7. CASE ProcOf[s] # p
    <3>1. totalSpent'[p] = totalSpent[p]
      BY <1>0, <2>2, <2>7
    <3> QED BY <1>1, <1>2, <2>5, <3>1
  <2> QED BY <2>6, <2>7
<1>9. ASSUME \A p \in Procs : Hot(p)' = Hot(p), totalSpent' = totalSpent
      PROVE  Overrun(M)'
  BY <1>2, <1>3, <1>9
<1>10. ASSUME NEW s \in Steps, Pays(s) PROVE Overrun(M)'
  <2>1. UNCHANGED <<pc, ceiling, totalSpent>>
    BY <1>10 DEF Pays, Call, osState
  <2> QED BY <1>9, <2>1 DEF Hot, Outstanding
<1>11. CASE Rests
  BY <1>9, <1>11 DEF Rests, money, Hot, Outstanding
<1>12. ASSUME NEW q \in Procs, Crash(q) PROVE Overrun(M)'
  <2>1. /\ pc' = [s \in Steps |-> IF ProcOf[s] = q /\ pc[s] # "idle" THEN "gone" ELSE pc[s]]
        /\ totalSpent' = [totalSpent EXCEPT ![q] = 0] /\ ceiling' = ceiling
    BY <1>12 DEF Crash
  <2> SUFFICES ASSUME NEW p \in Procs
               PROVE  totalSpent'[p] + SumTo(Hot(p)', NSteps) <= Limit
    BY <1>3
  <2>2. CASE p = q
    <3>1. Hot(p)' \in [1..NSteps -> {0}] /\ totalSpent'[p] = 0
      BY <1>0, <2>1, <2>2 DEF Hot, Outstanding, Steps
    <3>2. SumTo(Hot(p)', NSteps) = 0
      BY <1>0, <3>1, SumOfZeros
    <3> QED BY <1>1, <3>1, <3>2
  <2>3. CASE p # q
    <3>1. Hot(p)' = Hot(p) /\ totalSpent'[p] = totalSpent[p]
      BY <1>0, <2>1, <2>3 DEF Hot, Outstanding
    <3> QED BY <1>2, <3>1
  <2> QED BY <2>2, <2>3
<1> QED BY <1>0, <1>5, <1>6, <1>7, <1>8, <1>10, <1>11, <1>12, NextKinds, StepKinds

\* The default ceilings and the minimum allocation are no larger than the
\* maximum of the planner.
Moderate ==
  /\ MaxCeiling >= 0
  /\ Arbiter = "proportional" => MinAllocation <= MaxCeiling
  /\ "planner" \in MayTimeOut => Dollar <= MaxCeiling

(* No answer of a local arbiter is above the maximum of the planner. *)
LEMMA AnswerModerate ==
  ASSUME InBudget, Moderate, IInv, NEW s \in Steps, NEW want \in Int, NEW answer \in Int,
         Wants(s, want), Answers(s, OrgClamp(want), answer)
  PROVE  answer <= MaxCeiling
<1> DEFINE d == OrgClamp(want)
<1>1. /\ d.ceiling \in Int /\ d.ceiling <= want
      /\ OrgPriority > 0 => ProportionalGrants(d)
  BY OrgClampType
<1>2. /\ Left(s) \in Int /\ MinAllocation \in Int /\ MaxCeiling \in Int /\ Dollar \in Int
  BY LeftInt, VeronicaAssumption
<1>3. Answers(s, d, answer)
  OBVIOUS
<1>4. want <= MaxCeiling
  BY <1>2 DEF Wants, Lower, Moderate
<1> HIDE DEF d
<1> QED
  BY <1>1, <1>2, <1>3, <1>4
     DEF InBudget, Moderate, Answers, PassthroughCeiling, ProportionalCeiling

(* So no step may pay more than that, and one overshoot. *)
LEMMA RoomsKept ==
  ASSUME InBudget, Moderate, BaseInv, RoomsWithin(MaxCeiling + Overshoot), [Next]_vars
  PROVE  RoomsWithin(MaxCeiling + Overshoot)'
<1> DEFINE Inv == RoomsWithin(MaxCeiling + Overshoot)
<1> USE DEF RoomsWithin, Room
<1>0. /\ pc \in [Steps -> Stages] /\ ceiling \in [Steps -> Int] /\ MaxCeiling \in Int
      /\ MaxCeiling >= 0 /\ Overshoot \in Nat
  BY StageType, VeronicaAssumption DEF BaseInv, AmountTypes, Moderate
<1>1. ASSUME NEW s \in Steps, Plans(s) PROVE Inv'
  <2>1. PICK want \in Int, answer \in Int : Planning(s, want, answer)
    BY <1>1 DEF Plans
  <2>2. answer <= MaxCeiling
    BY <2>1, AnswerModerate DEF BaseInv, Planning
  <2>3. /\ ceiling' = [ceiling EXCEPT ![s] = answer]
        /\ pc' = [pc EXCEPT ![s] = IF answer < 0 THEN "rejected" ELSE "running"]
    BY <2>1, Zenon DEF Planning
  <2> QED BY <1>0, <2>2, <2>3
<1>2. ASSUME NEW s \in Steps, Opens(s) PROVE Inv'
  BY <1>0, <1>2 DEF Opens, Advance
<1>3. ASSUME NEW s \in Steps, Pays(s) \/ Collect(s) \/ Drops(s) \/ Accounts(s) \/ Closes(s)
      PROVE Inv'
  BY <1>0, <1>3 DEF Pays, Call, Collect, Drops, Accounts, Account, Closes, Advance
<1>4. ASSUME NEW p \in Procs, Crash(p) PROVE Inv'
  BY <1>0, <1>4 DEF Crash
<1>5. CASE Rests
  BY <1>5 DEF Rests
<1> QED BY <1>1, <1>2, <1>3, <1>4, <1>5, NextKinds, StepKinds

(* No step is in flight at first, and nothing to be paid. *)
LEMMA InitOverrun ==
  ASSUME Threads >= 1, NEW M \in Nat, Init
  PROVE  ThreadsInv /\ Overrun(M) /\ RoomsWithin(M)
<1>0. NSteps \in Nat /\ Threads \in Nat /\ Budget \in Nat /\ Overshoot \in Nat
  BY VeronicaAssumption
<1>1. ThreadsInv
  <2>1. \A p \in Procs : InFlight(p) = {}
    BY DEF Init, InFlight
  <2>2. Cardinality({}) = 0
    BY FS_EmptySet
  <2> QED BY <1>0, <2>1, <2>2 DEF ThreadsInv
<1>2. Overrun(M)
  <2> SUFFICES ASSUME NEW p \in Procs
               PROVE  totalSpent[p] + SumTo(Hot(p), NSteps)
                        <= Budget + Overshoot + (Threads - 1) * M
    BY DEF Overrun
  <2>1. Hot(p) \in [1..NSteps -> {0}]
    BY DEF Init, Hot, Outstanding, Steps
  <2>2. SumTo(Hot(p), NSteps) = 0 /\ totalSpent[p] = 0
    BY <1>0, <2>1, SumOfZeros DEF Init
  <2> DEFINE t == Threads - 1
  <2>3. t \in Nat
    BY <1>0
  <2> HIDE DEF t
  <2>4. t * M \in Nat
    BY <2>3
  <2>5. (Threads - 1) * M \in Nat
    BY <2>4 DEF t
  <2> QED BY <1>0, <2>2, <2>5
<1>3. RoomsWithin(M)
  BY DEF Init, RoomsWithin
<1> QED BY <1>1, <1>2, <1>3

(* What a process has spent, and what it may pay under the ceilings that   *)
(* are outstanding, stays within the budget and what the other threads may *)
(* spend: under the lock, the last step to be planned fits in what remains *)
(* (before_step).                                                          *)
LEMMA OverrunInvariance ==
  ASSUME InBudget, Moderate
  PROVE  Spec => []OverrunInv(MaxCeiling + Overshoot)
<1> DEFINE M == MaxCeiling + Overshoot
<1>0. M \in Nat /\ Threads >= 1
  BY VeronicaAssumption DEF Moderate, InBudget
<1>1. Init => ThreadsInv /\ Overrun(M) /\ RoomsWithin(M)
  <2> HIDE DEF M
  <2> QED BY <1>0, InitOverrun
<1>2. OverrunInv(M) /\ [Next]_vars => Overrun(M)'
  <2> HIDE DEF M
  <2> QED BY <1>0, OverrunKept
<1>3. OverrunInv(M) /\ [Next]_vars => ThreadsInv' /\ RoomsWithin(M)'
  BY ThreadsKept, RoomsKept DEF OverrunInv, PayInv
<1> QED BY <1>1, <1>2, <1>3, PayInvariance, PTL DEF Spec, OverrunInv

LEMMA ExcessIsInt == Budget + Excess \in Int
<1>1. Budget \in Int /\ Overshoot \in Int /\ Threads \in Int /\ MaxCeiling \in Int
  BY VeronicaAssumption
<1>2. (Threads - 1) * MaxCeiling \in Int /\ Threads * Overshoot \in Int
  BY <1>1
<1> QED BY <1>1, <1>2 DEF Excess

(* The bound on the overrun is the excess. *)
LEMMA LimitIsExcess ==
  Budget + Overshoot + (Threads - 1) * (MaxCeiling + Overshoot) = Budget + Excess
<1>1. /\ Budget \in Int /\ Overshoot \in Int /\ Threads \in Int /\ MaxCeiling \in Int
  BY VeronicaAssumption
<1> DEFINE t == Threads - 1
<1>2. t \in Int /\ Threads = t + 1
  BY <1>1
<1> HIDE DEF t
<1>3. t * (MaxCeiling + Overshoot) = t * MaxCeiling + t * Overshoot
      /\ (t + 1) * Overshoot = t * Overshoot + Overshoot
  BY <1>1, <1>2
<1>4. t * MaxCeiling \in Int /\ t * Overshoot \in Int
  BY <1>1, <1>2
<1>5. Excess = t * MaxCeiling + (t + 1) * Overshoot
  BY <1>2, Zenon DEF Excess, t
<1>6. Budget + Overshoot + t * (MaxCeiling + Overshoot) = Budget + Excess
  BY <1>1, <1>3, <1>4, <1>5
<1> QED BY <1>6 DEF t

(* A sum over some of the steps is within what the process has spent and   *)
(* may still pay, if each term is within the cost of a step accounted for, *)
(* or within what an outstanding one may pay.                              *)
LEMMA WithinSpentAndHot ==
  ASSUME PayInv, NEW p \in Procs, NEW h \in [1..NSteps -> Int],
         \A s \in Steps :
           \/ s \in Accounted(p) /\ h[s] <= cost[s]
           \/ s \in Outstanding(p) /\ h[s] <= Room(ceiling[s])
           \/ h[s] <= 0
  PROVE  /\ SumTo(h, NSteps) <= totalSpent[p] + SumTo(Hot(p), NSteps)
         /\ SumTo(h, NSteps) \in Int
         /\ totalSpent[p] + SumTo(Hot(p), NSteps) \in Int
<1> DEFINE f == StepCosts(p)
           g == Hot(p)
           b == [s \in 1..NSteps |-> f[s] + g[s]]
<1>0. NSteps \in Nat
  BY Numbers
<1>1. f \in [1..NSteps -> Nat] /\ g \in [1..NSteps -> Nat]
  BY CostsType, HotType DEF PayInv, BaseInv, IInv
<1>2. \A s \in 1..NSteps : h[s] <= f[s] + g[s]
  <2> SUFFICES ASSUME NEW s \in Steps PROVE h[s] <= f[s] + g[s]
    BY DEF Steps
  <2>1. f[s] \in Nat /\ g[s] \in Nat /\ h[s] \in Int
    BY <1>1 DEF Steps
  <2>2. s \in Accounted(p) => f[s] = cost[s]
    BY DEF StepCosts
  <2>3. s \in Outstanding(p) => g[s] = Room(ceiling[s])
    BY DEF Hot
  <2> HIDE DEF f, g
  <2> QED BY <2>1, <2>2, <2>3
<1> HIDE DEF f, g
<1>3. /\ f \in [1..NSteps -> Int] /\ g \in [1..NSteps -> Int] /\ b \in [1..NSteps -> Int]
      /\ \A s \in 1..NSteps : b[s] = f[s] + g[s] /\ h[s] <= b[s]
  BY <1>1, <1>2
<1> HIDE DEF b
<1>4. SumTo(b, NSteps) = SumTo(f, NSteps) + SumTo(g, NSteps)
  BY <1>0, <1>3, SumPlus
<1>5. SumTo(h, NSteps) <= SumTo(b, NSteps)
  BY <1>0, <1>3, SumLeq
<1>6. SumTo(f, NSteps) = totalSpent[p]
  BY DEF f, StepCosts, PayInv, BaseInv, IInv, SpendAccounted, SumOver
<1>7. SumTo(h, NSteps) \in Int /\ SumTo(f, NSteps) \in Int /\ SumTo(g, NSteps) \in Int
  BY <1>0, <1>3, SumIsInt
<1> QED BY <1>4, <1>5, <1>6, <1>7 DEF g

(* Concurrent steps overrun the budget by the ceilings of all of them but  *)
(* one at most, and what last calls overshoot.  That takes a local arbiter *)
(* whose answer is not dropped, and default ceilings no larger than the    *)
(* planner's maximum (before_step).                                        *)
THEOREM OSOverrunBounded ==
  ASSUME InBudget, Moderate
  PROVE  Spec => []OverrunBounded
<1> DEFINE M == MaxCeiling + Overshoot
<1>1. OverrunInv(M) => OverrunBounded
  <2> SUFFICES ASSUME OverrunInv(M), NEW p \in Procs
               PROVE  totalSpent[p] + SumOver(Outstanding(p), ceiling) <= Budget + Excess
    BY DEF OverrunBounded
  <2> DEFINE h == [s \in Steps |-> IF s \in Outstanding(p) THEN ceiling[s] ELSE 0]
  <2>1. PayInv /\ NSteps \in Nat /\ totalSpent[p] \in Nat
    BY Numbers DEF OverrunInv, PayInv, BaseInv, IInv, SpendTypes
  <2>2. h \in [1..NSteps -> Int] /\ Hot(p) \in [1..NSteps -> Int]
    BY <2>1, HotType DEF Steps, PayInv, BaseInv, AmountTypes
  <2>3. \A s \in 1..NSteps : h[s] <= Hot(p)[s]
    <3> SUFFICES ASSUME NEW s \in Steps PROVE h[s] <= Hot(p)[s]
      BY DEF Steps
    <3>1. s \in Outstanding(p) => ceiling[s] \in Int /\ ceiling[s] <= Room(ceiling[s])
      BY <2>1, VeronicaAssumption DEF PayInv, BaseInv, AmountTypes, Room
    <3> QED BY <3>1 DEF Hot
  <2>4. SumOver(Outstanding(p), ceiling) = SumTo(h, NSteps)
    BY Zenon DEF SumOver, h
  <2>5. SumTo(h, NSteps) <= SumTo(Hot(p), NSteps)
        /\ SumTo(h, NSteps) \in Int /\ SumTo(Hot(p), NSteps) \in Int
    <3> DEFINE g == Hot(p)
    <3>1. g \in [1..NSteps -> Int] /\ \A s \in 1..NSteps : h[s] <= g[s]
      BY <2>2, <2>3
    <3> HIDE DEF g, h
    <3>2. SumTo(h, NSteps) <= SumTo(g, NSteps) /\ SumTo(h, NSteps) \in Int
          /\ SumTo(g, NSteps) \in Int
      BY <2>1, <2>2, <3>1, SumLeq, SumIsInt
    <3> QED BY <3>2 DEF g
  <2>6. totalSpent[p] + SumTo(Hot(p), NSteps) <= Budget + Excess
    BY LimitIsExcess DEF OverrunInv, Overrun
  <2>7. Budget + Excess \in Int
    BY ExcessIsInt
  <2> QED BY <2>1, <2>4, <2>5, <2>6, <2>7
<1> QED BY <1>1, OverrunInvariance, PTL

-----------------------------------------------------------------------------
(* The request budget. *)

(* What the steps of a process have paid, as far as they run or have been  *)
(* collected, exceeds its request budget only by the ceilings of the steps *)
(* beside the last one planned and by the last call of each, with any      *)
(* number of threads, calls and crashes, while a local arbiter answers in  *)
(* time (before_step, after_step, collector).                              *)
THEOREM OSRequestBudgetRespected ==
  ASSUME InBudget, Moderate
  PROVE  Spec => []RequestBudgetRespected
<1> DEFINE M == MaxCeiling + Overshoot
<1>1. OverrunInv(M) => RequestBudgetRespected
  <2> SUFFICES ASSUME OverrunInv(M), NEW p \in Procs
               PROVE  SumOver(Outstanding(p) \cup Accounted(p), [s \in Steps |-> Known(s)])
                        <= Budget + Excess
    BY DEF RequestBudgetRespected
  <2> DEFINE h == [s \in Steps |-> IF s \in Outstanding(p) \cup Accounted(p)
                                    THEN Known(s) ELSE 0]
  <2>1. PayInv /\ paid \in [Steps -> Nat] /\ cost \in [Steps -> Nat]
        /\ ceiling \in [Steps -> Int]
    BY DEF OverrunInv, PayInv, BaseInv, IInv, SpendTypes, AmountTypes
  <2>2. h \in [1..NSteps -> Int]
    BY <2>1 DEF Steps, Known
  <2>3. \A s \in Steps :
          \/ s \in Accounted(p) /\ h[s] <= cost[s]
          \/ s \in Outstanding(p) /\ h[s] <= Room(ceiling[s])
          \/ h[s] <= 0
    <3> SUFFICES ASSUME NEW s \in Steps
                 PROVE  \/ s \in Accounted(p) /\ h[s] <= cost[s]
                        \/ s \in Outstanding(p) /\ h[s] <= Room(ceiling[s])
                        \/ h[s] <= 0
      OBVIOUS
    <3>1. CASE s \in Accounted(p)
      BY <2>1, <3>1 DEF Accounted, Known
    <3>2. CASE s \in Outstanding(p)
      <4>1. Known(s) <= Room(ceiling[s])
        BY <2>1, <3>2, VeronicaAssumption DEF Outstanding, Known, PayInv, PaidWithin, Room
      <4> QED BY <3>2, <4>1
    <3> QED BY <3>1, <3>2
  <2>4. SumOver(Outstanding(p) \cup Accounted(p), [s \in Steps |-> Known(s)])
          = SumTo(h, NSteps)
    <3>1. \A s \in Steps : (IF s \in Outstanding(p) \cup Accounted(p)
                              THEN [t \in Steps |-> Known(t)][s] ELSE 0) = h[s]
      OBVIOUS
    <3> QED BY <3>1 DEF SumOver
  <2> HIDE DEF h
  <2>5. /\ SumTo(h, NSteps) <= totalSpent[p] + SumTo(Hot(p), NSteps)
        /\ SumTo(h, NSteps) \in Int
        /\ totalSpent[p] + SumTo(Hot(p), NSteps) \in Int
    BY <2>1, <2>2, <2>3, WithinSpentAndHot
  <2>6. totalSpent[p] + SumTo(Hot(p), NSteps) <= Budget + Excess
    BY LimitIsExcess DEF OverrunInv, Overrun
  <2> QED BY <2>4, <2>5, <2>6, ExcessIsInt
<1> QED BY <1>1, OverrunInvariance, PTL

-----------------------------------------------------------------------------
(* Each committed step is charged once.                                    *)

LateSettles == {m \in late : m.op = "settle"}

\* Recorded steps have committed, so their cost is final.
RecordInv ==
  \A s \in record : s \in Steps /\ pc[s] \in {"committed", "done", "gone"}

\* The charges add up to what the settlements reported, none of a step that
\* has not settled; every late settlement is of another step yet uncharged.
Charged(charge, owner) ==
  /\ spent = SumTo(charge, NSteps)
  /\ \A s \in Steps : /\ charge[s] <= cost[s]
                      /\ charge[s] # 0 => s \in record /\ pc[s] # "committed"
  /\ \A m \in LateSettles :
       /\ owner[m] \in record /\ pc[owner[m]] # "committed"
       /\ charge[owner[m]] = 0 /\ m.micro <= cost[owner[m]]
  /\ \A m, n \in LateSettles : owner[m] = owner[n] => m = n

ChargeInv ==
  \E charge \in [Steps -> Nat], owner \in [LateSettles -> Steps] : Charged(charge, owner)

\* What charging rests on.
OnceInv == BaseInv /\ SettleInv /\ RecordInv /\ ChargeInv

\* Redis is charged nothing and no settlement is delayed.
Uncharged == spent' = spent /\ LateSettles' = LateSettles

(* A cost is charged as it is, or not at all if it is not finite.          *)
LEMMA ActualCost == ASSUME NEW c \in Nat
                    PROVE  Redis!ActualMicro(c) \in Nat /\ Redis!ActualMicro(c) <= c
<1>1. c \div 1 = c /\ c % 1 = 0
  OBVIOUS
<1>2. Redis!ToMicro(c) = c
  BY <1>1 DEF Redis!ToMicro
<1>3. Redis!ActualMicro(c) = 0 \/ Redis!ActualMicro(c) = c
  BY <1>2 DEF Redis!ActualMicro
<1> QED BY <1>3

(* While Redis is charged nothing, the charges stand: recorded steps keep  *)
(* their cost, and only a step that was not recorded commits.              *)
LEMMA ChargesStand ==
  ASSUME ChargeInv, Uncharged,
         cost \in [Steps -> Nat], cost' \in [Steps -> Nat],
         \A s \in record : s \in record' /\ cost'[s] = cost[s],
         \A s \in Steps : pc'[s] = "committed" => pc[s] = "committed" \/ s \notin record
  PROVE  ChargeInv'
<1>1. PICK charge \in [Steps -> Nat], owner \in [LateSettles -> Steps] : Charged(charge, owner)
  BY DEF ChargeInv
<1>2. owner \in [LateSettles' -> Steps] /\ LateSettles' = LateSettles /\ spent' = spent
  BY DEF Uncharged
<1>3. \A s \in Steps : charge[s] <= cost'[s]
  <2> SUFFICES ASSUME NEW s \in Steps PROVE charge[s] <= cost'[s]
    OBVIOUS
  <2>1. charge[s] \in Nat /\ cost'[s] \in Nat /\ charge[s] <= cost[s]
    BY <1>1 DEF Charged
  <2>2. charge[s] = 0 \/ cost'[s] = cost[s]
    BY <1>1 DEF Charged
  <2> QED BY <2>1, <2>2
<1>4. \A s \in Steps : charge[s] # 0 => s \in record' /\ pc'[s] # "committed"
  BY <1>1 DEF Charged
<1>5. \A m \in LateSettles' :
       /\ owner[m] \in record' /\ pc'[owner[m]] # "committed"
       /\ charge[owner[m]] = 0 /\ m.micro <= cost'[owner[m]]
  BY <1>1, <1>2 DEF Charged
<1>6. Charged(charge, owner)'
  <2>1. spent' = SumTo(charge, NSteps)
    BY <1>1, <1>2 DEF Charged
  <2>2. \A m, n \in LateSettles' : owner[m] = owner[n] => m = n
    BY <1>1, <1>2 DEF Charged
  <2> QED BY <1>3, <1>4, <1>5, <2>1, <2>2 DEF Charged
<1> QED BY <1>2, <1>6 DEF ChargeInv

(* What before_step asks of Redis charges nothing (LUA_RESERVE).           *)
LEMMA AsksUncharged ==
  ASSUME NEW s \in Steps, NEW d, Asks(s, d)
  PROVE  Uncharged
<1>1. CASE UNCHANGED redisVars
  BY <1>1 DEF redisVars, Uncharged, LateSettles
<1>2. CASE Redis!Arbitrate(KeyOf[s], d)
  BY <1>2 DEF Redis!Arbitrate, Uncharged, LateSettles
<1>3. CASE Redis!ArbitrateFails(KeyOf[s], d, Left(s))
  BY <1>3 DEF Redis!ArbitrateFails, Redis!MayRunLate, Uncharged, LateSettles
<1> QED BY <1>1, <1>2, <1>3, Zenon DEF Asks

\* A step that is not recorded moves on, and does not commit.
Unrecorded(s) ==
  /\ pc[s] \in {"idle", "seen", "running", "collected", "accounted", "ready"}
  /\ \E to \in Stages \ {"committed"} : pc' = [pc EXCEPT ![s] = to]
  /\ record' = record
  /\ \A t \in Steps : t # s => cost'[t] = cost[t]

(* Until it commits, a step is not recorded and Redis not charged for it.  *)
LEMMA UnrecordedKinds ==
  ASSUME BaseInv, NEW s \in Steps, StepNext(s)
  PROVE  \/ Unrecorded(s) /\ Uncharged
         \/ (\E price \in 0..(ceiling[s] + Overshoot) : Call(s, price))
         \/ Commit(s) \/ SettleAndEmit(s)
<1> USE DEF Advance, store, Stages, Ended, Unrecorded
<1>0. cost \in [Steps -> Nat]
  BY DEF BaseInv, IInv, SpendTypes
<1>a. ASSUME UNCHANGED redisVars PROVE Uncharged
  BY <1>a DEF redisVars, Uncharged, LateSettles
<1>1. CASE Deny(s) \/ ReadAnalysis(s)
  <2>1. UNCHANGED redisVars
    BY <1>1, Zenon DEF Deny, ReadAnalysis
  <2>2. Unrecorded(s)
    BY <1>1 DEF Deny, ReadAnalysis
  <2> QED BY <1>a, <2>1, <2>2
<1>2. CASE PlanAndArbitrate(s)
  <2>1. PICK want \in Int, answer \in Int : Planning(s, want, answer)
    BY <1>2, PlannedStep
  <2>2. record' = record /\ cost' = cost
    BY <1>2, PlannedStep DEF store
  <2>3. /\ pc[s] = "seen"
        /\ pc' = [pc EXCEPT ![s] = IF answer < 0 THEN "rejected" ELSE "running"]
        /\ Asks(s, OrgClamp(want))
    BY <2>1, Zenon DEF Planning
  <2>4. Uncharged
    BY <2>3, AsksUncharged
  <2> QED BY <2>2, <2>3, <2>4
<1>3. CASE Collect(s) \/ CollectTooLate(s) \/ AnalysisFails(s) \/ SetBudgetContext(s)
           \/ CommitFails(s) \/ \E r \in Recommendations : Account(s, r)
  <2>1. UNCHANGED redisVars
    BY <1>3, Zenon DEF Collect, CollectTooLate, AnalysisFails,
                           SetBudgetContext, CommitFails, Account
  <2>2. Unrecorded(s)
    BY <1>0, <1>3 DEF Collect, CollectTooLate, AnalysisFails,
                           SetBudgetContext, CommitFails, Account
  <2> QED BY <1>a, <2>1, <2>2
<1> QED BY <1>1, <1>2, <1>3 DEF StepNext

(* A settlement that arrives charges its own step, which had no charge.    *)
LEMMA ChargeOwn ==
  ASSUME OnceInv, NEW s \in Steps, pc[s] = "committed",
         pc' = [pc EXCEPT ![s] = "done"], UNCHANGED <<record, cost>>,
         NEW micro \in Nat, micro <= cost[s], spent' = spent + micro,
         LateSettles' = LateSettles
  PROVE  ChargeInv'
<1>0. /\ pc \in [Steps -> Stages] /\ cost \in [Steps -> Nat] /\ NSteps \in Nat
      /\ s \in record
  BY StageType, Numbers DEF OnceInv, BaseInv, IInv, SpendTypes, SettleInv
<1>1. PICK charge \in [Steps -> Nat], owner \in [LateSettles -> Steps] : Charged(charge, owner)
  BY DEF OnceInv, ChargeInv
<1> DEFINE new == [charge EXCEPT ![s] = micro]
<1>2. charge[s] = 0
  BY <1>1 DEF Charged
<1>3. new \in [Steps -> Nat] /\ \A t \in Steps : new[t] = IF t = s THEN micro ELSE charge[t]
  OBVIOUS
<1>4. spent' = SumTo(new, NSteps)
  <2>1. charge \in [1..NSteps -> Int] /\ s \in 1..NSteps /\ micro \in Int
    BY DEF Steps
  <2>2. SumTo(new, NSteps) = SumTo(charge, NSteps) - charge[s] + micro
    BY <1>0, <2>1, SumUpdate
  <2>3. SumTo(charge, NSteps) \in Int /\ spent = SumTo(charge, NSteps)
    BY <1>0, <1>1, <2>1, SumIsInt DEF Charged
  <2> HIDE DEF new
  <2> QED BY <1>2, <2>2, <2>3
<1> HIDE DEF new
<1>5. \A t \in Steps : pc'[t] = IF t = s THEN "done" ELSE pc[t]
  BY <1>0
<1>6. \A t \in Steps : /\ new[t] <= cost'[t]
                       /\ new[t] # 0 => t \in record' /\ pc'[t] # "committed"
  BY <1>0, <1>1, <1>3, <1>5 DEF Charged
<1>7. \A m \in LateSettles' :
       /\ owner[m] \in record' /\ pc'[owner[m]] # "committed"
       /\ new[owner[m]] = 0 /\ m.micro <= cost'[owner[m]]
  <2> SUFFICES ASSUME NEW m \in LateSettles
               PROVE  /\ owner[m] \in record' /\ pc'[owner[m]] # "committed"
                      /\ new[owner[m]] = 0 /\ m.micro <= cost'[owner[m]]
    OBVIOUS
  <2>1. /\ owner[m] \in Steps /\ owner[m] \in record /\ pc[owner[m]] # "committed"
        /\ charge[owner[m]] = 0 /\ m.micro <= cost[owner[m]]
    BY <1>1 DEF Charged
  <2> QED BY <1>3, <1>5, <2>1
<1>8. Charged(new, owner)'
  BY <1>1, <1>4, <1>6, <1>7 DEF Charged
<1> QED BY <1>1, <1>3, <1>8 DEF ChargeInv

(* A settlement that is delayed is owed by its own step.                   *)
LEMMA ChargeDelayed ==
  ASSUME OnceInv, NEW s \in Steps, pc[s] = "committed",
         pc' = [pc EXCEPT ![s] = "done"], UNCHANGED <<record, cost, spent>>,
         NEW script, script.op = "settle", script.micro <= cost[s],
         late' = late \cup {script}, script \notin late
  PROVE  ChargeInv'
<1>0. /\ pc \in [Steps -> Stages] /\ cost \in [Steps -> Nat] /\ s \in record
  BY StageType DEF OnceInv, BaseInv, IInv, SpendTypes, SettleInv
<1>1. PICK charge \in [Steps -> Nat], owner \in [LateSettles -> Steps] : Charged(charge, owner)
  BY DEF OnceInv, ChargeInv
<1>2. LateSettles' = LateSettles \cup {script} /\ script \notin LateSettles
  BY DEF LateSettles
<1>3. PICK new \in [LateSettles' -> Steps] :
        \A m \in LateSettles' : new[m] = IF m = script THEN s ELSE owner[m]
  <2>1. [m \in LateSettles' |-> IF m = script THEN s ELSE owner[m]] \in [LateSettles' -> Steps]
    BY <1>2
  <2> QED BY <2>1
<1>4. \A m \in LateSettles : new[m] = owner[m] /\ owner[m] \in Steps /\ owner[m] # s
  BY <1>1, <1>2, <1>3 DEF Charged
<1>5. new[script] = s
  BY <1>2, <1>3
<1>6. \A t \in Steps : pc'[t] = IF t = s THEN "done" ELSE pc[t]
  BY <1>0
<1>7. \A t \in Steps : /\ charge[t] <= cost'[t]
                       /\ charge[t] # 0 => t \in record' /\ pc'[t] # "committed"
  BY <1>1, <1>6 DEF Charged
<1>8. \A m \in LateSettles' :
       /\ new[m] \in record' /\ pc'[new[m]] # "committed"
       /\ charge[new[m]] = 0 /\ m.micro <= cost'[new[m]]
  <2>1. ASSUME NEW m \in LateSettles
        PROVE  /\ new[m] \in record' /\ pc'[new[m]] # "committed"
               /\ charge[new[m]] = 0 /\ m.micro <= cost'[new[m]]
    BY <1>1, <1>4, <1>6, <2>1 DEF Charged
  <2>2. charge[s] = 0
    BY <1>1 DEF Charged
  <2> QED BY <1>0, <1>2, <1>5, <1>6, <2>1, <2>2
<1>9. \A m, n \in LateSettles' : new[m] = new[n] => m = n
  BY <1>1, <1>2, <1>4, <1>5 DEF Charged
<1>10. Charged(charge, new)'
  BY <1>1, <1>7, <1>8, <1>9 DEF Charged
<1> QED BY <1>1, <1>3, <1>10 DEF ChargeInv

(* A step that has committed settles once, now, late or never (settle).    *)
LEMMA SettlesOnce ==
  ASSUME OnceInv, NEW s \in Steps, SettleAndEmit(s)
  PROVE  ChargeInv'
<1>1. /\ pc[s] = "committed" /\ pc' = [pc EXCEPT ![s] = "done"]
      /\ record' = record /\ cost' = cost
  BY Zenon DEF SettleAndEmit, store, Advance
<1>0. pc \in [Steps -> Stages] /\ cost \in [Steps -> Nat] /\ s \in record
  BY <1>1, StageType DEF OnceInv, BaseInv, IInv, SpendTypes, SettleInv
<1>2. \/ UNCHANGED redisVars
      \/ Redis!Settle(KeyOf[s], cost[s])
      \/ Redis!SettleFails(KeyOf[s], cost[s])
  BY Zenon DEF SettleAndEmit
<1>3. \A t \in Steps : pc'[t] = "committed" => pc[t] = "committed"
  BY <1>0, <1>1
<1> DEFINE micro == Redis!ActualMicro(cost[s])
           script == [op |-> "settle", key |-> KeyOf[s], micro |-> micro]
<1>4. micro \in Nat /\ micro <= cost[s] /\ script.op = "settle" /\ script.micro = micro
  BY <1>0, ActualCost
<1>5. ASSUME Uncharged PROVE ChargeInv'
  BY <1>0, <1>1, <1>3, <1>5, ChargesStand DEF OnceInv
<1>6. CASE UNCHANGED redisVars
  BY <1>5, <1>6 DEF redisVars, Uncharged, LateSettles
<1>7. CASE Redis!Settle(KeyOf[s], cost[s])
  <2>1. spent' = spent + micro /\ late' = late
    BY <1>7, Zenon DEF Redis!Settle, Redis!LuaSettle
  <2> HIDE DEF micro
  <2> QED BY <1>1, <1>4, <2>1, ChargeOwn DEF LateSettles
<1>8. CASE Redis!SettleFails(KeyOf[s], cost[s])
  <2>1. spent' = spent /\ (late' = late \/ late' = late \cup {script})
    BY <1>8, Zenon DEF Redis!SettleFails, Redis!MayRunLate
  <2> HIDE DEF script
  <2>2. CASE late' = late
    BY <1>5, <2>1, <2>2 DEF Uncharged, LateSettles
  <2>3. CASE late' = late \cup {script} /\ script \notin late
    BY <1>1, <1>4, <2>1, <2>3, ChargeDelayed
  <2>4. CASE late' = late \cup {script} /\ script \in late
    <3>1. late' = late
      BY <2>4
    <3> QED BY <2>2, <3>1
  <2> QED BY <2>1, <2>2, <2>3, <2>4
<1> QED BY <1>2, <1>6, <1>7, <1>8

(* A late settlement charges the step that owes it, once.                  *)
LEMMA ChargeLate ==
  ASSUME OnceInv, UNCHANGED <<pc, record, cost>>, NEW m \in LateSettles,
         late' = late \ {m}, spent' = spent + m.micro
  PROVE  ChargeInv'
<1>0. cost \in [Steps -> Nat] /\ NSteps \in Nat /\ m.micro \in Nat
  BY Numbers DEF OnceInv, BaseInv, IInv, SpendTypes, RedisProofs!TypeInv,
     RedisProofs!LateSettlesNat, LateSettles
<1>1. PICK charge \in [Steps -> Nat], owner \in [LateSettles -> Steps] : Charged(charge, owner)
  BY DEF OnceInv, ChargeInv
<1> DEFINE s == owner[m]
           micro == m.micro
           new == [charge EXCEPT ![s] = micro]
<1>2. /\ s \in Steps /\ s \in record /\ pc[s] # "committed"
      /\ charge[s] = 0 /\ micro <= cost[s]
  BY <1>1 DEF Charged
<1>3. LateSettles' = LateSettles \ {m}
  BY DEF LateSettles
<1>4. \A n \in LateSettles' : owner[n] # s
  BY <1>1, <1>3 DEF Charged
<1> HIDE DEF s, micro
<1>5. new \in [Steps -> Nat] /\ \A t \in Steps : new[t] = IF t = s THEN micro ELSE charge[t]
  BY <1>0, <1>2 DEF micro
<1>6. spent' = SumTo(new, NSteps)
  <2>1. charge \in [1..NSteps -> Int] /\ s \in 1..NSteps /\ micro \in Int
    BY <1>0, <1>2 DEF Steps, micro
  <2>2. SumTo(new, NSteps) = SumTo(charge, NSteps) - charge[s] + micro
    BY <1>0, <2>1, SumUpdate
  <2>3. SumTo(charge, NSteps) \in Int /\ spent = SumTo(charge, NSteps)
    BY <1>0, <1>1, <2>1, SumIsInt DEF Charged
  <2> HIDE DEF new
  <2> QED BY <1>2, <2>1, <2>2, <2>3 DEF micro
<1>7. PICK rest \in [LateSettles' -> Steps] : \A n \in LateSettles' : rest[n] = owner[n]
  <2>1. [n \in LateSettles' |-> owner[n]] \in [LateSettles' -> Steps]
    BY <1>3
  <2> QED BY <2>1
<1>8. \A t \in Steps : /\ new[t] <= cost'[t]
                       /\ new[t] # 0 => t \in record' /\ pc'[t] # "committed"
  BY <1>1, <1>2, <1>5 DEF Charged
<1>9. \A n \in LateSettles' :
       /\ rest[n] \in record' /\ pc'[rest[n]] # "committed"
       /\ new[rest[n]] = 0 /\ n.micro <= cost'[rest[n]]
  <2> SUFFICES ASSUME NEW n \in LateSettles'
               PROVE  /\ rest[n] \in record' /\ pc'[rest[n]] # "committed"
                      /\ new[rest[n]] = 0 /\ n.micro <= cost'[rest[n]]
    OBVIOUS
  <2>1. /\ owner[n] \in Steps /\ owner[n] \in record /\ pc[owner[n]] # "committed"
        /\ charge[owner[n]] = 0 /\ n.micro <= cost[owner[n]]
    BY <1>1, <1>3 DEF Charged
  <2> QED BY <1>4, <1>5, <1>7, <2>1
<1>10. \A i, j \in LateSettles' : rest[i] = rest[j] => i = j
  BY <1>1, <1>3, <1>7 DEF Charged
<1>11. Charged(new, rest)'
  BY <1>6, <1>8, <1>9, <1>10 DEF Charged
<1> QED BY <1>5, <1>7, <1>11 DEF ChargeInv

(* A crash leaves Redis and the records as they were, and commits nothing. *)
LEMMA CrashCharges == ASSUME OnceInv, NEW p \in Procs, Crash(p) PROVE ChargeInv' /\ RecordInv'
<1>1. /\ UNCHANGED <<record, cost>> /\ UNCHANGED redisVars
      /\ pc' = [s \in Steps |-> IF ProcOf[s] = p /\ pc[s] # "idle" THEN "gone" ELSE pc[s]]
  BY Zenon DEF Crash
<1>2. cost \in [Steps -> Nat]
  BY DEF OnceInv, BaseInv, IInv, SpendTypes
<1>3. Uncharged
  BY <1>1 DEF redisVars, Uncharged, LateSettles
<1>4. ChargeInv'
  BY <1>1, <1>2, <1>3, ChargesStand DEF OnceInv
<1> QED BY <1>1, <1>4 DEF OnceInv, RecordInv

(* Every action keeps the account of the charges.                          *)
LEMMA ChargesKept == OnceInv /\ [Next]_vars => ChargeInv' /\ RecordInv'
<1> SUFFICES ASSUME OnceInv, [Next]_vars PROVE ChargeInv' /\ RecordInv'
  OBVIOUS
<1>0. /\ pc \in [Steps -> Stages] /\ cost \in [Steps -> Nat] /\ BaseInv
      /\ ChargeInv /\ RecordInv
  BY StageType DEF OnceInv, BaseInv, IInv, SpendTypes
<1>a. cost' \in [Steps -> Nat]
  BY <1>0, NextAccounts DEF BaseInv, IInv, SpendTypes
<1>1. ASSUME UNCHANGED <<pc, record, cost>> PROVE RecordInv'
  BY <1>0, <1>1 DEF RecordInv
<1>2. ASSUME UNCHANGED <<pc, record, cost>>, Uncharged PROVE ChargeInv'
  BY <1>0, <1>2, ChargesStand
<1>3. ASSUME NEW s \in Steps, Unrecorded(s), Uncharged PROVE ChargeInv' /\ RecordInv'
  <2>1. s \notin record
    BY <1>0, <1>3 DEF Unrecorded, RecordInv
  <2>2. \A t \in record : t \in record' /\ cost'[t] = cost[t] /\ pc'[t] = pc[t]
    BY <1>0, <1>3, <2>1 DEF Unrecorded, RecordInv
  <2>3. \A t \in Steps : pc'[t] = "committed" => pc[t] = "committed"
    BY <1>0, <1>3 DEF Unrecorded
  <2>4. ChargeInv'
    BY <1>0, <1>3, <1>a, <2>2, <2>3, ChargesStand
  <2> QED BY <1>0, <1>3, <2>2, <2>4 DEF Unrecorded, RecordInv
<1>4. ASSUME NEW s \in Steps, NEW price \in 0..(ceiling[s] + Overshoot), Call(s, price)
      PROVE  ChargeInv' /\ RecordInv'
  <2>1. UNCHANGED <<pc, record, cost>> /\ UNCHANGED redisVars
    BY <1>4, Zenon DEF Call, store
  <2>2. Uncharged
    BY <2>1 DEF redisVars, Uncharged, LateSettles
  <2> QED BY <1>1, <1>2, <2>1, <2>2
<1>5. ASSUME NEW s \in Steps, Commit(s) PROVE ChargeInv' /\ RecordInv'
  <2>1. /\ pc[s] = "ready" /\ pc' = [pc EXCEPT ![s] = "committed"]
        /\ record' = record \cup {s} /\ cost' = cost /\ UNCHANGED redisVars
    BY <1>5, Zenon DEF Commit, Advance
  <2>2. Uncharged
    BY <2>1 DEF redisVars, Uncharged, LateSettles
  <2>3. s \notin record
    BY <1>0, <2>1 DEF RecordInv
  <2>4. \A t \in Steps : pc'[t] = "committed" => pc[t] = "committed" \/ t \notin record
    BY <1>0, <2>1, <2>3
  <2>5. ChargeInv'
    BY <1>0, <1>a, <2>1, <2>2, <2>4, ChargesStand
  <2> QED BY <1>0, <2>1, <2>5 DEF RecordInv
<1>6. ASSUME NEW s \in Steps, SettleAndEmit(s) PROVE ChargeInv' /\ RecordInv'
  <2>1. pc[s] = "committed" /\ pc' = [pc EXCEPT ![s] = "done"] /\ record' = record
    BY <1>6, Zenon DEF SettleAndEmit, store, Advance
  <2> QED BY <1>0, <1>6, <2>1, SettlesOnce DEF RecordInv
<1>7. CASE RedisMoves
  <2>1. UNCHANGED <<pc, record, cost>>
    BY <1>7, Zenon DEF RedisMoves, store, stepState
  <2>2. ASSUME NEW k \in 1..NKeys, Redis!Expire(k) PROVE Uncharged
    BY <2>2 DEF Redis!Expire, Uncharged, LateSettles
  <2>3. ASSUME NEW m \in late, Redis!RunLate(m) PROVE ChargeInv'
    <3>1. late' = late \ {m}
      BY <2>3, Zenon DEF Redis!RunLate
    <3>2. \/ m.op = "reserve" /\ spent' = spent
          \/ m.op = "settle" /\ spent' = spent + m.micro
      BY <2>3, Zenon DEF Redis!RunLate, Redis!LuaSettle, Redis!history
    <3>3. CASE m.op = "reserve" /\ spent' = spent
      <4>1. Uncharged
        BY <3>1, <3>3 DEF Uncharged, LateSettles
      <4> QED BY <1>2, <2>1, <4>1
    <3>4. CASE m.op = "settle" /\ spent' = spent + m.micro
      BY <2>1, <3>1, <3>4, ChargeLate DEF LateSettles
    <3> QED BY <3>2, <3>3, <3>4
  <2> QED BY <1>1, <1>2, <1>7, <2>1, <2>2, <2>3 DEF RedisMoves
<1>8. CASE UNCHANGED vars
  <2>1. UNCHANGED <<pc, record, cost>> /\ Uncharged
    BY <1>8 DEF vars, store, stepState, redisVars, Uncharged, LateSettles
  <2> QED BY <1>1, <1>2, <2>1
<1>9. ASSUME NEW s \in Steps, StepNext(s) PROVE ChargeInv' /\ RecordInv'
  BY <1>0, <1>3, <1>4, <1>5, <1>6, <1>9, UnrecordedKinds
<1>10. ASSUME NEW p \in Procs, Crash(p) PROVE ChargeInv' /\ RecordInv'
  BY <1>10, CrashCharges
<1> QED BY <1>7, <1>8, <1>9, <1>10 DEF Next

(* The charges of the recorded steps are within their costs.               *)
LEMMA ChargesBound == OnceInv => ChargedOnceCommitted
<1> SUFFICES ASSUME OnceInv PROVE spent <= SumOver(record, cost)
  BY DEF ChargedOnceCommitted
<1>0. cost \in [Steps -> Nat] /\ NSteps \in Nat
  BY Numbers DEF OnceInv, BaseInv, IInv, SpendTypes
<1>1. PICK charge \in [Steps -> Nat], owner \in [LateSettles -> Steps] : Charged(charge, owner)
  BY DEF OnceInv, ChargeInv
<1> DEFINE recorded == [s \in Steps |-> IF s \in record THEN cost[s] ELSE 0]
<1>2. charge \in [1..NSteps -> Int] /\ recorded \in [1..NSteps -> Int]
  BY <1>0 DEF Steps
<1>3. \A s \in 1..NSteps : charge[s] <= recorded[s]
  BY <1>0, <1>1 DEF Charged, Steps
<1>4. SumOver(record, cost) = SumTo(recorded, NSteps)
  BY Zenon DEF SumOver
<1> HIDE DEF recorded
<1>5. SumTo(charge, NSteps) <= SumTo(recorded, NSteps)
  BY <1>0, <1>2, <1>3, SumLeq
<1> QED BY <1>1, <1>4, <1>5 DEF Charged

(* The shared budget is charged only for committed steps, each at most     *)
(* once: settle is called after the commit, its script runs at once, late  *)
(* or never, and a restarted process does not settle again (after_step).   *)
THEOREM OSChargedOnceCommitted == Spec => []ChargedOnceCommitted
<1>1. Init => ChargeInv /\ RecordInv /\ SettleInv
  <2> SUFFICES ASSUME Init PROVE ChargeInv /\ RecordInv /\ SettleInv
    OBVIOUS
  <2>1. SettleInv
    BY DEF Init, SettleInv, Redis!Init, Redis!Keys
  <2>2. RecordInv
    BY DEF Init, RecordInv
  <2> DEFINE charge == [s \in Steps |-> 0]
             owner == [m \in LateSettles |-> 0]
  <2>3. LateSettles = {} /\ spent = 0
    BY DEF Init, Redis!Init, LateSettles
  <2>4. charge \in [1..NSteps -> {0}] /\ charge \in [Steps -> Nat]
    BY DEF Steps
  <2>5. SumTo(charge, NSteps) = 0
    BY <2>4, Numbers, SumOfZeros
  <2>6. owner \in [LateSettles -> Steps]
    BY <2>3
  <2>7. Charged(charge, owner)
    <3>1. \A s \in Steps : charge[s] <= cost[s] /\ charge[s] = 0
      BY DEF Init
    <3> QED BY <2>3, <2>5, <3>1 DEF Charged
  <2>8. ChargeInv
    BY <2>4, <2>6, <2>7 DEF ChargeInv
  <2> QED BY <2>1, <2>2, <2>8
<1>2. OnceInv /\ [Next]_vars => ChargeInv' /\ RecordInv'
  BY ChargesKept
<1>3. OnceInv /\ [Next]_vars => SettleInv'
  BY ReservationsKept DEF OnceInv, BaseInv
<1>4. OnceInv => ChargedOnceCommitted
  BY ChargesBound
<1> QED BY <1>1, <1>2, <1>3, <1>4, BaseInvariance, PTL DEF Spec, OnceInv

=============================================================================
