---------------------------- MODULE AdaptiveLoop ----------------------------
(***************************************************************************)
(* The feedback loop of one VeronicaOS: the outcomes a store keeps decide, *)
(* through an analyzer and a cost model, the ceiling that the planner      *)
(* gives the next step, of whichever chain.  Steps follow each other; how  *)
(* they interleave is VeronicaOS' concern.  Amounts are integers, and a    *)
(* product with a factor is rounded down to that grid.                     *)
(***************************************************************************)
EXTENDS StepHistory

CONSTANTS
    Chains, Intents, Outcomes,  \* what steps intend and what comes of them
    Setups,             \* choices of [store, analyzer, costModel, planner]
    Price,              \* model -> its price by PRICING_TABLE and default tokens
    FallbackCost,       \* _FALLBACK_COST_USD
    RequestBudget,
    Overshoot,          \* how far past its ceiling a step's last call may go
    BaseCeiling, MinCeiling, MaxCeiling,
    CooldownSteps,      \* _COOLDOWN_STEPS
    DepthThreshold, FailureStreakElevated, FailureStreakCritical,
    DepthSoft, DepthHard, CostMinHistory, LoosenMinStreak,
    ViewLimit,          \* limit of build_history
    MaxOutcomes,        \* _MAX_OUTCOMES_PER_CHAIN
    MaxSteps            \* bound: steps taken

ASSUME LoopAssumption ==
    /\ \A n \in {FallbackCost, RequestBudget, Overshoot, MinCeiling, MaxCeiling,
                 CooldownSteps, DepthThreshold, FailureStreakElevated, FailureStreakCritical,
                 DepthSoft, DepthHard, CostMinHistory, LoosenMinStreak, MaxOutcomes,
                 MaxSteps} : n \in Nat
    /\ BaseCeiling \in MinCeiling..MaxCeiling
    /\ ViewLimit \in 1..MaxOutcomes
    /\ \A m \in DOMAIN Price : Price[m] \in Nat
    /\ Outcomes \subseteq [kind : STRING, model : STRING, status : STRING,
                           cost : Nat, elapsed : Nat]

VARIABLES
    setup,          \* the components it is composed of
    ceiling,        \* _effective_ceiling of the planner
    cooldown,       \* _cooldowns[""] of AdaptivePlanner, of all chains
    analysis,       \* _last_analysis, of whichever chain
    outcomes,       \* chain -> outcomes the store has
    stats,          \* chain -> statistics FileStore keeps
    spent,          \* _chain_spent_usd
    step,           \* the step under way
    steps,          \* history: steps that have begun
    sinceAdjusted,  \* history: plans since the ceiling was last raised or cut
    plansSince,     \* history: the plans of each chain since one moved the ceiling for it
    lastChain       \* history: chain of the last step that ended

vars == <<setup, ceiling, cooldown, analysis, outcomes, stats, spent, step, steps,
          sinceAdjusted, plansSince, lastChain>>

NoStep == [chain |-> {}]
NoAnalysis == [signals |-> {}, recommendation |-> "none"]
Larger(a, b) == IF a > b THEN a ELSE b
Smaller(a, b) == IF a < b THEN a ELSE b

Init ==
    /\ setup \in Setups
    /\ ceiling = BaseCeiling /\ cooldown = 0 /\ analysis = NoAnalysis
    /\ outcomes = [c \in Chains |-> <<>>]
    /\ stats = [c \in Chains |-> FreshStats]
    /\ spent = [c \in Chains |-> 0]
    /\ step = NoStep /\ steps = 0 /\ lastChain = {}
    /\ sinceAdjusted = CooldownSteps /\ plansSince = [c \in Chains |-> CooldownSteps]

(* build_history: MemoryStore leaves most of a view at its defaults.        *)
View(c) ==
    LET recent == LastN(outcomes[c], ViewLimit)
        s == IF setup.store = "file" THEN stats[c] ELSE FreshStats
    IN  [depth |-> Len(recent), success |-> s.success, headroom |-> s.headroom,
         failure |-> IF setup.store = "file" THEN s.failure ELSE TrailingFailures(recent),
         loop |-> IF setup.store = "file" THEN LoopScore(recent) ELSE <<0, 1>>,
         costEma |-> s.costEma, costByModel |-> s.costByModel,
         latencyByModel |-> s.latencyByModel]

----------------------------------------------------------------------------
(* Cost models.                                                             *)

TablePrice(intent) ==
    IF intent.model \in DOMAIN Price THEN Price[intent.model] ELSE FallbackCost

TableEstimate(intent) == IF intent.kind = "tool" THEN 0 ELSE TablePrice(intent)

RegressionEstimate(intent, view) ==
    IF intent.kind = "tool" THEN 0
    ELSE IF intent.model \in DOMAIN view.costByModel /\ view.costByModel[intent.model] > 0
         THEN view.costByModel[intent.model] ELSE TablePrice(intent)

----------------------------------------------------------------------------
(* Analyzers.                                                               *)

Signal(kind, severity) == [kind |-> kind, severity |-> severity]
When(holds, signal) == IF holds THEN {signal} ELSE {}
Failed(o) == o.status \in {"halted", "error", "timeout"}

RuleAnalysis(intent, o, view) ==
    LET streak == view.failure + IF o.status # "ok" THEN 1 ELSE 0
    IN  [signals |->
            When(intent.kind # o.kind, Signal("intent_deviation", "warning"))
            \cup When(streak >= FailureStreakCritical, Signal("repeated_failure", "critical"))
            \cup When(streak \in FailureStreakElevated..FailureStreakCritical - 1,
                      Signal("repeated_failure", "warning"))
            \cup When(view.depth >= DepthThreshold, Signal("depth_anomaly", "critical")),
         recommendation |->
            IF view.depth >= DepthThreshold THEN "halt"
            ELSE IF Failed(o) THEN "tighten"
            ELSE IF o.status = "ok" /\ view.failure = 0 THEN "loosen"
            ELSE "continue"]

(* A run is clean that ended with enough successes and half of the budget.  *)
CleanRun(o, view) ==
    /\ o.status = "ok" /\ view.success >= LoosenMinStreak
    /\ 2 * view.headroom[1] >= view.headroom[2]

Looping(view) == 10 * view.loop[1] >= 7 * view.loop[2]
CostSpike(o, view) ==
    view.depth >= CostMinHistory /\ view.costEma > 0 /\ o.cost > 2 * view.costEma
LatencySpike(o, view) ==
    /\ o.model \in DOMAIN view.latencyByModel /\ view.latencyByModel[o.model] > 0
    /\ o.elapsed > 3 * view.latencyByModel[o.model]

(* The most severe of what the patterns recommend. *)
HistoryAnalysis(o, view) ==
    [signals |->
        When(Failed(o), Signal("halt_tighten", IF o.status = "halted" THEN "critical" ELSE "warning"))
        \cup When(CleanRun(o, view), Signal("clean_loosen", "info"))
        \cup When(view.depth >= DepthHard, Signal("depth_guard", "critical"))
        \cup When(view.depth \in DepthSoft..DepthHard - 1, Signal("depth_guard", "warning"))
        \cup When(CostSpike(o, view), Signal("cost_acceleration", "warning"))
        \cup When(Looping(view), Signal("loop_detection", "warning"))
        \cup When(LatencySpike(o, view), Signal("latency_anomaly", "info")),
     recommendation |->
        IF view.depth >= DepthHard THEN "halt"
        ELSE IF Failed(o) \/ view.depth >= DepthSoft \/ CostSpike(o, view) \/ Looping(view)
        THEN "tighten"
        ELSE IF CleanRun(o, view) THEN "loosen" ELSE "continue"]

----------------------------------------------------------------------------
(* SimplePlanner and AdaptivePlanner                                        *)

SimplyAdjusted ==
    IF analysis.recommendation = "tighten" THEN (ceiling * 90) \div 100
    ELSE IF analysis.recommendation = "loosen" THEN (ceiling * 105) \div 100
    ELSE ceiling

(* In hundredths: how severe what halted the step was, or any signal is.    *)
TightenFactor ==
    LET halts == {s \in analysis.signals : s.kind = "halt_tighten"}
        severe == IF halts # {} THEN halts ELSE analysis.signals
    IN  IF severe = {} THEN 90
        ELSE IF \E s \in severe : s.severity = "critical" THEN 50 ELSE 85

Adjusts == cooldown <= 0 /\ analysis.recommendation \in {"tighten", "loosen"}

Adjusted ==
    IF ~Adjusts THEN ceiling
    ELSE IF analysis.recommendation = "tighten" THEN (ceiling * TightenFactor) \div 100
    ELSE (ceiling * 103) \div 100

(* What remains of the chain is applied first, and the minimum not at all.  *)
WithinBoundsLow(amount, remaining) == Smaller(MaxCeiling, Smaller(amount, remaining))

WithinBounds(amount, remaining) ==
    Smaller(Larger(MinCeiling, Smaller(MaxCeiling, amount)), remaining)

(* The least AdaptivePlanner plans for a step of which this is the estimate. *)
Floor(estimate) == IF setup.planner = "simple" THEN 0 ELSE (3 * estimate) \div 2

PlannedCeiling(estimate, remaining) ==
    WithinBounds(IF setup.planner = "simple" THEN SimplyAdjusted
                 ELSE Larger(Adjusted, Floor(estimate)), remaining)

CooldownUnlessIdle == IF Adjusts THEN CooldownSteps - 1 ELSE Larger(0, cooldown - 1)
CooldownAfter == IF Adjusts THEN CooldownSteps ELSE Larger(0, cooldown - 1)

----------------------------------------------------------------------------
TotalSpent == FoldFunctionOnSet(LAMBDA a, sum : a + sum, 0, spent, Chains)
Remaining(c) == RequestBudget - spent[c]
Estimate(c, intent) ==
    IF setup.costModel = "table" THEN TableEstimate(intent)
    ELSE RegressionEstimate(intent, View(c))

Arbiter == INSTANCE LocalArbiters WITH MinAllocation <- 0

(* The ceiling was raised, or cut, and not only moved to one of its bounds.  *)
Raised(planned, floor) == planned > Larger(ceiling, Larger(floor, MinCeiling))
Cut(planned, remaining) == planned < Smaller(ceiling, Smaller(MaxCeiling, remaining))

BeforeStep(c, intent) ==
    /\ step = NoStep /\ steps < MaxSteps
    /\ LET estimate == Estimate(c, intent)
           planned == PlannedCeiling(estimate, Remaining(c))
           moved   == Raised(planned, Floor(estimate)) \/ Cut(planned, Remaining(c))
           granted == Arbiter!PassthroughCeiling([ceiling |-> planned], RequestBudget - TotalSpent)
       IN  /\ ceiling' = planned
           /\ cooldown' = IF setup.planner = "simple" THEN 0 ELSE CooldownAfter
           /\ step' = [chain |-> c, intent |-> intent, estimate |-> estimate, granted |-> granted]
           /\ sinceAdjusted' = IF moved THEN 0 ELSE Smaller(CooldownSteps, sinceAdjusted + 1)
           /\ plansSince' = [plansSince EXCEPT ![c] =
                                IF moved THEN 0 ELSE Smaller(CooldownSteps, @ + 1)]
    /\ steps' = steps + 1
    /\ UNCHANGED <<setup, analysis, outcomes, stats, spent, lastChain>>

(* A negative ceiling makes no ExecutionConfig: the step ends in step(), with *)
(* neither a call nor an outcome.                                           *)
RefuseStep ==
    /\ step # NoStep /\ step.granted < 0
    /\ step' = NoStep
    /\ UNCHANGED <<setup, ceiling, cooldown, analysis, outcomes, stats, spent, steps,
                   sinceAdjusted, plansSince, lastChain>>

(* What a step may cost: its last call starts below the ceiling.            *)
CostBound(granted) == IF granted = 0 THEN 0 ELSE granted + Overshoot

(* The view that is analyzed is without the outcome itself.                 *)
AfterStep(o) ==
    /\ step # NoStep /\ step.granted >= 0 /\ o.cost <= CostBound(step.granted)
    /\ LET c == step.chain
           left == RequestBudget - (TotalSpent + o.cost)
       IN  /\ analysis' = IF setup.analyzer = "rule"
                          THEN RuleAnalysis(step.intent, o, View(c)) ELSE HistoryAnalysis(o, View(c))
           /\ spent' = [spent EXCEPT ![c] = @ + o.cost]
           /\ outcomes' = [outcomes EXCEPT ![c] = LastN(Append(@, o), MaxOutcomes)]
           /\ stats' = [stats EXCEPT ![c] = CountOutcome(@, o, <<left, RequestBudget>>)]
           /\ lastChain' = {c}
    /\ step' = NoStep
    /\ UNCHANGED <<setup, ceiling, cooldown, steps, sinceAdjusted, plansSince>>

Next ==
    \/ \E c \in Chains, intent \in Intents : BeforeStep(c, intent)
    \/ RefuseStep
    \/ \E o \in Outcomes : AfterStep(o)

Spec == Init /\ [][Next]_vars

----------------------------------------------------------------------------
(***************************************************************************)
(* The ceiling is one for all chains, and is stored as clamped to what one *)
(* of them has left.  Still, a chain gets no less than the minimum, or,    *)
(* from AdaptivePlanner, than a step as expensive as estimated may need,   *)
(* when it has that much left itself, however little another had, and      *)
(* never more than the maximum (plan).                                     *)
(***************************************************************************)
CeilingBounded ==
    step # NoStep =>
        LET left == Remaining(step.chain) IN
        /\ ceiling <= MaxCeiling /\ ceiling <= left
        /\ ceiling >= Smaller(MinCeiling, left)
        /\ ceiling >= Smaller(Floor(step.estimate), Smaller(MaxCeiling, left))

(* The chain of the last step ended with n successes, or has no other.      *)
EndsWell(n) ==
    \A c \in lastChain :
        \A i \in DOMAIN outcomes[c] : i > Len(outcomes[c]) - n => outcomes[c][i].status = "ok"

(***************************************************************************)
(* AdaptivePlanner raises or cuts the ceiling at most once in              *)
(* CooldownSteps + 1 plans of all chains together, as its cooldown has one *)
(* key for them all; what is documented of each chain is CooldownPerChain, *)
(* which the code does not keep.  The ceiling is raised only when the step *)
(* that ended last closed a clean run of its chain: two successes for      *)
(* RuleAnalyzer, one more than LoosenMinStreak for HistoryAnalyzer (plan,  *)
(* analyze).                                                               *)
(***************************************************************************)
AdjustmentsAreEarned ==
    [][\A c \in Chains, intent \in Intents :
        BeforeStep(c, intent) =>
            LET raised == Raised(ceiling', Floor(step'.estimate))
                cut    == Cut(ceiling', Remaining(c))
            IN  /\ raised \/ cut => setup.planner = "simple" \/ sinceAdjusted = CooldownSteps
                /\ raised => EndsWell(IF setup.analyzer = "rule" THEN 2 ELSE LoosenMinStreak + 1)]_vars

(***************************************************************************)
(* AdaptivePlanner documents a cooldown per chain: the plan that moves the *)
(* ceiling for a chain is followed by CooldownSteps plans of that chain    *)
(* that do not.  The plans of other chains use it up (plan).               *)
(***************************************************************************)
CooldownPerChain ==
    [][\A c \in Chains, intent \in Intents :
        BeforeStep(c, intent) =>
            \/ setup.planner = "simple"
            \/ plansSince[c] = CooldownSteps
            \/ ~Raised(ceiling', Floor(step'.estimate)) /\ ~Cut(ceiling', Remaining(c))]_vars
=============================================================================
