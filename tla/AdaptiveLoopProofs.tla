------------------------- MODULE AdaptiveLoopProofs -------------------------
(***************************************************************************)
(* What the adaptive loop guarantees for every number of chains and steps, *)
(* any outcomes, prices, limits, ceilings and choice of components: the    *)
(* bounds of the ceiling (CeilingBounded), and that it is moved no more    *)
(* often than the cooldown allows and raised only after a clean run        *)
(* (AdjustmentsAreEarned).                                                 *)
(***************************************************************************)
EXTENDS AdaptiveLoop, SequenceTheorems, WellFoundedInduction, TLAPS

-----------------------------------------------------------------------------
(* The inductive invariant. *)

Averages == UNION {[M -> Nat] : M \in SUBSET STRING}

\* Well formed statistics of a chain, whatever their headroom.
AreStatistics(s) ==
  \E ratio : s \in [costEma : Nat, costByModel : Averages, latencyByModel : Averages,
                    success : Nat, failure : Nat, total : Nat, headroom : {ratio},
                    sinceRotate : Nat]

LoopTypes ==
  /\ ceiling \in Int /\ cooldown \in Nat /\ sinceAdjusted \in 0..CooldownSteps
  /\ spent \in [Chains -> Int]
  /\ outcomes \in [Chains -> Seq(Outcomes)]
  /\ DOMAIN stats = Chains /\ stats = [c \in Chains |-> stats[c]]
  /\ \A c \in Chains : AreStatistics(stats[c])
  /\ step # NoStep => step.chain \in Chains
  /\ lastChain \in SUBSET Chains

\* The last n outcomes of outs, or all of them, are ok.
OkAtEnd(outs, n) == \A i \in 1..Len(outs) : i > Len(outs) - n => outs[i].status = "ok"

\* A streak of successes is one of the outcomes that are kept, and a streak
\* of failures that is zero follows a success.
Streak(s, outs) ==
  /\ OkAtEnd(outs, s.success)
  /\ s.failure = 0 => OkAtEnd(outs, 1)
Streaks == \A c \in Chains : Streak(stats[c], outcomes[c])

\* What is left of the cooldown, and the plans since the last adjustment,
\* cover it together.
Paced == setup.planner # "simple" => cooldown + sinceAdjusted >= CooldownSteps

\* The length of the run that recommends to raise the ceiling.
CleanLength == IF setup.analyzer = "rule" THEN 2 ELSE LoosenMinStreak + 1
Earned ==
  analysis.recommendation = "loosen" =>
    \A c \in lastChain : OkAtEnd(outcomes[c], CleanLength)

LoopInv == LoopTypes /\ Streaks /\ Paced /\ Earned /\ CeilingBounded

(* The constants are numbers in the order the code gives them. *)
LEMMA Amounts ==
  /\ FallbackCost \in Nat /\ RequestBudget \in Nat /\ MinCeiling \in Nat /\ MaxCeiling \in Nat
  /\ BaseCeiling \in Int /\ MinCeiling <= BaseCeiling /\ BaseCeiling <= MaxCeiling
  /\ CooldownSteps \in Nat /\ LoosenMinStreak \in Nat /\ MaxOutcomes \in Nat \ {0}
  /\ ViewLimit \in Nat \ {0}
<1>1. /\ FallbackCost \in Nat /\ RequestBudget \in Nat /\ MinCeiling \in Nat /\ MaxCeiling \in Nat
      /\ CooldownSteps \in Nat /\ LoosenMinStreak \in Nat /\ MaxOutcomes \in Nat
  BY LoopAssumption, Zenon
<1>2. BaseCeiling \in MinCeiling..MaxCeiling /\ ViewLimit \in 1..MaxOutcomes
  BY LoopAssumption, Zenon
<1> QED BY <1>1, <1>2

(* What comes of a step is recorded with numbers. *)
LEMMA OutcomeFields ==
  ASSUME NEW o \in Outcomes
  PROVE  /\ o.cost \in Nat /\ o.elapsed \in Nat
         /\ o.model \in STRING /\ o.status \in STRING
<1>1. o \in [kind : STRING, model : STRING, status : STRING, cost : Nat, elapsed : Nat]
  BY LoopAssumption, Zenon
<1> QED BY <1>1

-----------------------------------------------------------------------------
(* Statistics. *)

(* Fresh statistics are well formed (_ChainStats()). *)
LEMMA FreshWellFormed == AreStatistics(FreshStats)
<1>1. NoAverages \in Averages
  BY DEF NoAverages, Averages
<1>2. FreshStats \in [costEma : Nat, costByModel : Averages, latencyByModel : Averages,
                      success : Nat, failure : Nat, total : Nat, headroom : {<<1, 1>>},
                      sinceRotate : Nat]
  BY <1>1 DEF FreshStats
<1> QED BY <1>2 DEF AreStatistics

(* An average of a model that has one stays a natural number.              *)
LEMMA AveragedWellFormed ==
  ASSUME NEW f \in Averages, NEW m \in STRING, NEW sample \in Nat
  PROVE  Averaged(f, m, sample) \in Averages
<1>1. PICK M \in SUBSET STRING : f \in [M -> Nat]
  BY DEF Averages
<1>2. DOMAIN f = M /\ \A x \in M : f[x] \in Nat
  BY <1>1
<1> DEFINE prev == IF m \in DOMAIN f THEN f[m] ELSE 0
           g == [x \in DOMAIN f \cup {m} |-> IF x = m THEN Ema(prev, sample) ELSE f[x]]
<1>3. Ema(prev, sample) \in Nat
  <2>1. prev \in Nat
    BY <1>2
  <2> HIDE DEF prev
  <2> QED BY <2>1 DEF Ema
<1>4. g \in [M \cup {m} -> Nat]
  BY <1>2, <1>3
<1>5. Averaged(f, m, sample) = g
  BY Zenon DEF Averaged
<1> HIDE DEF g
<1>6. M \cup {m} \in SUBSET STRING
  OBVIOUS
<1> QED BY <1>4, <1>5, <1>6 DEF Averages

(* What one more outcome does to the statistics of a chain: the streaks    *)
(* follow its status, and the rest stays well formed (_update_stats).      *)
LEMMA CountedStreaks ==
  ASSUME NEW s, AreStatistics(s), NEW o \in Outcomes, NEW budget
  PROVE  LET new == CountOutcome(s, o, budget) IN
         /\ AreStatistics(new)
         /\ s.success \in Nat /\ s.failure \in Nat
         /\ new.success = SuccessAfter(s, o) /\ new.failure = FailureAfter(s, o)
<1> DEFINE new == CountOutcome(s, o, budget)
           byCost == IF Tracks(s, o.model) THEN Averaged(s.costByModel, o.model, o.cost)
                     ELSE s.costByModel
           byLatency == IF Tracks(s, o.model)
                        THEN Averaged(s.latencyByModel, o.model, o.elapsed)
                        ELSE s.latencyByModel
           left == Headroom(s, budget)
<1>1. PICK ratio : s \in [costEma : Nat, costByModel : Averages, latencyByModel : Averages,
                          success : Nat, failure : Nat, total : Nat, headroom : {ratio},
                          sinceRotate : Nat]
  BY DEF AreStatistics
<1>2. /\ s.costEma \in Nat /\ s.costByModel \in Averages /\ s.latencyByModel \in Averages
      /\ s.success \in Nat /\ s.failure \in Nat /\ s.total \in Nat
  BY <1>1
<1>3. byCost \in Averages /\ byLatency \in Averages
  BY <1>2, OutcomeFields, AveragedWellFormed
<1>4. /\ Ema(s.costEma, o.cost) \in Nat /\ SuccessAfter(s, o) \in Nat
      /\ FailureAfter(s, o) \in Nat /\ s.total + 1 \in Nat
  <2>1. Ema(s.costEma, o.cost) \in Nat
    BY <1>2, OutcomeFields DEF Ema
  <2>2. s.success + 1 \in Nat /\ s.failure + 1 \in Nat /\ s.total + 1 \in Nat
    BY <1>2
  <2> QED BY <2>1, <2>2, <1>2 DEF SuccessAfter, FailureAfter
<1> HIDE DEF byCost, byLatency, left
<1>5. new = [s EXCEPT !.costEma = Ema(s.costEma, o.cost), !.costByModel = byCost,
                      !.latencyByModel = byLatency, !.success = SuccessAfter(s, o),
                      !.failure = FailureAfter(s, o), !.total = s.total + 1,
                      !.headroom = left]
  BY Zenon DEF CountOutcome, byCost, byLatency, left
<1> HIDE DEF new
<1>6. /\ new \in [costEma : Nat, costByModel : Averages, latencyByModel : Averages,
                  success : Nat, failure : Nat, total : Nat, headroom : {left},
                  sinceRotate : Nat]
      /\ new.success = SuccessAfter(s, o) /\ new.failure = FailureAfter(s, o)
  BY <1>1, <1>3, <1>4, <1>5
<1>7. AreStatistics(new)
  BY <1>6 DEF AreStatistics
<1> QED BY <1>2, <1>6, <1>7 DEF new

-----------------------------------------------------------------------------
(* The outcomes at the end of a chain. *)

(* The last n outcomes of a sequence, the first of which is somewhere in it. *)
LEMMA LastNIsEnd ==
  ASSUME NEW outs \in Seq(Outcomes), NEW n \in Nat \ {0}
  PROVE  LET end == LastN(outs, n) IN
         /\ end \in Seq(Outcomes) /\ Len(end) <= Len(outs)
         /\ outs # <<>> => Len(end) > 0
         /\ \A i \in 1..Len(end) : end[i] = outs[Len(outs) - Len(end) + i]
<1> DEFINE m == IF Len(outs) > n THEN Len(outs) - n + 1 ELSE 1
           u == SubSeq(outs, m, Len(outs))
<1>1. Len(outs) \in Nat /\ m \in Nat \ {0} /\ m <= Len(outs) + 1
      /\ (outs # <<>> => m <= Len(outs))
  OBVIOUS
<1>2. \A i \in m..Len(outs) : outs[i] \in Outcomes
  <2>1. \A i \in m..Len(outs) : i \in 1..Len(outs)
    BY <1>1
  <2> QED BY <2>1
<1> HIDE DEF m
<1>3. m \in Int /\ Len(outs) \in Int
  BY <1>1
<1>4. /\ u \in Seq(Outcomes)
      /\ Len(u) = IF m <= Len(outs) THEN Len(outs) - m + 1 ELSE 0
      /\ \A i \in 1..Len(outs) - m + 1 : u[i] = outs[m + i - 1]
  BY <1>2, <1>3, SubSeqProperties
<1>5. LastN(outs, n) = u
  BY DEF LastN, m
<1> HIDE DEF u
<1>6. Len(u) = Len(outs) - m + 1 /\ Len(u) <= Len(outs) /\ (outs # <<>> => Len(u) > 0)
  BY <1>1, <1>4
<1>7. ASSUME NEW i \in 1..Len(u) PROVE u[i] = outs[Len(outs) - Len(u) + i]
  <2>1. Len(outs) - Len(u) + i = m + i - 1
    BY <1>1, <1>6
  <2>2. u[i] = outs[m + i - 1]
    BY <1>4, <1>6
  <2> QED BY <2>1, <2>2
<1> QED BY <1>4, <1>5, <1>6, <1>7

(* One more success makes a run at the end one longer, also where older    *)
(* outcomes are dropped.                                                   *)
LEMMA RunGrows ==
  ASSUME NEW outs \in Seq(Outcomes), NEW n \in Nat, OkAtEnd(outs, n),
         NEW o \in Outcomes, o.status = "ok"
  PROVE  OkAtEnd(LastN(Append(outs, o), MaxOutcomes), n + 1)
<1> DEFINE more == Append(outs, o)
           end == LastN(more, MaxOutcomes)
<1>1. /\ more \in Seq(Outcomes) /\ Len(more) = Len(outs) + 1 /\ Len(outs) \in Nat
      /\ more[Len(outs) + 1] = o /\ \A i \in 1..Len(outs) : more[i] = outs[i]
  OBVIOUS
<1> HIDE DEF more
<1>2. /\ end \in Seq(Outcomes) /\ Len(end) <= Len(more)
      /\ \A i \in 1..Len(end) : end[i] = more[Len(more) - Len(end) + i]
  BY <1>1, Amounts, LastNIsEnd
<1> HIDE DEF end
<1>3. Len(end) \in Nat
  BY <1>2
<1>4. ASSUME NEW i \in 1..Len(end), i > Len(end) - (n + 1)
      PROVE  end[i].status = "ok"
  <2>0. i \in Int
    OBVIOUS
  <2>9. Len(more) \in Int /\ Len(end) \in Int
    BY <1>1, <1>3
  <2>1. PICK k : k = Len(more) - Len(end) + i
    OBVIOUS
  <2>2. k \in 1..Len(outs) + 1 /\ k > Len(outs) - n
    BY <1>1, <1>2, <1>3, <1>4, <2>0, <2>1, <2>9
  <2>3. end[i] = more[k]
    BY <1>2, <2>1
  <2>4. CASE k = Len(outs) + 1
    BY <1>1, <2>3, <2>4
  <2>5. CASE k # Len(outs) + 1
    <3>1. k \in 1..Len(outs)
      BY <1>1, <2>2, <2>5
    <3> QED BY <1>1, <2>2, <2>3, <3>1 DEF OkAtEnd
  <2> QED BY <2>4, <2>5
<1> QED BY <1>4 DEF OkAtEnd, end, more

(* A run at the end has shorter ones at its end. *)
LEMMA RunShrinks ==
  ASSUME NEW outs \in Seq(Outcomes), NEW n \in Int, NEW m \in Int, m <= n, OkAtEnd(outs, n)
  PROVE  OkAtEnd(outs, m)
<1>1. Len(outs) \in Nat
  OBVIOUS
<1>2. \A i \in 1..Len(outs) : i > Len(outs) - m => i > Len(outs) - n
  BY <1>1
<1> QED BY <1>2 DEF OkAtEnd

(* Every nonempty set of naturals has a least element. *)
LEMMA LeastNatural ==
  ASSUME NEW T \in SUBSET Nat, T # {}
  PROVE  \E m \in T : \A n \in T : m <= n
<1> DEFINE R == {p \in Nat \X Nat : p[1] < p[2]}
<1>1. IsWellFoundedOn(R, Nat)
  BY NatLessThanWellFounded, Zenon DEF OpToRel
<1> HIDE DEF R
<1>2. PICK m \in T : \A n \in T : <<n, m>> \notin R
  BY <1>1, WFMin, Zenon
<1>3. \A n \in T : ~(n < m)
  BY <1>2 DEF R
<1> QED BY <1>3

(* No outcome that is not ok at the end of a window is no such outcome at  *)
(* the end of the chain (MemoryStore.build_history counts in the window).  *)
LEMMA NoTrailingFailure ==
  ASSUME NEW outs \in Seq(Outcomes), NEW limit \in Nat \ {0},
         TrailingFailures(LastN(outs, limit)) = 0
  PROVE  OkAtEnd(outs, 1)
<1> DEFINE end == LastN(outs, limit)
           oks == {i \in DOMAIN end : end[i].status = "ok"}
           far == {k \in Nat : \E i \in oks : k = Len(end) - i}
<1>1. /\ end \in Seq(Outcomes) /\ Len(end) <= Len(outs)
      /\ outs # <<>> => Len(end) > 0
      /\ \A i \in 1..Len(end) : end[i] = outs[Len(outs) - Len(end) + i]
  BY LastNIsEnd
<1>2. Len(end) - (IF oks = {} THEN 0 ELSE Max(oks)) = 0
  BY Zenon DEF TrailingFailures
<1> HIDE DEF end
<1>3. Len(end) \in Nat /\ DOMAIN end = 1..Len(end) /\ Len(outs) \in Nat
  BY <1>1
<1>4. SUFFICES ASSUME outs # <<>> PROVE OkAtEnd(outs, 1)
  BY <1>3 DEF OkAtEnd
<1>5. Max(oks) = Len(end) /\ Max(oks) \in oks
  <2>1. oks \subseteq 1..Len(end)
    BY <1>3
  <2> HIDE DEF oks
  <2>2. oks # {}
    BY <1>1, <1>2, <1>3, <1>4
  <2>3. \E x \in oks : \A y \in oks : x >= y
    <3>1. far \in SUBSET Nat /\ far # {}
      <4>1. PICK i \in oks : TRUE
        BY <2>2
      <4>2. Len(end) - i \in Nat
        BY <1>3, <2>1, <4>1
      <4> QED BY <4>2
    <3>2. PICK k \in far : \A j \in far : k <= j
      <4> HIDE DEF far
      <4> QED BY <3>1, LeastNatural
    <3>3. PICK x \in oks : k = Len(end) - x
      OBVIOUS
    <3>4. ASSUME NEW y \in oks PROVE x >= y
      <4>0. y \in 1..Len(end)
        BY <2>1
      <4>1. Len(end) - y \in far
        <5> DEFINE l == Len(end)
        <5>2. l \in Nat /\ y \in 1..l
          BY <1>3, <4>0
        <5> HIDE DEF l, far
        <5>1. l - y \in Nat
          BY <5>2
        <5> USE DEF l, far
        <5> QED BY <5>1
      <4>2. k <= Len(end) - y
        BY <3>2, <4>1
      <4> QED BY <1>3, <2>1, <3>3, <4>2
    <3> QED BY <3>4
  <2>4. Max(oks) \in oks
    BY <2>3 DEF Max
  <2>5. Max(oks) \in 1..Len(end)
    BY <2>1, <2>4
  <2>6. Len(end) - Max(oks) = 0
    BY <1>2, <2>2
  <2> HIDE DEF oks
  <2> QED BY <1>3, <2>4, <2>5, <2>6
<1>6. Len(end) \in oks
  BY <1>5
<1>7. end[Len(end)].status = "ok"
  BY <1>6
<1>8. outs[Len(outs)].status = "ok"
  <2>1. Len(end) \in 1..Len(end) /\ Len(outs) - Len(end) + Len(end) = Len(outs)
    BY <1>1, <1>3, <1>4
  <2>2. end[Len(end)] = outs[Len(outs) - Len(end) + Len(end)]
    BY <1>1, <2>1
  <2> QED BY <1>7, <2>1, <2>2
<1>9. \A i \in 1..Len(outs) : i > Len(outs) - 1 => i = Len(outs)
  BY <1>3
<1> QED BY <1>8, <1>9 DEF OkAtEnd

-----------------------------------------------------------------------------
(* The planners. *)

(* An estimate is an amount, by either cost model (estimate). *)
LEMMA EstimateTypes ==
  ASSUME LoopTypes, NEW c \in Chains, NEW intent
  PROVE  Estimate(c, intent) \in Nat
<1>1. TablePrice(intent) \in Nat
  BY LoopAssumption, Amounts DEF TablePrice
<1>2. PICK s : s = View(c).costByModel
  OBVIOUS
<1>3. \A m \in DOMAIN s : s[m] \in Nat
  <2>1. AreStatistics(stats[c]) /\ AreStatistics(FreshStats)
    BY FreshWellFormed DEF LoopTypes
  <2>2. stats[c].costByModel \in Averages /\ FreshStats.costByModel \in Averages
    BY <2>1 DEF AreStatistics
  <2>3. s = IF setup.store = "file" THEN stats[c].costByModel ELSE FreshStats.costByModel
    BY <1>2 DEF View
  <2>4. s \in Averages
    BY <2>2, <2>3
  <2>5. PICK M \in SUBSET STRING : s \in [M -> Nat]
    BY <2>4 DEF Averages
  <2> QED BY <2>5
<1>4. RegressionEstimate(intent, View(c)) \in Nat
  BY <1>1, <1>2, <1>3 DEF RegressionEstimate
<1>5. TableEstimate(intent) \in Nat
  BY <1>1 DEF TableEstimate
<1> QED BY <1>4, <1>5 DEF Estimate

(* The floor of a plan is an amount. *)
LEMMA FloorTypes ==
  ASSUME NEW estimate \in Nat
  PROVE  Floor(estimate) \in Nat
BY DEF Floor

(* A plan is an amount within the bounds of the planner and of what is     *)
(* left, and moved no further than they require (plan).                    *)
LEMMA WithinBoundsFacts ==
  ASSUME NEW amount \in Int, NEW left \in Int
  PROVE  LET planned == WithinBounds(amount, left) IN
         /\ planned \in Int /\ planned <= MaxCeiling /\ planned <= left
         /\ planned >= Smaller(MinCeiling, left)
         /\ planned >= Smaller(amount, Smaller(MaxCeiling, left))
         /\ planned <= Larger(amount, MinCeiling)
BY Amounts DEF WithinBounds, Larger, Smaller

(* A planner that tightens never raises the ceiling above zero and what it *)
(* was, and one that does not adjust it leaves it as it was.               *)
LEMMA AdjustedFacts ==
  ASSUME ceiling \in Int
  PROVE  /\ SimplyAdjusted \in Int /\ Adjusted \in Int
         /\ analysis.recommendation # "loosen" =>
              SimplyAdjusted <= Larger(ceiling, 0) /\ Adjusted <= Larger(ceiling, 0)
         /\ ~Adjusts => Adjusted = ceiling
<1>1. TightenFactor \in {90, 50, 85}
  BY DEF TightenFactor
<1>2. ASSUME NEW f \in {90, 50, 85, 105, 103}
      PROVE  (ceiling * f) \div 100 \in Int
  BY <1>2
<1>3. ASSUME NEW f \in {90, 50, 85}
      PROVE  (ceiling * f) \div 100 <= Larger(ceiling, 0)
  <2>1. CASE f = 90
    BY <2>1 DEF Larger
  <2>2. CASE f = 50
    BY <2>2 DEF Larger
  <2>3. CASE f = 85
    BY <2>3 DEF Larger
  <2> QED BY <2>1, <2>2, <2>3
<1>4. ceiling <= Larger(ceiling, 0)
  BY DEF Larger
<1> QED BY <1>1, <1>2, <1>3, <1>4 DEF SimplyAdjusted, Adjusted, Adjusts

\* The amount that is put within the bounds.
Aimed(floor) == IF setup.planner = "simple" THEN SimplyAdjusted ELSE Larger(Adjusted, floor)

(* What a plan for a step is: within its bounds, at least its floor where  *)
(* they allow it; raised only on a recommendation to loosen; and, by       *)
(* AdaptivePlanner, neither raised nor cut during the cooldown.            *)
LEMMA PlanFacts ==
  ASSUME LoopTypes, NEW c \in Chains, NEW estimate \in Nat, NEW planned,
         planned = PlannedCeiling(estimate, Remaining(c))
  PROVE  /\ planned \in Int /\ planned <= MaxCeiling /\ planned <= Remaining(c)
         /\ planned >= Smaller(MinCeiling, Remaining(c))
         /\ planned >= Smaller(Floor(estimate), Smaller(MaxCeiling, Remaining(c)))
         /\ Raised(planned, Floor(estimate)) => analysis.recommendation = "loosen"
         /\ setup.planner # "simple" /\ ~Adjusts =>
              ~Raised(planned, Floor(estimate)) /\ ~Cut(planned, Remaining(c))
<1> DEFINE left == Remaining(c)
           floor == Floor(estimate)
           amount == Aimed(floor)
<1>1. left \in Int
  BY Amounts DEF LoopTypes, Remaining
<1>2. floor \in Nat /\ (setup.planner = "simple" => floor = 0)
  BY FloorTypes DEF Floor
<1>3. ceiling \in Int
  BY DEF LoopTypes
<1>4. planned = WithinBounds(amount, left)
  BY DEF PlannedCeiling, Aimed
<1> HIDE DEF left, floor
<1>5. amount \in Int
  BY <1>2, <1>3, AdjustedFacts DEF Aimed, Larger
<1>6. setup.planner # "simple" => amount = Larger(Adjusted, floor)
  BY DEF Aimed
<1>7. analysis.recommendation # "loosen" => amount <= Larger(ceiling, floor)
  BY <1>2, <1>3, AdjustedFacts DEF Aimed, Larger
<1>8. setup.planner # "simple" /\ ~Adjusts => amount = Larger(ceiling, floor)
  BY <1>6, <1>3, AdjustedFacts
<1> HIDE DEF amount
<1>9. /\ planned \in Int /\ planned <= MaxCeiling /\ planned <= left
      /\ planned >= Smaller(MinCeiling, left)
      /\ planned >= Smaller(amount, Smaller(MaxCeiling, left))
      /\ planned <= Larger(amount, MinCeiling)
  BY <1>1, <1>4, <1>5, WithinBoundsFacts
<1>10. planned >= Smaller(floor, Smaller(MaxCeiling, left))
  <2>1. CASE setup.planner = "simple"
    BY <1>1, <1>2, <1>9, <2>1, Amounts DEF Smaller
  <2>2. CASE setup.planner # "simple"
    <3>1. amount >= floor
      BY <1>2, <1>3, <1>6, <2>2, AdjustedFacts DEF Larger
    <3> QED BY <1>1, <1>2, <1>5, <1>9, <3>1, Amounts DEF Smaller
  <2> QED BY <2>1, <2>2
<1>11. ASSUME Raised(planned, floor) PROVE analysis.recommendation = "loosen"
  <2>1. planned > Larger(ceiling, Larger(floor, MinCeiling))
    BY <1>11 DEF Raised
  <2>2. ~(amount <= Larger(ceiling, floor))
    BY <1>2, <1>3, <1>5, <1>9, <2>1, Amounts DEF Larger
  <2> QED BY <1>7, <2>2
<1>12. ASSUME setup.planner # "simple", ~Adjusts
       PROVE  ~Raised(planned, floor) /\ ~Cut(planned, left)
  <2>1. amount = Larger(ceiling, floor)
    BY <1>8, <1>12
  <2>2. ~Raised(planned, floor)
    BY <1>2, <1>3, <1>5, <1>9, <2>1, Amounts DEF Raised, Larger
  <2>3. ~Cut(planned, left)
    BY <1>1, <1>2, <1>3, <1>5, <1>9, <2>1, Amounts DEF Cut, Larger, Smaller
  <2> QED BY <2>2, <2>3
<1> QED BY <1>9, <1>10, <1>11, <1>12 DEF left, floor

-----------------------------------------------------------------------------
(* The steps. *)

(* A step is told from none by its grant. *)
LEMMA StepsDiffer ==
  ASSUME NEW c, NEW intent, NEW estimate, NEW granted
  PROVE  [chain |-> c, intent |-> intent, estimate |-> estimate, granted |-> granted] # NoStep
<1> DEFINE s == [chain |-> c, intent |-> intent, estimate |-> estimate, granted |-> granted]
<1>1. "granted" \in DOMAIN s /\ "granted" \notin DOMAIN NoStep
  BY DEF NoStep
<1> QED BY <1>1

(* What a plan changes. *)
LEMMA BeforeStepEffect ==
  ASSUME LoopTypes, NEW c \in Chains, NEW intent \in Intents, BeforeStep(c, intent)
  PROVE  \E estimate \in Nat :
           /\ step' # NoStep /\ step'.chain = c /\ step'.estimate = estimate
           /\ ceiling' = PlannedCeiling(estimate, Remaining(c))
           /\ cooldown' = IF setup.planner = "simple" THEN 0 ELSE CooldownAfter
           /\ sinceAdjusted' = IF \/ Raised(ceiling', Floor(estimate))
                                  \/ Cut(ceiling', Remaining(c))
                               THEN 0 ELSE Smaller(CooldownSteps, sinceAdjusted + 1)
           /\ UNCHANGED <<setup, analysis, outcomes, stats, spent, lastChain>>
<1> DEFINE estimate == Estimate(c, intent)
           planned == PlannedCeiling(estimate, Remaining(c))
           granted == Arbiter!PassthroughCeiling([ceiling |-> planned], RequestBudget - TotalSpent)
<1>1. estimate \in Nat
  BY EstimateTypes
<1>2. /\ ceiling' = planned
      /\ cooldown' = IF setup.planner = "simple" THEN 0 ELSE CooldownAfter
      /\ step' = [chain |-> c, intent |-> intent, estimate |-> estimate, granted |-> granted]
      /\ sinceAdjusted' = IF Raised(planned, Floor(estimate)) \/ Cut(planned, Remaining(c))
                          THEN 0 ELSE Smaller(CooldownSteps, sinceAdjusted + 1)
      /\ UNCHANGED <<setup, analysis, outcomes, stats, spent, lastChain>>
  BY Zenon DEF BeforeStep
<1> HIDE DEF estimate, granted
<1>3. step' # NoStep
  BY <1>2, StepsDiffer
<1>4. step'.chain = c /\ step'.estimate = estimate
  BY <1>2
<1> QED BY <1>1, <1>2, <1>3, <1>4, Zenon

(* A plan keeps the invariant: it sets the ceiling within its bounds and   *)
(* starts the cooldown when it adjusts it (plan).                          *)
LEMMA BeforeStepKeeps ==
  ASSUME LoopInv, NEW c \in Chains, NEW intent \in Intents, BeforeStep(c, intent)
  PROVE  LoopInv'
<1>0. LoopTypes
  BY DEF LoopInv
<1>1. PICK estimate \in Nat :
           /\ step' # NoStep /\ step'.chain = c /\ step'.estimate = estimate
           /\ ceiling' = PlannedCeiling(estimate, Remaining(c))
           /\ cooldown' = IF setup.planner = "simple" THEN 0 ELSE CooldownAfter
           /\ sinceAdjusted' = IF \/ Raised(ceiling', Floor(estimate))
                                  \/ Cut(ceiling', Remaining(c))
                               THEN 0 ELSE Smaller(CooldownSteps, sinceAdjusted + 1)
           /\ UNCHANGED <<setup, analysis, outcomes, stats, spent, lastChain>>
  BY <1>0, BeforeStepEffect, Zenon
<1>2. PICK planned : planned = ceiling'
  OBVIOUS
<1>3. /\ planned \in Int /\ planned <= MaxCeiling /\ planned <= Remaining(c)
      /\ planned >= Smaller(MinCeiling, Remaining(c))
      /\ planned >= Smaller(Floor(estimate), Smaller(MaxCeiling, Remaining(c)))
      /\ setup.planner # "simple" /\ ~Adjusts =>
           ~Raised(planned, Floor(estimate)) /\ ~Cut(planned, Remaining(c))
  <2>1. planned = PlannedCeiling(estimate, Remaining(c))
    BY <1>1, <1>2
  <2> QED BY <1>0, <2>1, PlanFacts
<1>4. /\ cooldown \in Nat /\ sinceAdjusted \in 0..CooldownSteps /\ CooldownSteps \in Nat
      /\ setup.planner # "simple" => cooldown + sinceAdjusted >= CooldownSteps
  BY Amounts DEF LoopInv, LoopTypes, Paced
<1>5. cooldown' \in Nat /\ sinceAdjusted' \in 0..CooldownSteps
  <2>1. CooldownAfter \in Nat
    BY <1>4 DEF CooldownAfter, Larger
  <2>2. Smaller(CooldownSteps, sinceAdjusted + 1) \in 0..CooldownSteps
    BY <1>4 DEF Smaller
  <2>3. 0 \in 0..CooldownSteps
    BY <1>4
  <2> QED BY <1>1, <2>1, <2>2, <2>3
<1>6. LoopTypes'
  BY <1>0, <1>1, <1>2, <1>3, <1>5 DEF LoopTypes, AreStatistics
<1>7. Streaks'
  BY <1>1 DEF LoopInv, Streaks, Streak, OkAtEnd
<1>8. Paced'
  <2>1. SUFFICES ASSUME setup.planner # "simple"
                 PROVE  cooldown' + sinceAdjusted' >= CooldownSteps
    BY <1>1 DEF Paced
  <2>2. cooldown' = CooldownAfter
    BY <1>1, <2>1
  <2>3. CASE Adjusts
    <3>1. cooldown' = CooldownSteps
      BY <2>2, <2>3 DEF CooldownAfter
    <3>2. PICK d, s : d = cooldown' /\ s = sinceAdjusted'
      OBVIOUS
    <3>3. d = CooldownSteps /\ s \in 0..CooldownSteps /\ CooldownSteps \in Nat
      BY <1>4, <1>5, <3>1, <3>2
    <3>4. d + s >= CooldownSteps
      BY <3>3
    <3> QED BY <3>2, <3>4
  <2>4. CASE ~Adjusts
    <3>1. sinceAdjusted' = Smaller(CooldownSteps, sinceAdjusted + 1)
      BY <1>1, <1>2, <1>3, <2>1, <2>4
    <3>2. cooldown' >= cooldown - 1 /\ cooldown' \in Nat
      BY <1>4, <2>2, <2>4 DEF CooldownAfter, Larger
    <3>3. PICK d, s : d = cooldown' /\ s = sinceAdjusted'
      OBVIOUS
    <3>4. s = Smaller(CooldownSteps, sinceAdjusted + 1) /\ d >= cooldown - 1 /\ d \in Nat
      BY <3>1, <3>2, <3>3
    <3>5. d + s >= CooldownSteps
      BY <1>4, <2>1, <3>4 DEF Smaller
    <3> QED BY <3>3, <3>5
  <2> QED BY <2>3, <2>4
<1>9. Earned'
  BY <1>1 DEF LoopInv, Earned, CleanLength, OkAtEnd
<1>10. CeilingBounded'
  <2>1. Remaining(c)' = Remaining(c) /\ Floor(estimate)' = Floor(estimate)
    BY <1>1 DEF Remaining, Floor
  <2>2. /\ ceiling' <= MaxCeiling /\ ceiling' <= Remaining(c)'
        /\ ceiling' >= Smaller(MinCeiling, Remaining(c)')
        /\ ceiling' >= Smaller(Floor(estimate)', Smaller(MaxCeiling, Remaining(c)'))
    BY <1>2, <1>3, <2>1
  <2>3. Remaining(step.chain)' = Remaining(c)' /\ Floor(step.estimate)' = Floor(estimate)'
    BY <1>1 DEF Remaining, Floor
  <2> QED BY <2>2, <2>3 DEF CeilingBounded, Smaller
<1> QED BY <1>6, <1>7, <1>8, <1>9, <1>10 DEF LoopInv

(* An analysis that recommends to loosen is of a step that succeeded at    *)
(* the end of a clean run, in which it is not yet counted.                 *)
LEMMA LooseningIsEarned ==
  ASSUME LoopInv, NEW c \in Chains, NEW intent, NEW o \in Outcomes, NEW a,
         a = IF setup.analyzer = "rule" THEN RuleAnalysis(intent, o, View(c))
             ELSE HistoryAnalysis(o, View(c)),
         a.recommendation = "loosen"
  PROVE  o.status = "ok" /\ OkAtEnd(outcomes[c], CleanLength - 1)
<1> DEFINE outs == outcomes[c]
           s == stats[c]
<1>1. outs \in Seq(Outcomes) /\ AreStatistics(s)
  BY DEF LoopInv, LoopTypes
<1>2. OkAtEnd(outs, s.success) /\ (s.failure = 0 => OkAtEnd(outs, 1))
  BY DEF LoopInv, Streaks, Streak
<1>3. s.success \in Nat
  BY <1>1 DEF AreStatistics
<1> HIDE DEF outs
<1>4. CASE setup.analyzer = "rule"
  <2>1. a = RuleAnalysis(intent, o, View(c))
    BY <1>4
  <2>2. o.status = "ok" /\ View(c).failure = 0
    BY <2>1 DEF RuleAnalysis
  <2>3. View(c).failure = IF setup.store = "file" THEN s.failure
                          ELSE TrailingFailures(LastN(outcomes[c], ViewLimit))
    BY DEF View
  <2>4. OkAtEnd(outs, 1)
    <3>1. CASE setup.store = "file"
      BY <1>2, <2>2, <2>3, <3>1
    <3>2. CASE setup.store # "file"
      <4>1. TrailingFailures(LastN(outs, ViewLimit)) = 0
        BY <2>2, <2>3, <3>2 DEF outs
      <4> QED BY <1>1, <4>1, NoTrailingFailure, Amounts
    <3> QED BY <3>1, <3>2
  <2>5. CleanLength - 1 = 1
    BY <1>4 DEF CleanLength
  <2> QED BY <2>2, <2>4, <2>5 DEF outs
<1>5. CASE setup.analyzer # "rule"
  <2>1. a = HistoryAnalysis(o, View(c))
    BY <1>5
  <2>2. CleanRun(o, View(c))
    BY <2>1 DEF HistoryAnalysis
  <2>3. o.status = "ok" /\ View(c).success >= LoosenMinStreak
    BY <2>2 DEF CleanRun
  <2>4. View(c).success = IF setup.store = "file" THEN s.success ELSE 0
    BY DEF View, FreshStats
  <2>5. OkAtEnd(outs, LoosenMinStreak)
    <3>1. CASE setup.store = "file"
      BY <1>1, <1>2, <1>3, <2>3, <2>4, <3>1, RunShrinks, Amounts
    <3>2. CASE setup.store # "file"
      <4>1. LoosenMinStreak = 0 /\ Len(outs) \in Nat
        BY <1>1, <2>3, <2>4, <3>2, Amounts
      <4> QED BY <4>1 DEF OkAtEnd
    <3> QED BY <3>1, <3>2
  <2>6. CleanLength - 1 = LoosenMinStreak
    BY <1>5, Amounts DEF CleanLength
  <2> QED BY <2>3, <2>5, <2>6 DEF outs
<1> QED BY <1>4, <1>5

(* The streaks of a chain stay those of its outcomes with one more. *)
LEMMA StreakKept ==
  ASSUME NEW s, AreStatistics(s), NEW outs \in Seq(Outcomes), Streak(s, outs),
         NEW o \in Outcomes, NEW budget
  PROVE  Streak(CountOutcome(s, o, budget), LastN(Append(outs, o), MaxOutcomes))
<1> DEFINE new == CountOutcome(s, o, budget)
           kept == LastN(Append(outs, o), MaxOutcomes)
<1>1. /\ s.success \in Nat /\ s.failure \in Nat
      /\ new.success = SuccessAfter(s, o) /\ new.failure = FailureAfter(s, o)
  BY CountedStreaks
<1>2. kept \in Seq(Outcomes)
  <2>1. Append(outs, o) \in Seq(Outcomes)
    OBVIOUS
  <2> QED BY <2>1, LastNIsEnd, Amounts
<1>3. CASE o.status = "ok"
  <2>1. OkAtEnd(kept, s.success + 1)
    BY <1>1, <1>3, RunGrows DEF Streak
  <2>2. OkAtEnd(kept, 1)
    <3>1. s.success + 1 \in Int /\ 1 <= s.success + 1
      BY <1>1
    <3> HIDE DEF kept
    <3> QED BY <1>2, <2>1, <3>1, RunShrinks
  <2>3. new.success = s.success + 1
    BY <1>1, <1>3 DEF SuccessAfter
  <2> HIDE DEF new, kept
  <2>4. Streak(new, kept)
    BY <2>1, <2>2, <2>3 DEF Streak
  <2> QED BY <2>4 DEF new, kept
<1>4. CASE o.status # "ok"
  <2>1. new.success = 0 /\ new.failure # 0
    BY <1>1, <1>4 DEF SuccessAfter, FailureAfter
  <2> HIDE DEF new, kept
  <2>2. OkAtEnd(kept, 0)
    <3>1. Len(kept) \in Nat
      BY <1>2
    <3> QED BY <3>1 DEF OkAtEnd
  <2>3. Streak(new, kept)
    BY <2>1, <2>2 DEF Streak
  <2> QED BY <2>3 DEF new, kept
<1> QED BY <1>3, <1>4

(* What the end of a step changes. *)
LEMMA AfterStepEffect ==
  ASSUME NEW o \in Outcomes, AfterStep(o)
  PROVE  \E budget :
           LET c == step.chain IN
           /\ step # NoStep /\ step' = NoStep
           /\ analysis' = IF setup.analyzer = "rule"
                          THEN RuleAnalysis(step.intent, o, View(c)) ELSE HistoryAnalysis(o, View(c))
           /\ spent' = [spent EXCEPT ![c] = spent[c] + o.cost]
           /\ outcomes' = [outcomes EXCEPT ![c] = LastN(Append(outcomes[c], o), MaxOutcomes)]
           /\ stats' = [stats EXCEPT ![c] = CountOutcome(stats[c], o, budget)]
           /\ lastChain' = {c}
           /\ UNCHANGED <<setup, ceiling, cooldown, steps, sinceAdjusted>>
<1> DEFINE left == RequestBudget - (TotalSpent + o.cost)
<1>1. WITNESS <<left, RequestBudget>>
<1> QED BY Zenon DEF AfterStep

(* The end of a step keeps the invariant: the streaks follow its outcome,  *)
(* and a clean run is one of the chain it was for (analyze, commit).       *)
LEMMA AfterStepKeeps ==
  ASSUME LoopInv, NEW o \in Outcomes, AfterStep(o)
  PROVE  LoopInv'
<1> DEFINE c == step.chain
<1>0. PICK budget :
           /\ step # NoStep /\ step' = NoStep
           /\ analysis' = IF setup.analyzer = "rule"
                          THEN RuleAnalysis(step.intent, o, View(c)) ELSE HistoryAnalysis(o, View(c))
           /\ spent' = [spent EXCEPT ![c] = spent[c] + o.cost]
           /\ outcomes' = [outcomes EXCEPT ![c] = LastN(Append(outcomes[c], o), MaxOutcomes)]
           /\ stats' = [stats EXCEPT ![c] = CountOutcome(stats[c], o, budget)]
           /\ lastChain' = {c}
           /\ UNCHANGED <<setup, ceiling, cooldown, steps, sinceAdjusted>>
  BY AfterStepEffect, Zenon
<1>1. /\ c \in Chains /\ spent \in [Chains -> Int] /\ outcomes \in [Chains -> Seq(Outcomes)]
      /\ DOMAIN stats = Chains /\ \A d \in Chains : AreStatistics(stats[d])
      /\ ceiling \in Int /\ cooldown \in Nat /\ sinceAdjusted \in 0..CooldownSteps
  BY <1>0 DEF LoopInv, LoopTypes
<1>2. PICK d \in Chains : d = c
  BY <1>1
<1> HIDE DEF c
<1>3. PICK new, kept : /\ new = CountOutcome(stats[d], o, budget)
                       /\ kept = LastN(Append(outcomes[d], o), MaxOutcomes)
  OBVIOUS
<1>4. AreStatistics(new) /\ kept \in Seq(Outcomes) /\ Streak(new, kept)
  <2>1. AreStatistics(new)
    BY <1>1, <1>3, CountedStreaks
  <2>2. Append(outcomes[d], o) \in Seq(Outcomes)
    BY <1>1
  <2>3. kept \in Seq(Outcomes)
    BY <1>3, <2>2, LastNIsEnd, Amounts
  <2>4. Streak(stats[d], outcomes[d]) /\ outcomes[d] \in Seq(Outcomes) /\ AreStatistics(stats[d])
    BY <1>1 DEF LoopInv, Streaks
  <2>5. Streak(new, kept)
    BY <1>3, <2>4, StreakKept
  <2> QED BY <2>1, <2>3, <2>5
<1>5. /\ outcomes' = [outcomes EXCEPT ![d] = kept] /\ stats' = [stats EXCEPT ![d] = new]
      /\ spent' = [spent EXCEPT ![d] = spent[d] + o.cost] /\ lastChain' = {d}
  BY <1>0, <1>2, <1>3
<1>6. /\ \A e \in Chains : outcomes'[e] = IF e = d THEN kept ELSE outcomes[e]
      /\ \A e \in Chains : stats'[e] = IF e = d THEN new ELSE stats[e]
      /\ outcomes' \in [Chains -> Seq(Outcomes)] /\ DOMAIN stats' = Chains
      /\ stats' = [e \in Chains |-> stats'[e]]
  BY <1>1, <1>4, <1>5
<1>7. LoopTypes'
  <2>1. spent' \in [Chains -> Int]
    BY <1>1, <1>5, OutcomeFields
  <2>2. \A e \in Chains : AreStatistics(stats'[e])
    BY <1>1, <1>4, <1>6
  <2>3. \A e \in Chains : AreStatistics(stats[e])'
    BY <2>2 DEF AreStatistics
  <2>4. lastChain' \in SUBSET Chains
    BY <1>5
  <2> QED BY <1>0, <1>1, <1>6, <2>1, <2>3, <2>4 DEF LoopTypes
<1>8. Streaks'
  <2>1. \A e \in Chains : Streak(stats[e], outcomes[e])
    BY DEF LoopInv, Streaks
  <2>2. \A e \in Chains : Streak(stats'[e], outcomes'[e])
    BY <1>4, <1>6, <2>1
  <2> QED BY <2>2 DEF Streaks, Streak, OkAtEnd
<1>9. Paced'
  BY <1>0 DEF LoopInv, Paced
<1>10. Earned'
  <2>1. SUFFICES ASSUME analysis'.recommendation = "loosen"
                 PROVE  OkAtEnd(kept, CleanLength)
    <3>1. CleanLength' = CleanLength /\ outcomes'[d] = kept /\ lastChain' = {d}
      BY <1>0, <1>5, <1>6 DEF CleanLength
    <3> QED BY <2>1, <3>1 DEF Earned, OkAtEnd
  <2>2. PICK a : a = analysis'
    OBVIOUS
  <2>3. o.status = "ok" /\ OkAtEnd(outcomes[d], CleanLength - 1)
    BY <1>0, <1>2, <2>1, <2>2, LooseningIsEarned
  <2>4. CleanLength - 1 \in Nat /\ (CleanLength - 1) + 1 = CleanLength
    BY Amounts DEF CleanLength
  <2>5. OkAtEnd(kept, (CleanLength - 1) + 1)
    BY <1>1, <1>3, <2>3, <2>4, RunGrows
  <2> QED BY <2>4, <2>5
<1>11. CeilingBounded'
  BY <1>0 DEF CeilingBounded
<1> QED BY <1>7, <1>8, <1>9, <1>10, <1>11 DEF LoopInv

(* The loop begins with the base ceiling, within its bounds, and nothing   *)
(* recorded.                                                               *)
LEMMA InitKeeps == Init => LoopInv
<1> SUFFICES ASSUME Init PROVE LoopInv
  OBVIOUS
<1>1. LoopTypes
  <2>1. \A c \in Chains : AreStatistics(stats[c])
    BY FreshWellFormed DEF Init
  <2>2. <<>> \in Seq(Outcomes)
    OBVIOUS
  <2>3. outcomes \in [Chains -> Seq(Outcomes)] /\ spent \in [Chains -> Int]
    BY <2>2 DEF Init
  <2> QED BY <2>1, <2>3, Amounts DEF Init, LoopTypes
<1>2. Streaks
  BY DEF Init, Streaks, Streak, OkAtEnd
<1>3. Paced
  BY Amounts DEF Init, Paced
<1>4. Earned
  BY DEF Init, Earned, NoAnalysis
<1>5. CeilingBounded
  BY DEF Init, CeilingBounded
<1> QED BY <1>1, <1>2, <1>3, <1>4, <1>5 DEF LoopInv

(* Every step of the loop keeps the invariant. *)
LEMMA NextKeeps == LoopInv /\ [Next]_vars => LoopInv'
<1> SUFFICES ASSUME LoopInv, [Next]_vars PROVE LoopInv'
  OBVIOUS
<1>1. CASE UNCHANGED vars
  <2>1. UNCHANGED <<setup, ceiling, cooldown, analysis, outcomes, stats, spent, step, steps,
                    sinceAdjusted, plansSince, lastChain>>
    BY <1>1 DEF vars
  <2>2. LoopTypes'
    BY <2>1 DEF LoopInv, LoopTypes, AreStatistics
  <2>3. Streaks' /\ Paced' /\ Earned'
    BY <2>1 DEF LoopInv, Streaks, Streak, Paced, Earned, CleanLength, OkAtEnd
  <2>4. CeilingBounded'
    BY <2>1 DEF LoopInv, CeilingBounded, Remaining, Floor, Smaller
  <2> QED BY <2>2, <2>3, <2>4 DEF LoopInv
<1>2. ASSUME NEW c \in Chains, NEW intent \in Intents, BeforeStep(c, intent)
      PROVE  LoopInv'
  BY <1>2, BeforeStepKeeps
<1>3. ASSUME NEW o \in Outcomes, AfterStep(o) PROVE LoopInv'
  BY <1>3, AfterStepKeeps
<1>4. CASE RefuseStep
  <2>1. /\ step' = NoStep
        /\ UNCHANGED <<setup, ceiling, cooldown, analysis, outcomes, stats, spent, sinceAdjusted,
                       lastChain>>
    BY <1>4 DEF RefuseStep
  <2>2. LoopTypes'
    BY <2>1 DEF LoopInv, LoopTypes, AreStatistics
  <2>3. Streaks' /\ Paced' /\ Earned'
    BY <2>1 DEF LoopInv, Streaks, Streak, Paced, Earned, CleanLength, OkAtEnd
  <2>4. CeilingBounded'
    BY <2>1 DEF CeilingBounded
  <2> QED BY <2>2, <2>3, <2>4 DEF LoopInv
<1> QED BY <1>1, <1>2, <1>3, <1>4 DEF Next

-----------------------------------------------------------------------------
(* The theorems. *)

(* Whichever chains take turns, and however much the ceiling was clamped   *)
(* to what another had left, a step is planned within the bounds of the    *)
(* planner and its own budget, and with no less than the minimum and its   *)
(* floor where its chain can afford them (plan).                           *)
THEOREM LoopCeilingBounded == Spec => []CeilingBounded
<1>1. LoopInv => CeilingBounded
  BY DEF LoopInv
<1> QED BY <1>1, InitKeeps, NextKeeps, PTL DEF Spec

(* The ceiling is adjusted once in a cooldown, and raised only when the    *)
(* step before closed a clean run of its chain, whatever other chains did  *)
(* (plan, analyze).                                                        *)
THEOREM LoopAdjustmentsAreEarned == Spec => AdjustmentsAreEarned
<1> DEFINE Ok(c, intent) ==
      BeforeStep(c, intent) =>
          LET raised == Raised(ceiling', Floor(step'.estimate))
              cut    == Cut(ceiling', Remaining(c))
          IN  /\ raised \/ cut => setup.planner = "simple" \/ sinceAdjusted = CooldownSteps
              /\ raised => EndsWell(IF setup.analyzer = "rule" THEN 2 ELSE LoosenMinStreak + 1)
<1>1. ASSUME LoopInv, NEW c \in Chains, NEW intent \in Intents PROVE Ok(c, intent)
  <2> SUFFICES ASSUME BeforeStep(c, intent) PROVE Ok(c, intent)
    OBVIOUS
  <2>0. LoopTypes
    BY <1>1 DEF LoopInv
  <2>1. PICK estimate \in Nat :
           /\ step'.estimate = estimate
           /\ ceiling' = PlannedCeiling(estimate, Remaining(c))
    BY <2>0, BeforeStepEffect, Zenon
  <2>2. PICK planned : planned = ceiling'
    OBVIOUS
  <2>3. /\ Raised(planned, Floor(estimate)) => analysis.recommendation = "loosen"
        /\ setup.planner # "simple" /\ ~Adjusts =>
             ~Raised(planned, Floor(estimate)) /\ ~Cut(planned, Remaining(c))
    <3>1. planned = PlannedCeiling(estimate, Remaining(c))
      BY <2>1, <2>2
    <3> QED BY <2>0, <3>1, PlanFacts
  <2>4. setup.planner # "simple" /\ Adjusts => sinceAdjusted = CooldownSteps
    <3>1. /\ cooldown \in Nat /\ sinceAdjusted \in 0..CooldownSteps
          /\ setup.planner # "simple" => cooldown + sinceAdjusted >= CooldownSteps
      BY <1>1 DEF LoopInv, LoopTypes, Paced
    <3>2. Adjusts => cooldown <= 0
      BY DEF Adjusts
    <3> QED BY <3>1, <3>2, Amounts
  <2>5. analysis.recommendation = "loosen" =>
          EndsWell(IF setup.analyzer = "rule" THEN 2 ELSE LoosenMinStreak + 1)
    <3> SUFFICES ASSUME analysis.recommendation = "loosen"
                 PROVE  EndsWell(CleanLength)
      BY DEF CleanLength
    <3>1. \A d \in lastChain : OkAtEnd(outcomes[d], CleanLength)
      BY <1>1 DEF LoopInv, Earned
    <3>2. \A d \in lastChain : DOMAIN outcomes[d] = 1..Len(outcomes[d])
      BY <2>0 DEF LoopTypes
    <3> QED BY <3>1, <3>2 DEF EndsWell, OkAtEnd
  <2>6. /\ Raised(ceiling', Floor(step'.estimate)) <=> Raised(planned, Floor(estimate))
        /\ Cut(ceiling', Remaining(c)) <=> Cut(planned, Remaining(c))
    BY <2>1, <2>2
  <2> QED BY <2>3, <2>4, <2>5, <2>6
<1>2. LoopInv /\ [Next]_vars => [\A c \in Chains, intent \in Intents : Ok(c, intent)]_vars
  BY <1>1
<1> QED BY <1>2, InitKeeps, NextKeeps, PTL DEF Spec, AdjustmentsAreEarned
=============================================================================
