---------------------------- MODULE StepHistory ----------------------------
(***************************************************************************)
(* What the stores compute over the outcomes of one chain: the statistics  *)
(* that FileStore keeps as it commits, and the view that build_history     *)
(* returns.  Costs and latencies are integers; a moving average is rounded *)
(* down to that grid.  A ratio is a pair <<numerator, denominator>>.       *)
(***************************************************************************)
EXTENDS Integers, Sequences, SequencesExt

CONSTANTS
    MaxModels   \* _MAX_MODELS_PER_CHAIN: models with averages of their own

ASSUME StepHistoryAssumption == MaxModels \in Nat

(* The last n elements of s, all of them if it has no more. *)
LastN(s, n) == SubSeq(s, IF Len(s) > n THEN Len(s) - n + 1 ELSE 1, Len(s))

(* A request for limit outcomes, kept between 1 and most. *)
ClampedLimit(limit, most) ==
    LET atMost == IF limit < most THEN limit ELSE most
    IN  IF atMost < 1 THEN 1 ELSE atMost

----------------------------------------------------------------------------
(* Running statistics.                                                      *)

(* The moving average starts again from a sample when it is zero. *)
Ema(prev, current) ==
    IF prev = 0 THEN current ELSE (3 * current + 7 * prev) \div 10

NoAverages == [m \in {} |-> 0]

FreshStats ==
    [costEma |-> 0, costByModel |-> NoAverages, latencyByModel |-> NoAverages,
     success |-> 0, failure |-> 0, total |-> 0, headroom |-> <<1, 1>>,
     sinceRotate |-> 0]

(* Past the cap no model joins those with averages. *)
Tracks(stats, m) ==
    \/ Cardinality(DOMAIN stats.costByModel) < MaxModels
    \/ m \in DOMAIN stats.costByModel

Averaged(byModel, m, sample) ==
    LET prev == IF m \in DOMAIN byModel THEN byModel[m] ELSE 0
    IN  [x \in DOMAIN byModel \cup {m} |->
            IF x = m THEN Ema(prev, sample) ELSE byModel[x]]

(* The part of the budget that remains, unless the context has no ceiling. *)
Headroom(stats, context) ==
    IF context # <<>> /\ context[2] > 0 THEN context ELSE stats.headroom

SuccessAfter(stats, o) == IF o.status = "ok" THEN stats.success + 1 ELSE 0
FailureAfterSticky(stats, o) ==
    IF o.status = "ok" THEN stats.failure ELSE stats.failure + 1
FailureAfter(stats, o) == IF o.status = "ok" THEN 0 ELSE stats.failure + 1

(***************************************************************************)
(* The statistics with one more outcome o.  The budget context is <<>> or  *)
(* the pair <<remaining, ceiling>>.                                        *)
(***************************************************************************)
CountOutcome(stats, o, context) ==
    [stats EXCEPT
       !.costEma        = Ema(@, o.cost),
       !.costByModel    =
            IF Tracks(stats, o.model) THEN Averaged(@, o.model, o.cost) ELSE @,
       !.latencyByModel =
            IF Tracks(stats, o.model) THEN Averaged(@, o.model, o.elapsed) ELSE @,
       !.success        = SuccessAfter(stats, o),
       !.failure        = FailureAfter(stats, o),
       !.total          = @ + 1,
       !.headroom       = Headroom(stats, context)]

----------------------------------------------------------------------------
(* Views.                                                                   *)

RollingCost(outs) == FoldSeq(LAMBDA o, sum : o.cost + sum, 0, outs)

(* How many outcomes at the end of outs are not ok. *)
TrailingFailures(outs) ==
    LET oks == {i \in DOMAIN outs : outs[i].status = "ok"}
    IN  Len(outs) - (IF oks = {} THEN 0 ELSE Max(oks))

(* The share of the most frequent kind of step among the last ten. *)
LoopScore(outs) ==
    LET recent  == LastN(outs, 10)
        key(o)  == <<o.kind, o.model, o.status>>
        count(o) == Cardinality({i \in DOMAIN recent : key(recent[i]) = key(o)})
    IN  IF Len(outs) < 3 THEN <<0, 1>>
        ELSE <<Max({count(recent[i]) : i \in DOMAIN recent}), Len(recent)>>
============================================================================
