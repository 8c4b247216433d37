------------------------------- MODULE Replay -------------------------------
(***************************************************************************)
(* Policies tried without effect: ReplayEngine (replay/engine.py) over the *)
(* events of a store, and POST /simulate (api/routes/simulate.py) over a   *)
(* scenario.  Both read a policy from a dict; a field of it is given with  *)
(* a kind, "missing", "null", "bool", "int", "real", "inf" (any float that *)
(* is not finite), "digits" (text that float() reads) or "word" (any other *)
(* text), and its number n, if it is one.                                  *)
(***************************************************************************)
EXTENDS Integers, Sequences, SequencesExt, FiniteSetsExt

CONSTANTS
    MaxReplayEvents,    \* _MAX_REPLAY_EVENTS
    Now                 \* time.time()

ASSUME ReplayAssumption == MaxReplayEvents \in Nat \ {0} /\ Now \in Nat

OnExceed == {"halt", "degrade", "queue"}
Given == [kind : {"missing", "null", "bool", "int", "real", "inf", "digits", "word"}, n : Int]
Policies == [chain : {"word", "blank", "other"}, onExceed : OnExceed \cup {"missing", "other"},
             usd : Given, steps : Given, tokens : Given, timeout : Given,
             priority : Given, issued : Given, deadline : Given, expires : Given]

None(f) == f.kind \in {"missing", "null"}

(* What float() reads as a finite number that is not negative. *)
Readable(f) == f.kind \in {"int", "real", "digits"} /\ f.n >= 0
Number(f) == f.kind \in {"int", "real"} /\ f.n >= 0
Whole(f) == f.kind = "int" /\ f.n >= 0

(* PolicyDistributor.validate, not strict, on a policy as it was built: a   *)
(* comparison with text raises, and the number of steps may be infinite.    *)
Validated(p) ==
    /\ p.onExceed \in OnExceed /\ Readable(p.usd)
    /\ None(p.steps) \/ Number(p.steps) \/ p.steps.kind = "inf"
    /\ None(p.tokens) \/ Number(p.tokens)
    /\ None(p.timeout) \/ Number(p.timeout)

(* A limit in a policy; one that is absent or infinite is never exceeded.   *)
Exceeds(x, f) == f.kind \in {"int", "real"} /\ x > f.n

----------------------------------------------------------------------------
(* ReplayEngine                                                             *)

(* The dict with its defaults; a time-out becomes a float. *)
Defaulted(raw) ==
    [raw EXCEPT !.onExceed = IF @ = "missing" THEN "halt" ELSE @,
                !.timeout = IF Readable(@) THEN [@ EXCEPT !.kind = "real"] ELSE @,
                !.priority = IF @.kind = "missing" THEN [kind |-> "int", n |-> 50] ELSE @,
                !.issued = IF @.kind = "missing" THEN [kind |-> "real", n |-> Now] ELSE @]

OverrideValid(raw) ==
    LET p == Defaulted(raw) IN
    /\ p.chain = "word"
    /\ Readable(p.usd) /\ p.onExceed \in OnExceed
    /\ None(p.steps) \/ Whole(p.steps)
    /\ None(p.tokens) \/ Whole(p.tokens)
    /\ None(p.timeout) \/ Readable(p.timeout)
    /\ Whole(p.priority) /\ p.priority.n <= 100
    /\ Readable(p.issued)

Picked(events, e, chain, from, to) ==
    IF e.chain = chain /\ from <= e.time /\ e.time <= to THEN Append(events, e) ELSE events

Wanted(store, chain, from, to) ==
    LET upto[n \in 0..Len(store)] ==
            IF n = 0 THEN <<>> ELSE Picked(upto[n - 1], store[n], chain, from, to)
    IN  upto[Len(store)]

(* The first events of an order, in which event i comes after those of before[i]. *)
Earliest(events, before) ==
    [k \in 1..Min({Len(events), MaxReplayEvents}) |->
        events[CHOOSE i \in DOMAIN events : Cardinality(before[i]) = k - 1]]

(* Sorted by time alone, the events of one instant come as they were stored. *)
ChronologicalByTime(events) ==
    Earliest(events, [i \in DOMAIN events |-> {j \in DOMAIN events :
        \/ events[j].time < events[i].time
        \/ events[j].time = events[i].time /\ j < i}])

(* The earliest events, by time and step; the sort is stable. *)
Before(events, i) ==
    {j \in DOMAIN events :
        \/ events[j].time < events[i].time
        \/ /\ events[j].time = events[i].time
           /\ \/ events[j].step < events[i].step
              \/ events[j].step = events[i].step /\ j < i}

Chronological(events) == Earliest(events, [i \in DOMAIN events |-> Before(events, i)])

(* Costs and steps are cumulative, refused ones included; tokens are not.   *)
ReplayDecision(event, index, cost, p) ==
    IF \/ cost + event.cost > p.usd.n
       \/ Exceeds(index, p.steps)
       \/ Exceeds(event.tokens, p.tokens)
    THEN p.onExceed ELSE "allow"

NoOverride == [chain |-> "none"]

(* What the events up to each of them cost. *)
Costs(events) ==
    LET cost[i \in 0..Len(events)] == IF i = 0 THEN 0 ELSE cost[i - 1] + events[i].cost
    IN  cost

Replayed(store, chain, from, to, raw) ==
    LET events == Chronological(Wanted(store, chain, from, to))
        again(i) == IF raw = NoOverride THEN events[i].decision
                    ELSE ReplayDecision(events[i], i, Costs(events)[i - 1], Defaulted(raw))
        diffs == [i \in 1..Len(events) |->
                    [step |-> events[i].step, original |-> events[i].decision,
                     replayed |-> again(i)]]
    IN  IF raw # NoOverride /\ ~(OverrideValid(raw) /\ Validated(Defaulted(raw)))
        THEN [refused |-> TRUE, diffs |-> <<>>]
        ELSE [refused |-> FALSE, diffs |-> diffs]

----------------------------------------------------------------------------
(* POST /simulate                                                           *)

PolicyValid(raw) ==
    /\ raw.chain \in {"word", "blank"} /\ raw.onExceed \in OnExceed
    /\ Number(raw.usd)
    /\ \A f \in {raw.deadline, raw.expires, raw.issued} : None(f) \/ Readable(f)
    /\ raw.priority.kind \in {"missing", "int", "real", "digits"}
    /\ raw.tokens.kind # "bool" /\ raw.steps.kind # "bool" /\ raw.timeout.kind # "bool"

Passed(f) == f.kind \in {"int", "real", "digits"} /\ Now > f.n

(* With a step ceiling that compares the steps already made.                *)
EvaluateStepLate(step, done, cost, tokens, p) ==
    IF \/ cost + step.cost > p.usd.n \/ Exceeds(tokens + step.tokens, p.tokens)
       \/ Exceeds(done, p.steps) THEN p.onExceed
    ELSE IF Passed(p.deadline) \/ Passed(p.expires) THEN "halt"
    ELSE "allow"

EvaluateStep(step, done, cost, tokens, p) ==
    IF \/ cost + step.cost > p.usd.n \/ Exceeds(tokens + step.tokens, p.tokens)
       \/ Exceeds(done + 1, p.steps) THEN p.onExceed
    ELSE IF Passed(p.deadline) \/ Passed(p.expires) THEN "halt"
    ELSE "allow"

(* The loop stops at the first step refused and counts the rest as halted.  *)
NotRun == [cost |-> 0, tokens |-> 0, allowed |-> 0, halted |-> 0, decision |-> "allow"]

Stepped(s, i, raw, steps) ==
    LET d == EvaluateStep(steps[i], i - 1, s.cost, s.tokens, raw) IN
    IF s.decision # "allow" THEN s
    ELSE IF d = "allow"
    THEN [s EXCEPT !.cost = @ + steps[i].cost, !.tokens = @ + steps[i].tokens, !.allowed = @ + 1]
    ELSE [s EXCEPT !.halted = 1 + Len(steps) - i, !.decision = d]

After(raw, steps) ==
    LET after[i \in 0..Len(steps)] ==
            IF i = 0 THEN NotRun ELSE Stepped(after[i - 1], i, raw, steps)
    IN  after[Len(steps)]

Simulated(raw, steps) ==
    IF PolicyValid(raw) /\ Validated(raw)
    THEN [refused |-> FALSE, result |-> After(raw, steps)]
    ELSE [refused |-> TRUE, result |-> NotRun]

----------------------------------------------------------------------------
(***************************************************************************)
(* What replay should answer for each event, said of sets of events and    *)
(* not of the order in which threads stored them: an event is refused when *)
(* it and the earlier ones cost or number too much, or when it has too     *)
(* many tokens.  Only the earliest MaxReplayEvents are replayed, and two   *)
(* events are told apart by time and step.                                 *)
(***************************************************************************)
Earlier(e, f) == e.time < f.time \/ (e.time = f.time /\ e.step < f.step)

ReplayIsCumulative(store, chain, from, to, raw) ==
    LET events == ToSet(Wanted(store, chain, from, to))
        upto(e) == {f \in events : f = e \/ Earlier(f, e)}
        cost(e) == FoldSet(LAMBDA f, sum : f.cost + sum, 0, upto(e))
        rank(e) == Cardinality(upto(e))
        refused(e) == \/ cost(e) > raw.usd.n
                      \/ Exceeds(rank(e), raw.steps) \/ Exceeds(e.tokens, raw.tokens)
        expected(e) == IF raw = NoOverride THEN e.decision
                       ELSE IF refused(e) THEN Defaulted(raw).onExceed ELSE "allow"
        result == Replayed(store, chain, from, to, raw)
    IN  /\ Cardinality(events) = Len(Wanted(store, chain, from, to))
        /\ \A e, f \in events : e = f \/ Earlier(e, f) \/ Earlier(f, e)
        /\ ~result.refused
        => /\ Len(result.diffs) = Cardinality({e \in events : rank(e) <= MaxReplayEvents})
           /\ \A e \in events : rank(e) <= MaxReplayEvents =>
                result.diffs[rank(e)] =
                    [step |-> e.step, original |-> e.decision,
                     replayed |-> expected(e)]

(***************************************************************************)
(* A scenario made of what the store recorded stops where the replay first *)
(* refuses, if the policy has neither a token ceiling nor a deadline: the  *)
(* two evaluate tokens differently, and only the simulation reads a clock. *)
(* It has then spent what the policy allows, and accounts for every step.  *)
(***************************************************************************)
SimulationFollowsReplay(store, chain, from, to, raw) ==
    LET events == Chronological(Wanted(store, chain, from, to))
        replay == Replayed(store, chain, from, to, raw)
        run    == Simulated(raw, events)
        refusals == {i \in DOMAIN replay.diffs : replay.diffs[i].replayed # "allow"}
    IN  ~replay.refused /\ ~run.refused
        => /\ run.result.allowed + run.result.halted = Len(events)
           /\ run.result.cost <= raw.usd.n
           /\ None(raw.tokens) /\ ~Passed(raw.deadline) /\ ~Passed(raw.expires)
              => \A i \in DOMAIN events :
                    (i <= run.result.allowed) <=> (\A j \in refusals : i < j)
=============================================================================
