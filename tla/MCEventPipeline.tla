-------------------------- MODULE MCEventPipeline ---------------------------
(* An instance of EventPipeline for TLC. *)
EXTENDS EventPipeline

CONSTANTS T1, T2, Metrics

MCThreads == {T1, T2}
MCSymmetry == Permutations(MCThreads)
MCNames == {Ingestor, Metrics}
MCEventIds == 1..4

(* Event 2 is not the kernel's, and event 4 may be one that is not          *)
(* converted.  Event 3 has no decision that is known, a cost that is not    *)
(* finite and tokens below zero; the step ids 1 and 4 are the same once     *)
(* they are clean.                                                          *)
Event(step, cost, tokens, decision, time) ==
    [step |-> step, chain |-> 0, cost |-> cost, tokens |-> tokens,
     decision |-> decision, time |-> time]
MCRaw == <<{Event(2, 3, 1, "allow", 1)}, {}, {Event(1, NonFinite, -1, "odd", 1)},
           {Event(4, 2, 2, "halt", 0), Event(4, NotANumber, 2, "halt", 0)}>>
MCCleanId == [i \in 0..4 |-> IF i = 4 THEN 1 ELSE i]
MCDecisions == {"allow", "halt", "degrade", "retry", "quarantine", "queue"}

Value(k, n) == [kind |-> k, n |-> n]
Missing == Value("missing", 0)
Policy(usd, steps, tokens) ==
    [chain |-> "word", usd |-> usd, onExceed |-> "missing", steps |-> steps,
     tokens |-> tokens, timeout |-> Missing, priority |-> Missing, issued |-> Missing,
     deadline |-> Missing, expires |-> Missing]
Queueing(usd, steps, tokens) == [Policy(usd, steps, tokens) EXCEPT !.onExceed = "queue"]
MCOverrides ==
    {NoOverride, Policy(Value("digits", 2), Missing, Missing),
     Queueing(Value("real", 2), Missing, Missing), Queueing(Value("int", 4), Value("null", 0), Missing),
     Queueing(Value("int", 9), Value("int", 1), Missing),
     Queueing(Value("int", 9), Value("inf", 0), Value("int", 1)),
     Queueing(Value("int", 3), Missing, Value("int", 3)),
     [Queueing(Value("int", 3), Missing, Missing) EXCEPT !.deadline = Value("int", 1)],
     [Queueing(Value("int", 3), Missing, Missing) EXCEPT !.priority = Value("int", 101)]}
MCWindow == [chain |-> 0, from |-> 0, to |-> 2]

=============================================================================
