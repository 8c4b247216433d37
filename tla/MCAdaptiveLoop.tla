--------------------------- MODULE MCAdaptiveLoop ---------------------------
(* An instance of AdaptiveLoop for TLC. *)
EXTENDS AdaptiveLoop, TLC

MCIntents == {[kind |-> "llm", model |-> "a"], [kind |-> "tool", model |-> "none"]}
Outcome(kind, model, status, cost, elapsed) ==
    [kind |-> kind, model |-> model, status |-> status, cost |-> cost, elapsed |-> elapsed]
MCOutcomes ==
    {Outcome("llm", "a", "ok", 40, 1), Outcome("llm", "a", "ok", 150, 9),
     Outcome("llm", "a", "error", 0, 1), Outcome("tool", "none", "halted", 0, 1)}
Setup(store, analyzer, costModel, planner) ==
    [store |-> store, analyzer |-> analyzer, costModel |-> costModel, planner |-> planner]
MCSetups == {Setup("memory", "rule", "table", "simple"), Setup("memory", "rule", "table", "adaptive"),
             Setup("file", "history", "regression", "adaptive")}
MCPrice == [a |-> 60]
MCSymmetry == Permutations(Chains)
=============================================================================
