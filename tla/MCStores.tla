---- MODULE MCStores ----
EXTENDS Stores, TLC

Step(model, status, cost) ==
    [kind |-> "llm", model |-> model, status |-> status, cost |-> cost, elapsed |-> cost]
SomeInputs == <<Step("a", "ok", 10), Step("b", "error", 0), Step("a", "halted", 0),
                Step("a", "ok", 4), Step("b", "ok", 7), Step("a", "ok", 3)>>
SomeContexts == {<<1, 2>>}
Symmetric == Permutations(Writers) \cup Permutations(Chains)
====
