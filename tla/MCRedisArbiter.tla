--------------------------- MODULE MCRedisArbiter ---------------------------
(* RedisArbiter on small budgets: two grains to a microdollar, so that 3,   *)
(* 5 and 11 grains are halves that round to the even number.                *)
EXTENDS RedisArbiter

MCDesires == {[ceiling |-> 3, priority |-> 50], [ceiling |-> 5, priority |-> 0],
              [ceiling |-> 6, priority |-> 50]}
MCBudgets == {-2}
MCCosts == {6, NonFinite}
MCRetries == {1}
MCNoRetries == {}

=============================================================================
