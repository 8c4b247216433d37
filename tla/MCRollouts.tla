----------------------------- MODULE MCRollouts -----------------------------
(* Rollouts on one chain; the policy of "bad" is refused.                    *)
EXTENDS Rollouts

CONSTANTS r1, bad, chain

MCChainOf == [r \in Rollouts |-> chain]

=============================================================================
