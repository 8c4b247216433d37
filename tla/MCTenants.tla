----------------------------- MODULE MCTenants ------------------------------
(* An instance of Tenants for TLC. *)
EXTENDS Tenants, TLC

CONSTANTS A, B, C, D

MCIds == {A, B, C, D}
MCSymmetry == Permutations(MCIds)

Value(k, n) == [kind |-> k, n |-> n]
MCBase == [chain_id |-> Value("text", 0), ceiling_usd |-> Value("real", 10),
           on_exceed |-> Value("text", 1), priority |-> Value("int", 50),
           timeout_ms |-> Value("null", 0)]

(* No key, two values of a key, a value that is not valid, a key that is    *)
(* not known.                                                               *)
MCOverrides ==
    {[k \in {} |-> 0], [ceiling_usd |-> Value("int", 20)],
     [ceiling_usd |-> Value("real", 3)], [priority |-> Value("int", 101)],
     [colour |-> Value("text", 0)]}
MCKnownKeys == {"ceiling_usd", "on_exceed", "priority", "timeout_ms"}
=============================================================================
