-------------------------- MODULE MCPolicyRegistry --------------------------
(* PolicyRegistry with a few callers, chains and fields that are           *)
(* interchangeable, and so are the values that validation accepts.         *)
EXTENDS PolicyRegistry, TLC

MCSymmetry ==
  Permutations(Callers) \cup Permutations(Chains) \cup Permutations(Fields)
    \cup Permutations(Values \ Invalid)

=============================================================================
