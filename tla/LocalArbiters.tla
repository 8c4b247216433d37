--------------------------- MODULE LocalArbiters ----------------------------
(***************************************************************************)
(* The two arbiters that keep no shared state, on the one desire that      *)
(* VeronicaOS.before_step hands them.  Amounts are integers.               *)
(***************************************************************************)
EXTENDS Integers

CONSTANT MinAllocation   \* _MIN_ALLOCATION_USD

\* Mutant: the ceiling is not scaled to the budget.
PassthroughUnscaled(desired, budget) == desired.ceiling

\* PassthroughArbiter: the scale is budget / ceiling when the ceiling is
\* positive and above the budget, so the grant is then the budget itself --
\* a negative one when the budget has been overspent.
PassthroughCeiling(desired, budget) ==
  IF desired.ceiling > budget /\ desired.ceiling > 0 THEN budget ELSE desired.ceiling

\* ProportionalArbiter excludes a desire of priority <= 0 altogether.
ProportionalGrants(desired) == desired.priority > 0

\* The only eligible chain has the whole budget as its share, is capped to
\* what it wants and raised to the minimum if the budget allows it.  The final
\* scaling never applies to a single chain.
ProportionalCeiling(desired, budget) ==
  LET capped == IF budget > desired.ceiling THEN desired.ceiling ELSE budget
  IN  IF budget >= MinAllocation /\ capped < MinAllocation THEN MinAllocation ELSE capped

=============================================================================
