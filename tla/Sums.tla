-------------------------------- MODULE Sums --------------------------------
(***************************************************************************)
(* The sum of finitely many amounts, indexed 1..n.  Written as a recursive *)
(* function so that the modules that use it can be proved about.           *)
(***************************************************************************)
EXTENDS Integers

\* PartialSums(f, n)[i] = f[1] + ... + f[i].
PartialSums(f, n) ==
  LET acc[i \in 0..n] == IF i = 0 THEN 0 ELSE acc[i - 1] + f[i] IN acc

SumTo(f, n) == PartialSums(f, n)[n]

=============================================================================
