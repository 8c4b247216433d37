---------------------------- MODULE BudgetLedger ----------------------------
(***************************************************************************)
(* What a shared budget promises, whatever stores it: money moves from the *)
(* free pool into holds and out of the system, and is never created.  A    *)
(* holder may give back at most what it held, and only once.               *)
(*                                                                         *)
(* RedisArbiter implements this specification with two Lua scripts, and    *)
(* VeronicaOS through it.                                                  *)
(***************************************************************************)
EXTENDS Sums

CONSTANTS NKeys,  \* the holders are 1..NKeys
          Total   \* the budget, in the unit of the counter

LedgerAssumption == NKeys \in Nat /\ Total \in Nat

VARIABLES free,   \* what can still be held
          held    \* what each holder has set aside

ledgerVars == <<free, held>>

Holders == 1..NKeys

TypeOK ==
  /\ free \in 0..Total
  /\ held \in [Holders -> 0..Total]

Init ==
  /\ free = Total
  /\ held = [k \in Holders |-> 0]

\* A holder sets aside at most what is free.
Hold(k, amount) ==
  /\ held[k] = 0
  /\ amount \in 0..free
  /\ free' = free - amount
  /\ held' = [held EXCEPT ![k] = amount]

\* A hold ends: some of it, of the free pool too, is gone; the rest is free.
Release(k, rest) ==
  /\ rest \in 0..(free + held[k])
  /\ free' = rest
  /\ held' = [held EXCEPT ![k] = 0]

\* Money is spent that nobody had set aside.
Charge(rest) ==
  /\ rest \in 0..free
  /\ free' = rest
  /\ UNCHANGED held

Next ==
  \/ \E k \in Holders, amount \in 0..free : Hold(k, amount)
  \/ \E k \in Holders : \E rest \in 0..(free + held[k]) : Release(k, rest)
  \/ \E rest \in 0..free : Charge(rest)

Spec == Init /\ [][Next]_ledgerVars

(* What is free and what is held never exceed the budget together. *)
NeverCreated == free + SumTo(held, NKeys) <= Total

=============================================================================
