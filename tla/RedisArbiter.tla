---------------------------- MODULE RedisArbiter ----------------------------
(***************************************************************************)
(* RedisArbiter: a budget shared by several VeronicaOS processes, kept in  *)
(* Redis as a counter of remaining microdollars and one allocation record  *)
(* per step, with a time to live.  Each Lua script is atomic in Redis.     *)
(*                                                                         *)
(* Clients call arbitrate before a step and settle after it.  A call whose *)
(* reply is lost looks to the client like one that never ran: the script   *)
(* may still execute, at any later time.                                   *)
(*                                                                         *)
(* Dollars are integers in grains, Grain of them to a microdollar, so that *)
(* rounding to microdollars is visible.                                    *)
(***************************************************************************)
EXTENDS Sums, LocalArbiters, FiniteSets

CONSTANTS
  NKeys,        \* allocation identities (request_id, step_id), numbered 1..NKeys
  TotalUsd,     \* total_budget_usd, in grains
  Grain,        \* grains of a dollar amount per microdollar
  Desires,      \* desires the planner may present: [ceiling, priority]
  Budgets,      \* values of budget_remaining_usd a caller may pass
  Costs,        \* costs a step may report, in grains, or NonFinite
  NonFinite,    \* a cost that is not a finite float
  NoKey,        \* the remaining key does not exist
  NoAlloc,      \* the allocation key does not exist
  NoGrant,      \* arbitrate has not been called for the step
  MaxSettles,   \* bound: settle calls per step (1: after_step runs once)
  MaxLate,      \* bound: scripts pending at once after an error
  Retries,      \* the steps for which arbitrate may be called again
  Faults        \* may Redis calls fail?

Keys == 1..NKeys

\* _to_micro: round(usd * 1_000_000), half to even.
ToMicro(usd) ==
  LET q == usd \div Grain
      r == 2 * (usd % Grain)
  IN  IF r > Grain \/ (r = Grain /\ q % 2 = 1) THEN q + 1 ELSE q

\* _from_micro
FromMicro(micro) == micro * Grain

\* The argument of the settle script: a non-finite cost counts as nothing.
ActualMicro(cost) == IF cost = NonFinite THEN 0 ELSE ToMicro(cost)

Total == ToMicro(TotalUsd)   \* _total_budget_micro

\* The policy arbitrate returns; "none" stands for the empty mapping.
Grants == [ceiling : Int, by : {"reserved", "insufficient", "fallback", "none"}]

ASSUME RedisAssumption ==
  /\ NKeys \in Nat /\ MaxSettles \in Nat /\ MaxLate \in Nat
  /\ Grain \in Nat \ {0}
  /\ TotalUsd \in Nat
  /\ MinAllocation \in Int
  /\ Desires \subseteq [ceiling : Int, priority : Int]
  /\ Budgets \subseteq Int
  /\ Costs \ {NonFinite} \subseteq Nat
  /\ NoKey \notin Int /\ NoAlloc \notin Int
  /\ NoGrant \notin Grants
  /\ Retries \subseteq Keys
  /\ Faults \in BOOLEAN

VARIABLES
  remaining,   \* the counter, or NoKey
  alloc,       \* total_reserved_micro of each allocation record, or NoAlloc
  grant,       \* what the last arbitrate call returned to each step
  late,        \* scripts whose caller saw an error but which may still run
  settles,     \* settle calls made for each step
  spent,       \* history: microdollars the executed settle scripts reported
  lapsed,      \* history: microdollars of the allocations that expired
  cold         \* history: has a settle script run before the counter was set?

redis == <<remaining, alloc>>
history == <<spent, lapsed, cold>>
vars == <<remaining, alloc, grant, late, settles, spent, lapsed, cold>>

Scripts == [op : {"reserve", "settle"}, key : Keys, micro : Int]

TypeOK ==
  /\ remaining \in Nat \cup {NoKey}
  /\ alloc \in [Keys -> Int \cup {NoAlloc}]
  /\ grant \in [Keys -> Grants \cup {NoGrant}]
  /\ late \subseteq Scripts
  /\ settles \in [Keys -> 0..MaxSettles]
  /\ spent \in Nat
  /\ lapsed \in Int
  /\ cold \in BOOLEAN

Init ==
  /\ remaining = NoKey
  /\ alloc = [k \in Keys |-> NoAlloc]
  /\ grant = [k \in Keys |-> NoGrant]
  /\ late = {}
  /\ settles = [k \in Keys |-> 0]
  /\ spent = 0
  /\ lapsed = 0
  /\ cold = FALSE

-----------------------------------------------------------------------------
(* The Lua scripts. *)

\* The counter as LUA_RESERVE sees it: set to the total if it is missing.
Available == IF remaining = NoKey THEN Total ELSE remaining

\* The counter as LUA_SETTLE sees it: tonumber(GET) or 0.
OrZero == IF remaining = NoKey THEN 0 ELSE remaining

\* Mutant: the clamp is forgotten.
NoClamp(n) == n

AtLeastZero(n) == IF n < 0 THEN 0 ELSE n

\* Mutant: a cached record is not noticed and the amount is reserved again.
LuaReserveAgain(k, micro) ==
  /\ remaining' = IF Available < micro THEN Available ELSE Available - micro
  /\ alloc' = IF Available < micro THEN alloc ELSE [alloc EXCEPT ![k] = micro]

\* Mutant: the record holds what remains instead of what was reserved.
LuaReserveWrongAmount(k, micro) ==
  IF alloc[k] # NoAlloc \/ Available < micro
    THEN remaining' = Available /\ UNCHANGED alloc
    ELSE /\ remaining' = Available - micro
         /\ alloc' = [alloc EXCEPT ![k] = Available - micro]

LuaReserve(k, micro) ==
  \/ /\ alloc[k] # NoAlloc
     /\ UNCHANGED redis
  \/ /\ alloc[k] = NoAlloc
     /\ Available < micro
     /\ remaining' = Available
     /\ UNCHANGED alloc
  \/ /\ alloc[k] = NoAlloc
     /\ Available >= micro
     /\ remaining' = Available - micro
     /\ alloc' = [alloc EXCEPT ![k] = micro]

\* Mutant: the record is not deleted.
LuaSettleKeepsRecord(k, micro) ==
  /\ remaining' = AtLeastZero(OrZero + (IF alloc[k] = NoAlloc THEN 0 ELSE alloc[k]) - micro)
  /\ spent' = spent + micro
  /\ cold' = (cold \/ remaining = NoKey)
  /\ UNCHANGED <<alloc, lapsed>>

\* Mutant: the surplus of a reservation is not refunded.
LuaSettleNoRefund(k, micro) ==
  /\ remaining' = IF alloc[k] # NoAlloc /\ micro <= alloc[k]
                    THEN remaining
                    ELSE AtLeastZero(OrZero - micro)
  /\ alloc' = [alloc EXCEPT ![k] = NoAlloc]
  /\ spent' = spent + micro
  /\ cold' = (cold \/ remaining = NoKey)
  /\ UNCHANGED lapsed

\* Without a record the whole cost is deducted; with one, the difference.
LuaSettle(k, micro) ==
  /\ \/ /\ alloc[k] = NoAlloc
        /\ remaining' = AtLeastZero(OrZero - micro)
        /\ UNCHANGED alloc
     \/ /\ alloc[k] # NoAlloc
        /\ remaining' = IF alloc[k] = micro
                          THEN remaining
                          ELSE AtLeastZero(OrZero + alloc[k] - micro)
        /\ alloc' = [alloc EXCEPT ![k] = NoAlloc]
  /\ spent' = spent + micro
  /\ cold' = (cold \/ remaining = NoKey)
  /\ UNCHANGED lapsed

\* Redis drops an allocation whose time to live has passed.
Expire(k) ==
  /\ alloc[k] # NoAlloc
  /\ alloc' = [alloc EXCEPT ![k] = NoAlloc]
  /\ lapsed' = lapsed + alloc[k]
  /\ UNCHANGED <<remaining, grant, late, settles, spent, cold>>

-----------------------------------------------------------------------------
(* The client. *)

MayArbitrate(k) == k \in Retries \/ grant[k] = NoGrant

\* arbitrate, the reply received.  Only the status of the reply is read: a
\* cached record yields the ceiling desired now, not the one it was made for.
Arbitrate(k, desired) ==
  /\ MayArbitrate(k)
  /\ LuaReserve(k, ToMicro(desired.ceiling))
  /\ grant' = [grant EXCEPT ![k] =
       IF alloc[k] = NoAlloc /\ Available < ToMicro(desired.ceiling)
         THEN [ceiling |-> FromMicro(Available), by |-> "insufficient"]
         ELSE [ceiling |-> desired.ceiling, by |-> "reserved"]]
  /\ UNCHANGED <<late, settles, spent, lapsed, cold>>

\* The caller has seen an error: the script is lost, or is still to run.
MayRunLate(script) ==
  \/ UNCHANGED late
  \/ Cardinality(late) < MaxLate /\ late' = late \cup {script}

\* What the fallback ProportionalArbiter answers.
Fallback(desired, budget) ==
  IF ProportionalGrants(desired)
    THEN [ceiling |-> ProportionalCeiling(desired, budget), by |-> "fallback"]
    ELSE [ceiling |-> 0, by |-> "none"]

\* arbitrate, a RedisError: the local fallback decides.
ArbitrateFails(k, desired, budget) ==
  /\ Faults
  /\ MayArbitrate(k)
  /\ grant' = [grant EXCEPT ![k] = Fallback(desired, budget)]
  /\ MayRunLate([op |-> "reserve", key |-> k, micro |-> ToMicro(desired.ceiling)])
  /\ UNCHANGED <<remaining, alloc, settles, spent, lapsed, cold>>

MaySettle(k) == settles[k] < MaxSettles

Settle(k, cost) ==
  /\ MaySettle(k)
  /\ LuaSettle(k, ActualMicro(cost))
  /\ settles' = [settles EXCEPT ![k] = @ + 1]
  /\ UNCHANGED <<grant, late>>

\* settle, a RedisError: logged and swallowed.
SettleFails(k, cost) ==
  /\ Faults
  /\ MaySettle(k)
  /\ settles' = [settles EXCEPT ![k] = @ + 1]
  /\ MayRunLate([op |-> "settle", key |-> k, micro |-> ActualMicro(cost)])
  /\ UNCHANGED <<remaining, alloc, grant, spent, lapsed, cold>>

\* A script whose caller has given up reaches Redis after all.
RunLate(m) ==
  /\ late' = late \ {m}
  /\ \/ m.op = "reserve" /\ LuaReserve(m.key, m.micro) /\ UNCHANGED history
     \/ m.op = "settle" /\ LuaSettle(m.key, m.micro)
  /\ UNCHANGED <<grant, settles>>

Next ==
  \/ \E k \in Keys, d \in Desires : Arbitrate(k, d)
  \/ \E k \in Keys, d \in Desires, b \in Budgets : ArbitrateFails(k, d, b)
  \/ \E k \in Keys, c \in Costs : Settle(k, c)
  \/ \E k \in Keys, c \in Costs : SettleFails(k, c)
  \/ \E k \in Keys : Expire(k)
  \/ \E m \in late : RunLate(m)

Spec == Init /\ [][Next]_vars

-----------------------------------------------------------------------------
(* Properties. *)

HeldBy(k) == IF alloc[k] = NoAlloc THEN 0 ELSE alloc[k]
Held == [k \in Keys |-> HeldBy(k)]

\* What the counter and the allocation records promise is a BudgetLedger.
Ledger == INSTANCE BudgetLedger WITH free <- Available, held <- Held

(* The counter and the live allocations never add up to more than the      *)
(* budget: neither a refund, nor a retried, late or duplicated script, nor *)
(* an expiry creates money (LUA_RESERVE, LUA_SETTLE).                      *)
BudgetNeverCreated == Available + SumTo(Held, NKeys) <= Total

(* Every step of Redis is a step of the ledger: a hold within what is      *)
(* free, one release of a hold, or a charge (LUA_RESERVE, LUA_SETTLE).     *)
ImplementsLedger == Ledger!Spec

(* Money leaves the budget only as a cost that was settled or as an        *)
(* allocation that expired, unless a settle came before the first reserve: *)
(* LUA_SETTLE deducts the actual cost from the counter, no more.           *)
BudgetNeverLost == ~cold => Available + SumTo(Held, NKeys) + spent + lapsed >= Total

(* A step that asks once and is told that its reservation stands has one   *)
(* of the size of its ceiling, to the nearest microdollar, until it        *)
(* expires or is settled (arbitrate: the record holds what is granted).    *)
ReservedGrantIsBacked ==
  \A k \in Keys \ Retries :
    (grant[k] # NoGrant /\ alloc[k] # NoAlloc) =>
      (grant[k].by = "reserved" => alloc[k] = ToMicro(grant[k].ceiling))

=============================================================================
