------------------------------- MODULE Stores -------------------------------
(***************************************************************************)
(* The other stores of StoreProtocol, MemoryStore (store.py) and PgStore   *)
(* (pg_store.py), given the commits of a FileStore, to compare what their  *)
(* build_history returns.  Each commits and reads in one step: under a     *)
(* lock, or in one statement.                                              *)
(***************************************************************************)
EXTENDS FileStore

CONSTANT MaxOutcomes    \* _MAX_OUTCOMES_PER_CHAIN of both modules

(* It is the _MAX_HISTORY_LIMIT of file_store.py in the code: 50,000. *)
ASSUME StoresAssumption == MaxOutcomes \in Nat \ {0} /\ MaxHistory <= MaxOutcomes

VARIABLES
    chains,     \* MemoryStore._chains
    rows        \* the rows of veronica_events by ascending id

svars == <<vars, chains, rows>>

StoresInit ==
    /\ Init
    /\ chains = [c \in Chains |-> <<>>]
    /\ rows = <<>>

(* MemoryStore.commit drops the oldest outcomes beyond its cap. *)
MemoryAppended(chain, o) == LastN(Append(chain, o), MaxOutcomes)

(* PgStore.commit inserts one row in a transaction. *)
Inserted(c, o) == Append(rows, [chain |-> c, outcome |-> o])

(* Both are given each outcome whose line FileStore has appended. *)
Fed ==
    IF log' = log THEN UNCHANGED <<chains, rows>>
    ELSE LET c == CHOOSE d \in Chains : log'[d] # log[d]
             o == Last(log'[c])
         IN  /\ chains' = [chains EXCEPT ![c] = MemoryAppended(@, o)]
             /\ rows' = Inserted(c, o)

StoresNext == Next /\ Fed

StoresSpec == StoresInit /\ [][StoresNext]_svars

(***************************************************************************)
(* A view over a window: the failures at its end are counted in the window *)
(* alone; averages, headroom and loop score keep their defaults.           *)
(***************************************************************************)
WindowView(window) ==
    [lastN |-> window, rollingCost |-> RollingCost(window),
     failureStreak |-> TrailingFailures(window), successStreak |-> 0,
     depth |-> Len(window), loopScore |-> <<0, 1>>, costEma |-> 0,
     costByModel |-> NoAverages, latencyByModel |-> NoAverages,
     headroom |-> <<1, 1>>]

MemoryView(c, limit) ==
    WindowView(LastN(chains[c], ClampedLimit(limit, MaxOutcomes)))

(* A row selected if it is of the chain: WHERE chain_id = c. *)
Selected(outs, row, c) ==
    IF row.chain = c THEN Append(outs, row.outcome) ELSE outs

(* The outcomes of a chain in a table, by ascending id. *)
RowsOf(table, c) ==
    LET upto[n \in 0..Len(table)] ==
            IF n = 0 THEN <<>> ELSE Selected(upto[n - 1], table[n], c)
    IN  upto[Len(table)]

(* ORDER BY id DESC LIMIT limit. *)
NewestRows(c, limit) ==
    LET newest == Reverse(RowsOf(rows, c))
    IN  SubSeq(newest, 1, Min({Len(newest), ClampedLimit(limit, MaxOutcomes)}))

PgViewNewestFirst(c, limit) == WindowView(NewestRows(c, limit))

(* The newest rows of a chain, put back in the order of their ids. *)
PgView(c, limit) == WindowView(Reverse(NewestRows(c, limit)))

----------------------------------------------------------------------------
(* The two files hold as many of the last outcomes as the limit asks for. *)
HasLines(c, limit) ==
    Len(rotated[c]) + Len(active[c]) >= Min({limit, Len(log[c])})

(***************************************************************************)
(* The stores are interchangeable as far as they claim: read between the   *)
(* same commits, with no failure, no restart and a limit that the files    *)
(* can meet, the views show the same outcomes and cost, and FileStore's    *)
(* running streak is the window's unless the whole window failed.          *)
(***************************************************************************)
StoresAgree ==
    \A t \in Readers :
        LET r == reading[t] IN
        r.at = "stats" /\ ~r.disturbed /\ r.before = log[r.chain]
        /\ faults = 0 /\ crashes = 0 /\ HasLines(r.chain, r.limit) =>
            LET file == View(r)
                memory == MemoryView(r.chain, r.limit)
            IN  /\ memory = PgView(r.chain, r.limit)
                /\ file.lastN = memory.lastN
                /\ file.rollingCost = memory.rollingCost
                /\ file.depth = memory.depth
                /\ memory.failureStreak = Min({file.failureStreak, file.depth})
=============================================================================
