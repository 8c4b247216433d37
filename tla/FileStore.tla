------------------------------ MODULE FileStore ------------------------------
(***************************************************************************)
(* FileStore (file_store.py): the outcomes of each chain in a file of      *)
(* lines with one older generation, statistics in memory, and a copy of    *)
(* the statistics in a file of their own, written outside the lock.        *)
(*                                                                         *)
(* A thread commits, reads a history or closes the store.  A region under  *)
(* the lock is one action, but for the two steps of a rotation, which a    *)
(* reader may see; each access to a file outside it is an action.          *)
(***************************************************************************)
EXTENDS StepHistory

CONSTANTS
    Chains,         \* chain ids that pass _SAFE_CHAIN_RE
    Writers,        \* threads that commit and close
    Readers,        \* threads that read histories
    Inputs,         \* what the n-th commit records: [kind, model, status, cost, elapsed]
    Contexts,       \* budget contexts <<remaining, ceiling>>
    Limits,         \* limits that callers of build_history pass
    MaxChains,      \* _MAX_CHAINS
    MaxLines,       \* max_lines: commits after which the file is rotated
    FlushInterval,  \* flush_interval: commits between two copies of the statistics
    MaxHistory,     \* _MAX_HISTORY_LIMIT
    MaxCommits,     \* bound: commits that are attempted
    MaxFaults,      \* bound: operations on files that fail
    MaxCrashes      \* bound: ends of the process, after each it starts again

ASSUME FileStoreAssumption ==
    /\ MaxChains \in Nat
    /\ MaxLines \in Nat \ {0}
    /\ FlushInterval \in Nat \ {0}
    /\ MaxHistory \in Nat \ {0}
    /\ MaxCommits \in Nat /\ MaxFaults \in Nat /\ MaxCrashes \in Nat
    /\ Limits \subseteq Int
    /\ MaxCommits <= Len(Inputs)
    /\ Inputs \in Seq([kind : STRING, model : STRING, status : STRING,
                      cost : Nat, elapsed : Nat])

VARIABLES
    active,     \* lines of {chain}.jsonl
    rotated,    \* lines of {chain}.1.jsonl
    statsFile,  \* {chain}_stats.json: <<>>, or the statistics one can load from it
    stats,      \* _chain_stats: <<>> for a chain it does not have
    context,    \* budget context for the next commit, <<>> if none
    rotation,   \* <<>>, or the thread in _rotate, which holds the lock, and its chain
    flushing,   \* copies of statistics each thread has yet to write
    reading,    \* where each thread is in build_history
    attempts, faults, crashes,
    counted,    \* history: the outcomes that stats[c] is of
    saved,      \* history: the outcomes that statsFile[c] is of
    log,        \* history: the outcomes whose line was appended
    flushed     \* history: how many outcomes the newest copy written is of

history == <<counted, saved, log, flushed>>
bounds == <<attempts, faults, crashes>>
vars == <<active, rotated, statsFile, stats, context, rotation, flushing,
          reading, bounds, history>>

(* A line written in part, with no end of line; one that cannot be parsed.  *)
Torn == [step |-> 0, torn |-> TRUE]
Corrupt == [step |-> 0, torn |-> FALSE]

NotReading == [at |-> "idle"]
LockFree == rotation = <<>>

Init ==
    /\ active = [c \in Chains |-> <<>>] /\ rotated = [c \in Chains |-> <<>>]
    /\ statsFile = [c \in Chains |-> <<>>]
    /\ stats = [c \in Chains |-> <<>>]
    /\ context = <<>> /\ rotation = <<>>
    /\ flushing = [t \in Writers |-> <<>>]
    /\ reading = [r \in Readers |-> NotReading]
    /\ attempts = 0 /\ faults = 0 /\ crashes = 0
    /\ counted = [c \in Chains |-> <<>>] /\ saved = [c \in Chains |-> <<>>]
    /\ log = [c \in Chains |-> <<>>]
    /\ flushed = [c \in Chains |-> 0]

----------------------------------------------------------------------------
(* Commits.                                                                 *)

(* The next commit consumes the context, of whatever chain that commit is.  *)
SetBudgetContext ==
    /\ LockFree /\ attempts < MaxCommits
    /\ context' \in Contexts /\ context' # context
    /\ UNCHANGED <<active, rotated, statsFile, stats, rotation, flushing,
                   reading, bounds, history>>

AppendedBlindly(lines, line) == Append(lines, line)

(* What a line appended to the lines of a file makes of them: a torn line    *)
(* has no end, and runs into the next ones up to one that has.              *)
AppendedLine(lines, line) ==
    IF lines # <<>> /\ Last(lines) = Torn
    THEN [lines EXCEPT ![Len(lines)] = IF line = Torn THEN Torn ELSE Corrupt]
    ELSE Append(lines, line)

(* What the n-th commit records: a StepOutcome, numbered. *)
Outcome(n) ==
    [kind |-> Inputs[n].kind, model |-> Inputs[n].model, status |-> Inputs[n].status,
     cost |-> Inputs[n].cost, elapsed |-> Inputs[n].elapsed, step |-> n]

HasRoom(c) ==
    \/ stats[c] # <<>>
    \/ Cardinality({d \in Chains : stats[d] # <<>>}) < MaxChains

(* The statistics of c, fresh ones if it has none. *)
StatsOf(c) == IF stats[c] = <<>> THEN FreshStats ELSE stats[c]

FlushDueLate(s) == s.total % (FlushInterval + 1) = 0
FlushDue(s) == s.total % FlushInterval = 0
RotationDueEarly(since) == since + 1 >= MaxLines
RotationDue(since) == since >= MaxLines

(***************************************************************************)
(* The region under the lock, up to a rotation.  The copy to be flushed is *)
(* taken before commits_since_rotate is raised.                            *)
(***************************************************************************)
Commit(t, c) ==
    /\ flushing[t] = <<>> /\ LockFree /\ attempts < MaxCommits
    /\ HasRoom(c)
    /\ LET o    == Outcome(attempts + 1)
           new  == CountOutcome(StatsOf(c), o, context)
           since == new.sinceRotate + 1
       IN  /\ active' = [active EXCEPT ![c] = AppendedLine(@, o)]
           /\ stats' = [stats EXCEPT ![c] = [new EXCEPT !.sinceRotate = since]]
           /\ counted' = [counted EXCEPT ![c] = Append(@, o)]
           /\ log' = [log EXCEPT ![c] = Append(@, o)]
           /\ flushing' = IF FlushDue(new)
                          THEN [flushing EXCEPT ![t] = <<<<c, new, counted'[c]>>>>]
                          ELSE flushing
           /\ rotation' = IF RotationDue(since) THEN <<t, c>> ELSE <<>>
    /\ context' = <<>>
    /\ attempts' = attempts + 1
    /\ UNCHANGED <<rotated, statsFile, reading, faults, crashes, saved, flushed>>

(* The line cannot be written, or only in part: commit raises. *)
AppendFails(t, c) ==
    /\ flushing[t] = <<>> /\ LockFree /\ attempts < MaxCommits /\ faults < MaxFaults
    /\ HasRoom(c)
    /\ \/ UNCHANGED active
       \/ active' = [active EXCEPT ![c] = AppendedLine(@, Torn)]
    /\ attempts' = attempts + 1
    /\ faults' = faults + 1
    /\ UNCHANGED <<rotated, statsFile, stats, context, rotation, flushing,
                   reading, crashes, history>>

(* A reader of c that has not read both files may miss what moves now, or   *)
(* read it twice (history).                                                 *)
Disturbed(c) ==
    [t \in Readers |->
        IF reading[t].at \in {"active", "rotated"} /\ reading[t].chain = c
        THEN [reading[t] EXCEPT !.disturbed = TRUE] ELSE reading[t]]

(* _rotate removes the older generation, then renames the active file. *)
Unlink(t, c) ==
    /\ rotation = <<t, c>> /\ rotated[c] # <<>>
    /\ rotated' = [rotated EXCEPT ![c] = <<>>]
    /\ reading' = Disturbed(c)
    /\ UNCHANGED <<active, statsFile, stats, context, rotation, flushing,
                   bounds, history>>

Rename(t, c) ==
    /\ rotation = <<t, c>> /\ rotated[c] = <<>>
    /\ rotated' = [rotated EXCEPT ![c] = active[c]]
    /\ active' = [active EXCEPT ![c] = <<>>]
    /\ stats' = [stats EXCEPT ![c].sinceRotate = 0]
    /\ rotation' = <<>>
    /\ reading' = Disturbed(c)
    /\ UNCHANGED <<statsFile, context, flushing, bounds, history>>

(* Either fails: the count stays, and the next commit tries again. *)
RotationFails(t, c) ==
    /\ rotation = <<t, c>> /\ faults < MaxFaults
    /\ rotation' = <<>>
    /\ faults' = faults + 1
    /\ UNCHANGED <<active, rotated, statsFile, stats, context, flushing,
                   reading, attempts, crashes, history>>

----------------------------------------------------------------------------
(* Copies of the statistics, written outside the lock.                      *)

Close(t) ==
    /\ flushing[t] = <<>> /\ LockFree
    /\ LET held == SetToSeq({c \in Chains : stats[c] # <<>>})
       IN  /\ held # <<>>
           /\ flushing' = [flushing EXCEPT ![t] =
                [i \in DOMAIN held |-> <<held[i], stats[held[i]], counted[held[i]]>>]]
    /\ UNCHANGED <<active, rotated, statsFile, stats, context, rotation,
                   reading, bounds, history>>

(* write_text truncates the file before it writes: a failure may leave an   *)
(* empty one.  Errors are swallowed.                                        *)
WriteStats(t) ==
    /\ flushing[t] # <<>> /\ rotation \notin {<<t, c>> : c \in Chains}
    /\ LET c    == Head(flushing[t])[1]
           copy == Head(flushing[t])[2]
           of   == Head(flushing[t])[3]
       IN  \/ /\ statsFile' = [statsFile EXCEPT ![c] = copy]
              /\ saved' = [saved EXCEPT ![c] = of]
              /\ flushed' = [flushed EXCEPT ![c] = IF Len(of) > @ THEN Len(of) ELSE @]
              /\ UNCHANGED faults
           \/ /\ faults < MaxFaults
              /\ \/ UNCHANGED <<statsFile, saved>>
                 \/ /\ statsFile' = [statsFile EXCEPT ![c] = <<>>]
                    /\ saved' = [saved EXCEPT ![c] = <<>>]
              /\ faults' = faults + 1
              /\ UNCHANGED flushed
    /\ flushing' = [flushing EXCEPT ![t] = Tail(@)]
    /\ UNCHANGED <<active, rotated, stats, context, rotation, reading,
                   attempts, crashes, counted, log>>

(***************************************************************************)
(* The process ends and starts again: threads, context and statistics are  *)
(* gone but for what _load_existing_stats finds; a copy that was being     *)
(* written may be empty.                                                   *)
(***************************************************************************)
Restart ==
    /\ crashes < MaxCrashes
    /\ \E emptied \in SUBSET {Head(flushing[t])[1] : t \in {u \in Writers : flushing[u] # <<>>}} :
          LET kept(f) == [c \in Chains |-> IF c \in emptied THEN <<>> ELSE f[c]]
          IN  /\ statsFile' = kept(statsFile) /\ stats' = kept(statsFile)
              /\ saved' = kept(saved) /\ counted' = kept(saved)
    /\ context' = <<>> /\ rotation' = <<>>
    /\ flushing' = [t \in Writers |-> <<>>]
    /\ reading' = [r \in Readers |-> NotReading]
    /\ crashes' = crashes + 1
    /\ flushed' = [c \in Chains |-> Len(saved'[c])]
    /\ UNCHANGED <<active, rotated, attempts, faults, log>>

----------------------------------------------------------------------------
(* build_history.                                                           *)

(* A line that was torn, or run into by another, is skipped. *)
Taken(outs, line) == IF line.step = 0 THEN outs ELSE Append(outs, line)

(* The outcomes that can be read from the lines of a file. *)
Outcomes(lines) ==
    LET upto[n \in 0..Len(lines)] ==
            IF n = 0 THEN <<>> ELSE Taken(upto[n - 1], lines[n])
    IN  upto[Len(lines)]

(* It takes a reference to the statistics under the lock, and fresh ones    *)
(* of its own for a chain that has none.                                    *)
BeginRead(t, c, limit) ==
    /\ reading[t] = NotReading /\ LockFree
    /\ reading' = [reading EXCEPT ![t] =
            [at |-> "active", chain |-> c, limit |-> ClampedLimit(limit, MaxHistory),
             fresh |-> stats[c] = <<>>, before |-> log[c], outs |-> <<>>,
             disturbed |-> FALSE]]
    /\ UNCHANGED <<active, rotated, statsFile, stats, context, rotation,
                   flushing, bounds, history>>

ReadActive(t) ==
    /\ reading[t].at = "active"
    /\ LET r == reading[t]
           outs == Outcomes(active[r.chain])
       IN  reading' = [reading EXCEPT
                ![t].outs = outs,
                ![t].at = IF Len(outs) < r.limit THEN "rotated" ELSE "stats"]
    /\ UNCHANGED <<active, rotated, statsFile, stats, context, rotation,
                   flushing, bounds, history>>

ReadRotatedAfter(t) ==
    /\ reading[t].at = "rotated"
    /\ reading' = [reading EXCEPT
            ![t].outs = @ \o Outcomes(rotated[reading[t].chain]),
            ![t].at = "stats"]
    /\ UNCHANGED <<active, rotated, statsFile, stats, context, rotation,
                   flushing, bounds, history>>

ReadRotated(t) ==
    /\ reading[t].at = "rotated"
    /\ reading' = [reading EXCEPT
            ![t].outs = Outcomes(rotated[reading[t].chain]) \o @,
            ![t].at = "stats"]
    /\ UNCHANGED <<active, rotated, statsFile, stats, context, rotation,
                   flushing, bounds, history>>

(* The view: its statistics are read last, and without the lock. *)
View(r) ==
    LET lastN == LastN(r.outs, r.limit)
        s     == IF r.fresh THEN FreshStats ELSE stats[r.chain]
    IN  [lastN |-> lastN, rollingCost |-> RollingCost(lastN),
         failureStreak |-> s.failure, successStreak |-> s.success,
         depth |-> Len(lastN), loopScore |-> LoopScore(lastN),
         costEma |-> s.costEma, costByModel |-> s.costByModel,
         latencyByModel |-> s.latencyByModel, headroom |-> s.headroom]

EndRead(t) ==
    /\ reading[t].at = "stats"
    /\ reading' = [reading EXCEPT ![t] = NotReading]
    /\ UNCHANGED <<active, rotated, statsFile, stats, context, rotation,
                   flushing, bounds, history>>

----------------------------------------------------------------------------
Next ==
    \/ SetBudgetContext
    \/ \E t \in Writers, c \in Chains :
          \/ Commit(t, c)
          \/ AppendFails(t, c)
          \/ Unlink(t, c) \/ Rename(t, c) \/ RotationFails(t, c)
    \/ \E t \in Writers : Close(t) \/ WriteStats(t)
    \/ \E t \in Readers :
          \/ \E c \in Chains, limit \in Limits : BeginRead(t, c, limit)
          \/ ReadActive(t) \/ ReadRotated(t) \/ EndRead(t)
    \/ Restart

Spec == Init /\ [][Next]_vars

----------------------------------------------------------------------------
(* Properties.                                                              *)

Recorded == [kind : STRING, model : STRING, status : STRING, cost : Nat,
             elapsed : Nat, step : Nat \ {0}]
IsStatistics(s) ==
    /\ {s.costEma, s.success, s.failure, s.total, s.sinceRotate} \subseteq Nat
    /\ DOMAIN s.costByModel = DOMAIN s.latencyByModel
    /\ Cardinality(DOMAIN s.costByModel) <= MaxModels
    /\ s.headroom \in Contexts \cup {<<1, 1>>}

(* Lines are outcomes, torn only at the end of a file; models and chains    *)
(* stay within their caps.                                                  *)
TypeOK ==
    /\ \A c \in Chains :
          /\ \A f \in {active[c], rotated[c]} : \A i \in DOMAIN f :
                \/ f[i] \in Recorded \/ f[i] = Corrupt
                \/ f[i] = Torn /\ i = Len(f)
          /\ \A s \in {stats[c], statsFile[c]} : s = <<>> \/ IsStatistics(s)
    /\ Cardinality({c \in Chains : stats[c] # <<>>}) <= MaxChains
    /\ context \in Contexts \cup {<<>>}
    /\ rotation \in (Writers \X Chains) \cup {<<>>}

(* A definition of the statistics of outcomes that does not fold over them. *)
AreStatsOf(s, outs) ==
    LET fails == TrailingFailures(outs)
        costs == {outs[i].cost : i \in DOMAIN outs}
        of(m) == {outs[i].cost : i \in {j \in DOMAIN outs : outs[j].model = m}}
    IN  /\ s.total = Len(outs)
        /\ s.failure = fails
        /\ s.success > 0 <=> outs # <<>> /\ fails = 0
        /\ \A i \in DOMAIN outs : i > Len(outs) - s.success <=>
                \A j \in i..Len(outs) : outs[j].status = "ok"
        /\ outs # <<>> => s.costEma \in Min(costs)..Max(costs)
        /\ \A m \in DOMAIN s.costByModel :
                s.costByModel[m] \in Min(of(m))..Max(of(m))

(***************************************************************************)
(* Whatever fails, crashes or is overtaken, the statistics in memory are   *)
(* those of the outcomes committed since the last restart on top of those  *)
(* loaded then, the file's are those of some earlier point, and neither is *)
(* ever ahead of the lines that were written (commit, close and            *)
(* _load_existing_stats).                                                  *)
(***************************************************************************)
StatsAccountForPrefix ==
    \A c \in Chains :
        /\ AreStatsOf(StatsOf(c), counted[c])
        /\ statsFile[c] # <<>> => AreStatsOf(statsFile[c], saved[c])
        /\ IsPrefix(saved[c], counted[c])
        /\ Len(counted[c]) <= Len(log[c])

(***************************************************************************)
(* When no copy of a chain is waiting to be written, the file lags behind  *)
(* by less than flush_interval commits, unless a write failed or an older  *)
(* copy was written over the newest (commit flushes outside the lock).     *)
(***************************************************************************)
LagBounded ==
    \A c \in Chains :
        \/ faults > 0 \/ Len(saved[c]) < flushed[c]
        \/ \E t \in Writers : \E i \in DOMAIN flushing[t] : flushing[t][i][1] = c
        \/ Len(counted[c]) - Len(saved[c]) < FlushInterval

(***************************************************************************)
(* Until the process ends, the two files of a chain hold its last          *)
(* max_lines lines, also while a rotation is under way or after it has     *)
(* failed between removing the older file and renaming the active one      *)
(* (_rotate).                                                              *)
(***************************************************************************)
HistoryKept ==
    crashes = 0 =>
        \A c \in Chains : Len(rotated[c]) + Len(active[c]) >=
            (IF Len(log[c]) < MaxLines THEN Len(log[c]) ELSE MaxLines)

(* The design says that the older file provides continuity after a          *)
(* rotation: however often the process restarts, a chain keeps its last     *)
(* max_lines outcomes (docs/plans, 4-B).                                    *)
NoColdStart ==
    \A c \in Chains : rotation = <<>> =>
        Len(rotated[c]) + Len(active[c]) >=
            (IF Len(log[c]) < MaxLines THEN Len(log[c]) ELSE MaxLines)

(***************************************************************************)
(* A view that no rotation disturbs shows outcomes in the order of their   *)
(* commits, each once, none left out between two of them unless its line   *)
(* was spoilt, and, if the limit allows one, nothing older than what was   *)
(* committed last when it began (build_history without a lock).            *)
(***************************************************************************)
ViewFaithful ==
    \A t \in Readers : reading[t].at = "stats" /\ ~reading[t].disturbed =>
        LET r == reading[t]
            seen == View(r).lastN
        IN  /\ \A i, j \in DOMAIN seen : i < j => seen[i].step < seen[j].step
            /\ \A i \in DOMAIN seen : seen[i] \in ToSet(log[r.chain])
            /\ faults = 0 =>
                /\ \E k \in Len(seen)..Len(log[r.chain]) :
                        seen = SubSeq(log[r.chain], k - Len(seen) + 1, k)
                /\ r.before # <<>> =>
                        seen # <<>> /\ Last(seen).step >= Last(r.before).step
============================================================================
