---------------------------- MODULE StoresProofs ----------------------------
(***************************************************************************)
(* What FileStore guarantees for every number of chains, threads, commits, *)
(* failures and restarts, and every cap and interval, alone and beside the *)
(* other stores: its types and caps (StoreTypes), that its two files keep  *)
(* the last lines (KeptInv), what its statistics account for (AccountInv), *)
(* how far their copy in the file lags behind (LagInv) and what a view of  *)
(* a chain shows (ViewInv); and that the other stores show the same        *)
(* (SideInv).                                                              *)
(***************************************************************************)
EXTENDS Stores, WellFoundedInduction, FiniteSetTheorems, SequenceTheorems, TLAPS

-----------------------------------------------------------------------------
(* Natural numbers. *)

(* Every nonempty set of naturals has a least element. *)
LEMMA LeastNatural ==
  ASSUME NEW T \in SUBSET Nat, T # {}
  PROVE  \E m \in T : \A n \in T : m <= n
<1> DEFINE R == {p \in Nat \X Nat : p[1] < p[2]}
<1>1. IsWellFoundedOn(R, Nat)
  BY NatLessThanWellFounded, Zenon DEF OpToRel
<1> HIDE DEF R
<1>2. PICK m \in T : \A n \in T : <<n, m>> \notin R
  BY <1>1, WFMin, Zenon
<1>3. \A n \in T : ~(n < m)
  BY <1>2 DEF R
<1> QED BY <1>3

(* Induction: a set of naturals that holds 0 and is closed under successor *)
(* is all of Nat.                                                          *)
LEMMA SetInduction ==
  ASSUME NEW S \in SUBSET Nat, 0 \in S, \A n \in S : n + 1 \in S
  PROVE  S = Nat
<1> SUFFICES ASSUME Nat \ S # {} PROVE FALSE
  OBVIOUS
<1>1. PICK m \in Nat \ S : \A n \in Nat \ S : m <= n
  BY LeastNatural
<1>2. m # 0 /\ m - 1 \in Nat
  BY <1>1
<1>3. m - 1 \in S
  BY <1>1, <1>2
<1> QED BY <1>1, <1>3

-----------------------------------------------------------------------------
(* Lines of a file. *)

Line == Recorded \cup {Torn, Corrupt}

\* The number of lines of a file that are complete.
Full(lines) ==
  IF lines # <<>> /\ Last(lines) = Torn THEN Len(lines) - 1 ELSE Len(lines)

\* Only the last line of a file can be torn.
TornAtEnd(lines) == \A i \in 1..Len(lines) : lines[i] = Torn => i = Len(lines)

(* A complete outcome is neither a torn nor a corrupt line, and those two  *)
(* differ.                                                                 *)
LEMMA LinesDiffer ==
  /\ \A o \in Recorded : o # Torn /\ o # Corrupt
  /\ Torn # Corrupt
<1>1. ASSUME NEW o \in Recorded PROVE o # Torn /\ o # Corrupt
  <2>1. o.step # 0
    BY DEF Recorded
  <2>2. Torn.step = 0 /\ Corrupt.step = 0
    BY DEF Torn, Corrupt
  <2> QED BY <2>1, <2>2
<1>2. Torn # Corrupt
  <2>1. Torn.torn = TRUE /\ Corrupt.torn = FALSE
    BY DEF Torn, Corrupt
  <2> QED BY <2>1
<1> QED BY <1>1, <1>2

(* A line appended after a torn one completes it, and is lost with it; it  *)
(* adds one complete line in any case, unless it is torn itself (commit:   *)
(* open(path, "a")).                                                       *)
LEMMA AppendedLineTypes ==
  ASSUME NEW lines \in Seq(Line), TornAtEnd(lines), NEW line \in Line
  PROVE  /\ AppendedLine(lines, line) \in Seq(Line)
         /\ TornAtEnd(AppendedLine(lines, line))
         /\ Full(lines) \in Nat
         /\ Full(AppendedLine(lines, line)) \in Nat
         /\ Full(AppendedLine(lines, line)) >= Full(lines)
         /\ line # Torn => Full(AppendedLine(lines, line)) >= Full(lines) + 1
<1>0. Corrupt \in Line /\ Corrupt # Torn
  BY LinesDiffer DEF Line
<1>3. CASE lines # <<>> /\ Last(lines) = Torn /\ line = Torn
  <2>1. Len(lines) \in Nat \ {0} /\ lines[Len(lines)] = Torn
    BY <1>3 DEF Last
  <2>2. AppendedLine(lines, line) = lines
    BY <1>3, <2>1 DEF AppendedLine
  <2>3. Full(lines) = Len(lines) - 1
    BY <1>3 DEF Full
  <2> QED BY <1>3, <2>1, <2>2, <2>3
<1>1. CASE lines # <<>> /\ Last(lines) = Torn /\ line # Torn
  <2> DEFINE result == [lines EXCEPT ![Len(lines)] = Corrupt]
  <2>1. Len(lines) \in Nat \ {0}
    BY <1>1
  <2>3. AppendedLine(lines, line) = result
    BY <1>1 DEF AppendedLine
  <2>4. /\ result \in Seq(Line) /\ Len(result) = Len(lines)
        /\ result[Len(lines)] = Corrupt
        /\ \A i \in 1..Len(lines) - 1 : result[i] = lines[i]
    BY <2>1, <1>0
  <2> HIDE DEF result
  <2>5. \A i \in 1..Len(lines) : result[i] # Torn
    <3> SUFFICES ASSUME NEW i \in 1..Len(lines) PROVE result[i] # Torn
      OBVIOUS
    <3>1. CASE i = Len(lines)
      BY <3>1, <2>4, <1>0
    <3>2. CASE i # Len(lines)
      <4>1. i \in 1..Len(lines) - 1
        BY <3>2, <2>1
      <4> QED BY <4>1, <2>4, <3>2 DEF TornAtEnd
    <3> QED BY <3>1, <3>2
  <2>6. TornAtEnd(result)
    BY <2>4, <2>5 DEF TornAtEnd
  <2>7. Full(result) = Len(lines) /\ Full(lines) = Len(lines) - 1
    BY <1>1, <2>1, <2>4, <1>0 DEF Full, Last
  <2> QED BY <2>1, <2>3, <2>4, <2>6, <2>7
<1>2. CASE ~(lines # <<>> /\ Last(lines) = Torn)
  <2> DEFINE result == Append(lines, line)
  <2>1. AppendedLine(lines, line) = result
    BY <1>2 DEF AppendedLine
  <2>2. /\ result \in Seq(Line) /\ Len(result) = Len(lines) + 1 /\ Len(lines) \in Nat
        /\ result[Len(lines) + 1] = line
        /\ \A i \in 1..Len(lines) : result[i] = lines[i]
    OBVIOUS
  <2> HIDE DEF result
  <2>3. \A i \in 1..Len(lines) : lines[i] # Torn
    BY <1>2, <2>2 DEF TornAtEnd, Last
  <2>4. TornAtEnd(result)
    BY <2>2, <2>3 DEF TornAtEnd
  <2>5. Full(lines) = Len(lines)
    BY <1>2 DEF Full
  <2>6. Full(result) = IF line = Torn THEN Len(lines) ELSE Len(lines) + 1
    <3>1. result # <<>> /\ Last(result) = line
      BY <2>2 DEF Last
    <3> QED BY <3>1, <2>2 DEF Full
  <2> QED BY <2>1, <2>2, <2>4, <2>5, <2>6
<1> QED BY <1>1, <1>2, <1>3

-----------------------------------------------------------------------------
(* Statistics. *)

Averages == UNION {[M -> Nat] : M \in SUBSET STRING}
Fields == [costEma : Nat, costByModel : Averages, latencyByModel : Averages,
           success : Nat, failure : Nat, total : Nat,
           headroom : Contexts \cup {<<1, 1>>}, sinceRotate : Nat]
Statistics ==
  {s \in Fields : /\ DOMAIN s.costByModel = DOMAIN s.latencyByModel
                  /\ IsFiniteSet(DOMAIN s.costByModel)
                  /\ Cardinality(DOMAIN s.costByModel) <= MaxModels}

(* A chain without statistics is told from one that has some. *)
LEMMA StatisticsNotEmpty == \A s \in Statistics : s # <<>>
<1> SUFFICES ASSUME NEW s \in Fields PROVE s # <<>>
  BY DEF Statistics
<1>1. "total" \in DOMAIN s
  BY DEF Fields
<1>2. DOMAIN <<>> = {}
  OBVIOUS
<1> QED BY <1>1, <1>2

(* Fresh statistics are well formed (_ChainStats()). *)
LEMMA FreshTypes == FreshStats \in Statistics
<1>1. NoAverages \in Averages /\ DOMAIN NoAverages = {}
  BY DEF NoAverages, Averages
<1>2. FreshStats \in Fields
  BY <1>1 DEF FreshStats, Fields
<1>3. IsFiniteSet({}) /\ Cardinality({}) = 0
  BY FS_EmptySet
<1> QED BY <1>1, <1>2, <1>3, StepHistoryAssumption DEF Statistics, FreshStats

(* A moving average of natural numbers is one. *)
LEMMA EmaNat ==
  ASSUME NEW prev \in Nat, NEW current \in Nat
  PROVE  Ema(prev, current) \in Nat
BY DEF Ema

(* One more sample of a model changes its average alone. *)
LEMMA AveragedTypes ==
  ASSUME NEW f \in Averages, NEW m \in STRING, NEW sample \in Nat
  PROVE  /\ Averaged(f, m, sample) \in Averages
         /\ DOMAIN Averaged(f, m, sample) = DOMAIN f \cup {m}
<1>1. PICK M \in SUBSET STRING : f \in [M -> Nat]
  BY DEF Averages
<1>2. DOMAIN f = M /\ \A x \in M : f[x] \in Nat
  BY <1>1
<1> DEFINE prev == IF m \in DOMAIN f THEN f[m] ELSE 0
           g == [x \in DOMAIN f \cup {m} |-> IF x = m THEN Ema(prev, sample) ELSE f[x]]
<1>3. Ema(prev, sample) \in Nat
  BY <1>2, EmaNat
<1>4. g \in [M \cup {m} -> Nat]
  BY <1>2, <1>3
<1>5. Averaged(f, m, sample) = g
  BY Zenon DEF Averaged
<1> HIDE DEF g
<1>6. M \cup {m} \in SUBSET STRING
  OBVIOUS
<1> QED BY <1>2, <1>4, <1>5, <1>6 DEF Averages

(* The statistics stay well formed with one more outcome: past the cap no  *)
(* model is added (_update_stats: _MAX_MODELS_PER_CHAIN).                  *)
LEMMA CountTypes ==
  ASSUME NEW s \in Statistics, NEW o \in Recorded, NEW budget \in Contexts \cup {<<>>}
  PROVE  CountOutcome(s, o, budget) \in Statistics
<1> DEFINE new == CountOutcome(s, o, budget)
           D == DOMAIN s.costByModel
           byCost == IF Tracks(s, o.model) THEN Averaged(s.costByModel, o.model, o.cost)
                     ELSE s.costByModel
           byLatency == IF Tracks(s, o.model)
                        THEN Averaged(s.latencyByModel, o.model, o.elapsed)
                        ELSE s.latencyByModel
<1>1. /\ s \in Fields /\ DOMAIN s.latencyByModel = D
      /\ IsFiniteSet(D) /\ Cardinality(D) <= MaxModels
  BY DEF Statistics
<1>2. /\ s.costEma \in Nat /\ s.costByModel \in Averages /\ s.latencyByModel \in Averages
      /\ s.success \in Nat /\ s.failure \in Nat /\ s.total \in Nat
      /\ s.headroom \in Contexts \cup {<<1, 1>>} /\ s.sinceRotate \in Nat
  BY <1>1 DEF Fields
<1>3. o.model \in STRING /\ o.cost \in Nat /\ o.elapsed \in Nat
  BY DEF Recorded
<1>4. byCost \in Averages /\ byLatency \in Averages /\ DOMAIN byCost = DOMAIN byLatency
  <2>1. CASE Tracks(s, o.model)
    <3>1. byCost = Averaged(s.costByModel, o.model, o.cost)
          /\ byLatency = Averaged(s.latencyByModel, o.model, o.elapsed)
      BY <2>1
    <3>2. /\ Averaged(s.costByModel, o.model, o.cost) \in Averages
          /\ DOMAIN Averaged(s.costByModel, o.model, o.cost)
               = DOMAIN s.costByModel \cup {o.model}
      BY <1>2, <1>3, AveragedTypes, Zenon
    <3>3. /\ Averaged(s.latencyByModel, o.model, o.elapsed) \in Averages
          /\ DOMAIN Averaged(s.latencyByModel, o.model, o.elapsed)
               = DOMAIN s.latencyByModel \cup {o.model}
      BY <1>2, <1>3, AveragedTypes, Zenon
    <3> HIDE DEF byCost, byLatency
    <3> QED BY <3>1, <3>2, <3>3, <1>1, Zenon DEF D
  <2>2. CASE ~Tracks(s, o.model)
    BY <1>1, <1>2, <2>2
  <2> QED BY <2>1, <2>2
<1>5. IsFiniteSet(DOMAIN byCost) /\ Cardinality(DOMAIN byCost) <= MaxModels
  <2>1. Cardinality(D) \in Nat
    BY <1>1, FS_CardinalityType
  <2>2. CASE ~Tracks(s, o.model)
    BY <1>1, <2>2
  <2>3. CASE Tracks(s, o.model)
    <3>1. DOMAIN byCost = D \cup {o.model}
      BY <2>3, <1>2, <1>3, AveragedTypes
    <3>2. IsFiniteSet(D \cup {o.model})
      BY <1>1, FS_AddElement
    <3>3. Cardinality(D \cup {o.model}) =
            IF o.model \in D THEN Cardinality(D) ELSE Cardinality(D) + 1
      BY <1>1, FS_AddElement
    <3>4. o.model \in D \/ Cardinality(D) < MaxModels
      BY <2>3 DEF Tracks
    <3> HIDE DEF D, byCost
    <3> QED BY <1>1, <2>1, <3>1, <3>2, <3>3, <3>4, StepHistoryAssumption
  <2> QED BY <2>2, <2>3
<1>6. /\ Ema(s.costEma, o.cost) \in Nat /\ SuccessAfter(s, o) \in Nat
      /\ FailureAfter(s, o) \in Nat /\ s.total + 1 \in Nat
  <2>1. Ema(s.costEma, o.cost) \in Nat
    BY <1>2, <1>3, EmaNat
  <2>2. s.success + 1 \in Nat /\ s.failure + 1 \in Nat /\ s.total + 1 \in Nat
    BY <1>2
  <2> QED BY <2>1, <2>2 DEF SuccessAfter, FailureAfter
<1>7. Headroom(s, budget) \in Contexts \cup {<<1, 1>>}
  BY <1>2 DEF Headroom
<1> HIDE DEF byCost, byLatency
<1>8. new = [s EXCEPT !.costEma = Ema(s.costEma, o.cost), !.costByModel = byCost,
                      !.latencyByModel = byLatency, !.success = SuccessAfter(s, o),
                      !.failure = FailureAfter(s, o), !.total = s.total + 1,
                      !.headroom = Headroom(s, budget)]
  BY Zenon DEF CountOutcome, byCost, byLatency
<1> HIDE DEF new
<1>9. new \in Fields /\ new.costByModel = byCost /\ new.latencyByModel = byLatency
  BY <1>1, <1>2, <1>4, <1>6, <1>7, <1>8 DEF Fields
<1> QED BY <1>4, <1>5, <1>9 DEF Statistics, new

-----------------------------------------------------------------------------
(* Types. *)

\* The chains of which a store has statistics.
Known(f) == {c \in Chains : f[c] # <<>>}

\* A copy of statistics: of which chain, and of which of its outcomes.
Copies == Chains \X Statistics \X Seq(Recorded)

FileTypes ==
  /\ active \in [Chains -> Seq(Line)] /\ rotated \in [Chains -> Seq(Line)]
  /\ \A c \in Chains : TornAtEnd(active[c]) /\ TornAtEnd(rotated[c])
StatsTypes ==
  /\ stats \in [Chains -> Statistics \cup {<<>>}]
  /\ statsFile \in [Chains -> Statistics \cup {<<>>}]
  /\ Known(statsFile) \subseteq Known(stats)
  /\ IsFiniteSet(Known(stats)) /\ Cardinality(Known(stats)) <= MaxChains
LockTypes ==
  /\ context \in Contexts \cup {<<>>}
  /\ rotation \in (Writers \X Chains) \cup {<<>>}
  /\ \A t \in Writers, c \in Chains : rotation = <<t, c>> => c \in Known(stats)
CopyTypes ==
  /\ flushing \in [Writers -> Seq(Copies)]
  /\ \A t \in Writers : \A i \in 1..Len(flushing[t]) :
        flushing[t][i][1] \in Known(stats)
HistoryTypes ==
  /\ attempts \in Nat /\ faults \in Nat /\ crashes \in Nat
  /\ counted \in [Chains -> Seq(Recorded)] /\ saved \in [Chains -> Seq(Recorded)]
  /\ log \in [Chains -> Seq(Recorded)] /\ flushed \in [Chains -> Nat]

StoreTypes == FileTypes /\ StatsTypes /\ LockTypes /\ CopyTypes /\ HistoryTypes

(* What a commit records is a numbered outcome. *)
LEMMA OutcomeTypes ==
  ASSUME attempts \in Nat, attempts < MaxCommits
  PROVE  Outcome(attempts + 1) \in Recorded
<1> DEFINE n == attempts + 1
<1>1. n \in 1..Len(Inputs) /\ n \in Nat \ {0}
  <2>1. Len(Inputs) \in Nat /\ MaxCommits \in Nat /\ MaxCommits <= Len(Inputs)
    BY FileStoreAssumption
  <2> QED BY <2>1
<1> HIDE DEF n
<1>2. Inputs[n] \in [kind : STRING, model : STRING, status : STRING,
                     cost : Nat, elapsed : Nat]
  <2> DEFINE S == [kind : STRING, model : STRING, status : STRING,
                   cost : Nat, elapsed : Nat]
  <2>1. Inputs \in Seq(S)
    BY FileStoreAssumption
  <2> HIDE DEF S
  <2>2. Inputs[n] \in S
    BY <1>1, <2>1
  <2> QED BY <2>2 DEF S
<1>3. Outcome(n) \in Recorded
  BY <1>1, <1>2 DEF Outcome, Recorded
<1> QED BY <1>3 DEF n

(* The statistics a commit starts from are well formed. *)
LEMMA StatsOfTypes ==
  ASSUME StatsTypes, NEW c \in Chains
  PROVE  StatsOf(c) \in Statistics
BY FreshTypes DEF StatsTypes, StatsOf

(* Where a chain gets statistics, the cap on chains holds (commit: it      *)
(* rejects a new chain beyond _MAX_CHAINS).                                *)
LEMMA KnownGrows ==
  ASSUME StatsTypes, NEW c \in Chains, HasRoom(c), NEW s \in Statistics,
         stats' = [stats EXCEPT ![c] = s]
  PROVE  /\ Known(stats)' = Known(stats) \cup {c}
         /\ IsFiniteSet(Known(stats)') /\ Cardinality(Known(stats)') <= MaxChains
<1> DEFINE K == Known(stats)
<1>1. IsFiniteSet(K) /\ Cardinality(K) <= MaxChains /\ Cardinality(K) \in Nat
  BY FS_CardinalityType DEF StatsTypes
<1>2. Known(stats)' = K \cup {c}
  BY StatisticsNotEmpty DEF StatsTypes, Known
<1>3. IsFiniteSet(K \cup {c})
  BY <1>1, FS_AddElement
<1>4. Cardinality(K \cup {c}) = IF c \in K THEN Cardinality(K) ELSE Cardinality(K) + 1
  BY <1>1, FS_AddElement
<1>5. c \in K \/ Cardinality(K) < MaxChains
  BY DEF HasRoom, Known
<1> HIDE DEF K
<1>6. Cardinality(K \cup {c}) <= MaxChains
  BY <1>1, <1>4, <1>5, FileStoreAssumption
<1> QED BY <1>2, <1>3, <1>6, Zenon DEF K

(* What a commit changes: one line, one more outcome in the statistics, and *)
(* perhaps a copy of them to be written.                                   *)
LEMMA CommitEffect ==
  ASSUME StoreTypes, NEW t \in Writers, NEW c \in Chains, Commit(t, c)
  PROVE  \E o \in Recorded, new \in Statistics :
           LET kept == [new EXCEPT !.sinceRotate = new.sinceRotate + 1] IN
           /\ new = CountOutcome(StatsOf(c), o, context)
           /\ kept \in Statistics
           /\ active' = [active EXCEPT ![c] = AppendedLine(active[c], o)]
           /\ stats' = [stats EXCEPT ![c] = kept]
           /\ counted' = [counted EXCEPT ![c] = Append(counted[c], o)]
           /\ log' = [log EXCEPT ![c] = Append(log[c], o)]
           /\ \/ /\ FlushDue(new)
                 /\ flushing' = [flushing EXCEPT ![t] = <<<<c, new, counted'[c]>>>>]
              \/ ~FlushDue(new) /\ flushing' = flushing
           /\ \/ RotationDue(kept.sinceRotate) /\ rotation' = <<t, c>>
              \/ rotation' = <<>>
<1>1. attempts \in Nat /\ attempts < MaxCommits
  BY DEF Commit, StoreTypes, HistoryTypes
<1>2. Outcome(attempts + 1) \in Recorded
  BY <1>1, OutcomeTypes
<1>3. context \in Contexts \cup {<<>>} /\ StatsOf(c) \in Statistics
  BY StatsOfTypes DEF StoreTypes, LockTypes
<1> DEFINE o == Outcome(attempts + 1)
           new == CountOutcome(StatsOf(c), o, context)
           kept == [new EXCEPT !.sinceRotate = new.sinceRotate + 1]
<1>4. o \in Recorded /\ new \in Statistics
  BY <1>2, <1>3, CountTypes
<1>5. kept \in Statistics /\ kept.sinceRotate = new.sinceRotate + 1
  <2> HIDE DEF o, new
  <2> QED BY <1>4 DEF Statistics, Fields
<1>6. /\ active' = [active EXCEPT ![c] = AppendedLine(active[c], o)]
      /\ stats' = [stats EXCEPT ![c] = kept]
      /\ counted' = [counted EXCEPT ![c] = Append(counted[c], o)]
      /\ log' = [log EXCEPT ![c] = Append(log[c], o)]
      /\ flushing' = IF FlushDue(new)
                     THEN [flushing EXCEPT ![t] = <<<<c, new, counted'[c]>>>>]
                     ELSE flushing
      /\ rotation' = IF RotationDue(new.sinceRotate + 1) THEN <<t, c>> ELSE <<>>
  BY Zenon DEF Commit
<1>7. new = CountOutcome(StatsOf(c), o, context)
  OBVIOUS
<1> HIDE DEF o, new
<1>8. /\ \/ /\ FlushDue(new)
            /\ flushing' = [flushing EXCEPT ![t] = <<<<c, new, counted'[c]>>>>]
         \/ ~FlushDue(new) /\ flushing' = flushing
      /\ \/ RotationDue(kept.sinceRotate) /\ rotation' = <<t, c>>
         \/ rotation' = <<>>
  BY <1>5, <1>6, Zenon
<1> QED BY <1>4, <1>5, <1>6, <1>7, <1>8, Zenon

(* Types survive a commit. *)
LEMMA CommitTypes ==
  ASSUME StoreTypes, NEW t \in Writers, NEW c \in Chains, Commit(t, c)
  PROVE  StoreTypes'
<1>1. PICK o \in Recorded, new \in Statistics :
           LET kept == [new EXCEPT !.sinceRotate = new.sinceRotate + 1] IN
           /\ new = CountOutcome(StatsOf(c), o, context)
           /\ kept \in Statistics
           /\ active' = [active EXCEPT ![c] = AppendedLine(active[c], o)]
           /\ stats' = [stats EXCEPT ![c] = kept]
           /\ counted' = [counted EXCEPT ![c] = Append(counted[c], o)]
           /\ log' = [log EXCEPT ![c] = Append(log[c], o)]
           /\ \/ /\ FlushDue(new)
                 /\ flushing' = [flushing EXCEPT ![t] = <<<<c, new, counted'[c]>>>>]
              \/ ~FlushDue(new) /\ flushing' = flushing
           /\ \/ RotationDue(kept.sinceRotate) /\ rotation' = <<t, c>>
              \/ rotation' = <<>>
  BY CommitEffect
<1> DEFINE kept == [new EXCEPT !.sinceRotate = new.sinceRotate + 1]
<1>2. /\ kept \in Statistics
      /\ active' = [active EXCEPT ![c] = AppendedLine(active[c], o)]
      /\ stats' = [stats EXCEPT ![c] = kept]
      /\ counted' = [counted EXCEPT ![c] = Append(counted[c], o)]
      /\ log' = [log EXCEPT ![c] = Append(log[c], o)]
      /\ \/ flushing' = [flushing EXCEPT ![t] = <<<<c, new, counted'[c]>>>>]
         \/ flushing' = flushing
      /\ rotation' \in {<<>>, <<t, c>>}
  BY <1>1
<1> HIDE DEF kept
<1>3. /\ HasRoom(c) /\ context' = <<>> /\ attempts' = attempts + 1
      /\ UNCHANGED <<rotated, statsFile, faults, crashes, saved, flushed>>
  BY DEF Commit
<1>4. FileTypes'
  <2>1. o \in Line
    BY DEF Line
  <2>2. active[c] \in Seq(Line) /\ TornAtEnd(active[c])
    BY DEF StoreTypes, FileTypes
  <2>3. AppendedLine(active[c], o) \in Seq(Line) /\ TornAtEnd(AppendedLine(active[c], o))
    BY <2>1, <2>2, AppendedLineTypes
  <2> QED BY <1>2, <1>3, <2>3 DEF StoreTypes, FileTypes
<1>5. /\ Known(stats)' = Known(stats) \cup {c}
      /\ IsFiniteSet(Known(stats)') /\ Cardinality(Known(stats)') <= MaxChains
  BY <1>2, <1>3, KnownGrows DEF StoreTypes
<1>6. StatsTypes'
  <2>1. stats' \in [Chains -> Statistics \cup {<<>>}]
    BY <1>2 DEF StoreTypes, StatsTypes
  <2>2. Known(statsFile)' = Known(statsFile)
    BY <1>3 DEF Known
  <2> QED BY <1>3, <1>5, <2>1, <2>2 DEF StoreTypes, StatsTypes
<1>7. LockTypes'
  <2>1. rotation' \in (Writers \X Chains) \cup {<<>>} /\ context' = <<>>
    BY <1>2, <1>3
  <2>2. ASSUME NEW u \in Writers, NEW d \in Chains, rotation' = <<u, d>>
        PROVE  d = c
    BY <1>2, <2>2
  <2> QED BY <1>5, <2>1, <2>2 DEF LockTypes
<1>8. HistoryTypes'
  BY <1>2, <1>3 DEF StoreTypes, HistoryTypes
<1>9. CopyTypes'
  <2>1. CASE flushing' = flushing
    BY <1>5, <2>1 DEF StoreTypes, CopyTypes
  <2>2. CASE flushing' = [flushing EXCEPT ![t] = <<<<c, new, counted'[c]>>>>]
    <3>1. <<c, new, counted'[c]>> \in Copies
      BY <1>8 DEF HistoryTypes, Copies
    <3> DEFINE copy == <<c, new, counted'[c]>>
    <3>2. copy \in Copies /\ copy[1] = c
      BY <3>1
    <3> HIDE DEF copy
    <3>3. flushing' = [flushing EXCEPT ![t] = <<copy>>]
      BY <2>2 DEF copy
    <3> QED BY <1>5, <3>2, <3>3 DEF StoreTypes, CopyTypes
  <2> QED BY <1>2, <2>1, <2>2
<1> QED BY <1>4, <1>6, <1>7, <1>8, <1>9 DEF StoreTypes

(* Types survive a line that cannot be written, or only in part. *)
LEMMA AppendFailsTypes ==
  ASSUME StoreTypes, NEW t \in Writers, NEW c \in Chains, AppendFails(t, c)
  PROVE  StoreTypes'
<1>1. /\ active' = active \/ active' = [active EXCEPT ![c] = AppendedLine(active[c], Torn)]
      /\ attempts' = attempts + 1 /\ faults' = faults + 1
      /\ UNCHANGED <<rotated, statsFile, stats, context, rotation, flushing, crashes,
                     counted, saved, log, flushed>>
  BY DEF AppendFails, history
<1>2. FileTypes'
  <2>1. Torn \in Line /\ active[c] \in Seq(Line) /\ TornAtEnd(active[c])
    BY DEF Line, StoreTypes, FileTypes
  <2>2. /\ AppendedLine(active[c], Torn) \in Seq(Line)
        /\ TornAtEnd(AppendedLine(active[c], Torn))
    BY <2>1, AppendedLineTypes
  <2> QED BY <1>1, <2>2 DEF StoreTypes, FileTypes
<1>3. StatsTypes' /\ LockTypes' /\ CopyTypes'
  BY <1>1 DEF StoreTypes, StatsTypes, LockTypes, CopyTypes, Known
<1>4. HistoryTypes'
  BY <1>1 DEF StoreTypes, HistoryTypes
<1> QED BY <1>2, <1>3, <1>4 DEF StoreTypes

(* Types survive the two steps of a rotation, and its failure. *)
LEMMA RotateTypes ==
  ASSUME StoreTypes, NEW t \in Writers, NEW c \in Chains,
         Unlink(t, c) \/ Rename(t, c) \/ RotationFails(t, c)
  PROVE  StoreTypes'
<1>0. c \in Known(stats) => stats[c] \in Statistics
  BY DEF Known, StoreTypes, StatsTypes
<1>1. CASE Unlink(t, c)
  <2>1. /\ rotated' = [rotated EXCEPT ![c] = <<>>]
        /\ UNCHANGED <<active, statsFile, stats, context, rotation, flushing,
                       attempts, faults, crashes, counted, saved, log, flushed>>
    BY <1>1 DEF Unlink, bounds, history
  <2>2. FileTypes'
    BY <2>1 DEF StoreTypes, FileTypes, TornAtEnd
  <2>3. StatsTypes' /\ LockTypes' /\ CopyTypes' /\ HistoryTypes'
    BY <2>1 DEF StoreTypes, StatsTypes, LockTypes, CopyTypes, HistoryTypes, Known
  <2> QED BY <2>2, <2>3 DEF StoreTypes
<1>2. CASE Rename(t, c)
  <2>1. /\ rotated' = [rotated EXCEPT ![c] = active[c]]
        /\ active' = [active EXCEPT ![c] = <<>>]
        /\ stats' = [stats EXCEPT ![c] = [stats[c] EXCEPT !.sinceRotate = 0]]
        /\ rotation = <<t, c>> /\ rotation' = <<>>
        /\ UNCHANGED <<statsFile, context, flushing,
                       attempts, faults, crashes, counted, saved, log, flushed>>
    BY <1>2 DEF Rename, bounds, history
  <2>2. FileTypes'
    BY <2>1 DEF StoreTypes, FileTypes, TornAtEnd
  <2>3. c \in Known(stats) /\ stats[c] \in Statistics
    BY <1>0, <2>1 DEF StoreTypes, LockTypes
  <2>4. [stats[c] EXCEPT !.sinceRotate = 0] \in Statistics
    BY <2>3 DEF Statistics, Fields
  <2>5. /\ stats' \in [Chains -> Statistics \cup {<<>>}]
        /\ Known(stats)' = Known(stats)
    BY <2>1, <2>3, <2>4, StatisticsNotEmpty DEF StoreTypes, StatsTypes, Known
  <2>6. Known(statsFile)' = Known(statsFile)
    BY <2>1 DEF Known
  <2>7. StatsTypes' /\ CopyTypes' /\ HistoryTypes'
    BY <2>1, <2>5, <2>6 DEF StoreTypes, StatsTypes, CopyTypes, HistoryTypes
  <2>8. LockTypes'
    BY <2>1 DEF StoreTypes, LockTypes
  <2> QED BY <2>2, <2>7, <2>8 DEF StoreTypes
<1>3. CASE RotationFails(t, c)
  <2>1. /\ rotation' = <<>> /\ faults' = faults + 1
        /\ UNCHANGED <<active, rotated, statsFile, stats, context, flushing,
                       attempts, crashes, counted, saved, log, flushed>>
    BY <1>3 DEF RotationFails, history
  <2>2. FileTypes' /\ StatsTypes' /\ CopyTypes' /\ HistoryTypes'
    BY <2>1 DEF StoreTypes, FileTypes, StatsTypes, CopyTypes, HistoryTypes, Known
  <2>3. LockTypes'
    BY <2>1 DEF StoreTypes, LockTypes
  <2> QED BY <2>2, <2>3 DEF StoreTypes
<1> QED BY <1>1, <1>2, <1>3

(* A finite set is listed without repetition (close: list(items())).       *)
LEMMA ListTypes ==
  ASSUME NEW K, IsFiniteSet(K)
  PROVE  SetToSeq(K) \in Seq(K)
<1> DEFINE n == Cardinality(K)
<1>1. n \in Nat /\ ExistsBijection(1..n, K)
  BY FS_CardinalityType
<1> HIDE DEF n
<1>2. \E f \in [1..n -> K] : IsInjective(f)
  BY <1>1, Zenon DEF ExistsBijection, Bijection, Injection
<1>3. (CHOOSE f \in [1..n -> K] : IsInjective(f)) \in [1..n -> K]
  BY <1>2
<1>4. SetToSeq(K) \in [1..n -> K]
  BY <1>3 DEF SetToSeq, n
<1> QED BY <1>1, <1>4

(* Types survive the copies that close takes. *)
LEMMA CloseTypes ==
  ASSUME StoreTypes, NEW t \in Writers, Close(t)
  PROVE  StoreTypes'
<1> DEFINE held == SetToSeq(Known(stats))
           copies == [i \in DOMAIN held |-> <<held[i], stats[held[i]], counted[held[i]]>>]
<1>1. /\ flushing' = [flushing EXCEPT ![t] = copies]
      /\ UNCHANGED <<active, rotated, statsFile, stats, context, rotation,
                     attempts, faults, crashes, counted, saved, log, flushed>>
  BY Zenon DEF Close, Known, bounds, history
<1>2. held \in Seq(Known(stats))
  BY ListTypes DEF StoreTypes, StatsTypes
<1> HIDE DEF held
<1>3. Len(held) \in Nat /\ DOMAIN held = 1..Len(held)
  BY <1>2
<1>4. ASSUME NEW i \in 1..Len(held)
      PROVE  copies[i] \in Copies /\ copies[i][1] \in Known(stats)
  <2>1. held[i] \in Known(stats)
    BY <1>2, <1>4
  <2>2. held[i] \in Chains /\ stats[held[i]] \in Statistics
        /\ counted[held[i]] \in Seq(Recorded)
    BY <2>1 DEF Known, StoreTypes, StatsTypes, HistoryTypes
  <2>3. copies[i] = <<held[i], stats[held[i]], counted[held[i]]>>
    BY <1>3
  <2> QED BY <2>1, <2>2, <2>3 DEF Copies
<1>5. copies \in [1..Len(held) -> Copies]
  BY <1>3, <1>4
<1> HIDE DEF copies
<1>6. copies \in Seq(Copies) /\ Len(copies) = Len(held)
  BY <1>3, <1>5
<1>7. CopyTypes'
  <2>1. flushing' \in [Writers -> Seq(Copies)]
    BY <1>1, <1>6 DEF StoreTypes, CopyTypes
  <2>2. ASSUME NEW u \in Writers, NEW i \in 1..Len(flushing'[u])
        PROVE  flushing'[u][i][1] \in Known(stats)
    <3>1. CASE u = t
      BY <1>1, <1>4, <1>6, <2>2, <3>1 DEF StoreTypes, CopyTypes
    <3>2. CASE u # t
      BY <1>1, <2>2, <3>2 DEF StoreTypes, CopyTypes
    <3> QED BY <3>1, <3>2
  <2> QED BY <1>1, <2>1, <2>2 DEF CopyTypes, Known
<1>8. FileTypes' /\ StatsTypes' /\ LockTypes' /\ HistoryTypes'
  BY <1>1 DEF StoreTypes, FileTypes, StatsTypes, LockTypes, HistoryTypes, Known
<1> QED BY <1>7, <1>8 DEF StoreTypes

(* The first of the copies a thread has to write. *)
LEMMA HeadTypes ==
  ASSUME StoreTypes, NEW t \in Writers, flushing[t] # <<>>
  PROVE  LET copy == Head(flushing[t]) IN
         /\ copy[1] \in Known(stats) /\ copy[1] \in Chains
         /\ copy[2] \in Statistics /\ copy[3] \in Seq(Recorded)
         /\ copy = flushing[t][1] /\ Len(flushing[t]) \in Nat \ {0}
         /\ Tail(flushing[t]) \in Seq(Copies)
         /\ Len(Tail(flushing[t])) = Len(flushing[t]) - 1
         /\ \A i \in 1..Len(flushing[t]) - 1 : Tail(flushing[t])[i] = flushing[t][i + 1]
<1> DEFINE q == flushing[t]
<1>1. q \in Seq(Copies) /\ q # <<>> /\ \A i \in 1..Len(q) : q[i][1] \in Known(stats)
  BY DEF StoreTypes, CopyTypes
<1> HIDE DEF q
<1>2. Len(q) \in Nat \ {0} /\ Head(q) = q[1] /\ q[1] \in Copies
  BY <1>1
<1>3. q[1][1] \in Known(stats)
  BY <1>1, <1>2
<1>4. q[1][1] \in Chains /\ q[1][2] \in Statistics /\ q[1][3] \in Seq(Recorded)
  BY <1>2 DEF Copies
<1>5. /\ Tail(q) \in Seq(Copies) /\ Len(Tail(q)) = Len(q) - 1
      /\ \A i \in 1..Len(q) - 1 : Tail(q)[i] = q[i + 1]
  BY <1>1, <1>2
<1> QED BY <1>2, <1>3, <1>4, <1>5 DEF q

(* Types survive a copy that is written, or not. *)
LEMMA WriteStatsTypes ==
  ASSUME StoreTypes, NEW t \in Writers, WriteStats(t)
  PROVE  StoreTypes'
<1> DEFINE copy == Head(flushing[t])
           c == copy[1]
           rest == Tail(flushing[t])
<1>1. /\ c \in Known(stats) /\ c \in Chains
      /\ copy[2] \in Statistics /\ copy[3] \in Seq(Recorded)
      /\ Len(flushing[t]) \in Nat \ {0}
      /\ rest \in Seq(Copies) /\ Len(rest) = Len(flushing[t]) - 1
      /\ \A i \in 1..Len(flushing[t]) - 1 : rest[i] = flushing[t][i + 1]
  BY HeadTypes, Zenon DEF WriteStats
<1>2. /\ \/ /\ statsFile' = [statsFile EXCEPT ![c] = copy[2]]
            /\ saved' = [saved EXCEPT ![c] = copy[3]]
            /\ flushed' = [flushed EXCEPT ![c] = IF Len(copy[3]) > flushed[c]
                                                 THEN Len(copy[3]) ELSE flushed[c]]
            /\ UNCHANGED faults
         \/ /\ \/ UNCHANGED <<statsFile, saved>>
               \/ /\ statsFile' = [statsFile EXCEPT ![c] = <<>>]
                  /\ saved' = [saved EXCEPT ![c] = <<>>]
            /\ faults' = faults + 1
            /\ UNCHANGED flushed
      /\ flushing' = [flushing EXCEPT ![t] = rest]
      /\ UNCHANGED <<active, rotated, stats, context, rotation,
                     attempts, crashes, counted, log>>
  BY Zenon DEF WriteStats
<1> HIDE DEF copy, c, rest
<1>3. FileTypes' /\ LockTypes'
  BY <1>2 DEF StoreTypes, FileTypes, LockTypes, Known
<1>4. HistoryTypes'
  <2>1. Len(copy[3]) \in Nat
    BY <1>1
  <2>2. /\ saved \in [Chains -> Seq(Recorded)] /\ flushed \in [Chains -> Nat]
        /\ faults \in Nat
    BY DEF StoreTypes, HistoryTypes
  <2>3. saved' \in [Chains -> Seq(Recorded)]
    <3>1. ASSUME NEW of \in Seq(Recorded), saved' = [saved EXCEPT ![c] = of]
          PROVE  saved' \in [Chains -> Seq(Recorded)]
      BY <2>2, <3>1
    <3>2. <<>> \in Seq(Recorded)
      OBVIOUS
    <3>3. \/ saved' = saved
          \/ \E of \in Seq(Recorded) : saved' = [saved EXCEPT ![c] = of]
      BY <1>1, <1>2, <3>2, Zenon
    <3> QED BY <2>2, <3>1, <3>3
  <2>4. (IF Len(copy[3]) > flushed[c] THEN Len(copy[3]) ELSE flushed[c]) \in Nat
    BY <1>1, <2>1, <2>2
  <2>5. flushed' \in [Chains -> Nat] /\ faults' \in Nat
    BY <1>2, <2>2, <2>4
  <2> QED BY <1>2, <2>3, <2>5 DEF StoreTypes, HistoryTypes
<1>5. StatsTypes'
  <2>1. statsFile' \in [Chains -> Statistics \cup {<<>>}]
    BY <1>1, <1>2 DEF StoreTypes, StatsTypes
  <2>2. Known(statsFile)' \subseteq Known(stats)
    BY <1>1, <1>2 DEF StoreTypes, StatsTypes, Known
  <2>3. Known(stats)' = Known(stats)
    BY <1>2 DEF Known
  <2> QED BY <1>2, <2>1, <2>2, <2>3 DEF StoreTypes, StatsTypes
<1>6. CopyTypes'
  <2>1. flushing' \in [Writers -> Seq(Copies)]
    BY <1>1, <1>2 DEF StoreTypes, CopyTypes
  <2>2. ASSUME NEW u \in Writers, NEW i \in 1..Len(flushing'[u])
        PROVE  flushing'[u][i][1] \in Known(stats)
    <3>1. CASE u = t
      <4>1. flushing'[u] = rest
        BY <1>2, <3>1 DEF StoreTypes, CopyTypes
      <4>2. i \in 1..Len(flushing[t]) - 1 /\ i + 1 \in 1..Len(flushing[t])
        BY <1>1, <2>2, <4>1
      <4> QED BY <1>1, <4>1, <4>2 DEF StoreTypes, CopyTypes
    <3>2. CASE u # t
      BY <1>2, <2>2, <3>2 DEF StoreTypes, CopyTypes
    <3> QED BY <3>1, <3>2
  <2>3. Known(stats)' = Known(stats)
    BY <1>2 DEF Known
  <2> QED BY <2>1, <2>2, <2>3 DEF CopyTypes
<1> QED BY <1>3, <1>4, <1>5, <1>6 DEF StoreTypes

(* Types survive the end of the process: what is loaded was in the files.  *)
LEMMA RestartTypes ==
  ASSUME StoreTypes, Restart
  PROVE  StoreTypes'
<1>1. PICK emptied : /\ statsFile' = [c \in Chains |-> IF c \in emptied THEN <<>> ELSE statsFile[c]]
                     /\ stats' = [c \in Chains |-> IF c \in emptied THEN <<>> ELSE statsFile[c]]
                     /\ saved' = [c \in Chains |-> IF c \in emptied THEN <<>> ELSE saved[c]]
                     /\ counted' = [c \in Chains |-> IF c \in emptied THEN <<>> ELSE saved[c]]
  BY Zenon DEF Restart
<1>2. /\ context' = <<>> /\ rotation' = <<>> /\ flushing' = [t \in Writers |-> <<>>]
      /\ crashes' = crashes + 1 /\ flushed' = [c \in Chains |-> Len(saved'[c])]
      /\ UNCHANGED <<active, rotated, attempts, faults, log>>
  BY DEF Restart
<1>3. FileTypes' /\ LockTypes'
  BY <1>2 DEF StoreTypes, FileTypes, LockTypes
<1>4. CopyTypes'
  BY <1>2 DEF CopyTypes
<1>5. HistoryTypes'
  <2>1. saved' \in [Chains -> Seq(Recorded)] /\ counted' \in [Chains -> Seq(Recorded)]
    BY <1>1 DEF StoreTypes, HistoryTypes
  <2>2. flushed' \in [Chains -> Nat]
    BY <1>2, <2>1
  <2> QED BY <1>2, <2>1, <2>2 DEF StoreTypes, HistoryTypes
<1>6. StatsTypes'
  <2>1. /\ stats' \in [Chains -> Statistics \cup {<<>>}]
        /\ statsFile' \in [Chains -> Statistics \cup {<<>>}] /\ stats' = statsFile'
    BY <1>1 DEF StoreTypes, StatsTypes
  <2>2. Known(stats)' \subseteq Known(stats) /\ Known(statsFile)' = Known(stats)'
    BY <1>1, <2>1 DEF StoreTypes, StatsTypes, Known
  <2> DEFINE K == Known(stats)
             L == Known(stats)'
  <2>3. IsFiniteSet(K) /\ Cardinality(K) <= MaxChains /\ L \subseteq K
    BY <2>2 DEF StoreTypes, StatsTypes
  <2> HIDE DEF K, L
  <2>4. IsFiniteSet(L) /\ Cardinality(L) <= Cardinality(K)
    BY <2>3, FS_Subset
  <2>5. Cardinality(K) \in Nat /\ Cardinality(L) \in Nat
    BY <2>3, <2>4, FS_CardinalityType
  <2>6. IsFiniteSet(L) /\ Cardinality(L) <= MaxChains
    BY <2>3, <2>4, <2>5, FileStoreAssumption
  <2> QED BY <2>1, <2>2, <2>6 DEF StatsTypes, L
<1> QED BY <1>3, <1>4, <1>5, <1>6 DEF StoreTypes

(* Types survive every step of the store. *)
LEMMA NextTypes == StoreTypes /\ [Next]_vars => StoreTypes'
<1> SUFFICES ASSUME StoreTypes, [Next]_vars PROVE StoreTypes'
  OBVIOUS
<1> DEFINE Quiet == UNCHANGED <<active, rotated, statsFile, stats, rotation, flushing,
                                bounds, history>>
<1>1. ASSUME Quiet, context' \in Contexts \cup {<<>>} PROVE StoreTypes'
  <2>1. FileTypes' /\ StatsTypes' /\ CopyTypes'
    BY <1>1 DEF StoreTypes, FileTypes, StatsTypes, CopyTypes, Known
  <2>2. LockTypes' /\ HistoryTypes'
    BY <1>1 DEF StoreTypes, LockTypes, HistoryTypes, Known, bounds, history
  <2> QED BY <2>1, <2>2 DEF StoreTypes
<1>2. CASE UNCHANGED vars
  <2>1. Quiet /\ context' = context
    BY <1>2 DEF vars
  <2> QED BY <1>1, <2>1 DEF StoreTypes, LockTypes
<1>3. CASE SetBudgetContext
  BY <1>1, <1>3 DEF SetBudgetContext
<1>4. ASSUME NEW t \in Readers,
             \/ \E c \in Chains, limit \in Limits : BeginRead(t, c, limit)
             \/ ReadActive(t) \/ ReadRotated(t) \/ EndRead(t)
      PROVE  StoreTypes'
  <2>1. Quiet /\ context' = context
    BY <1>4 DEF BeginRead, ReadActive, ReadRotated, EndRead
  <2> QED BY <1>1, <2>1 DEF StoreTypes, LockTypes
<1>5. ASSUME NEW t \in Writers, NEW c \in Chains,
             \/ Commit(t, c) \/ AppendFails(t, c)
             \/ Unlink(t, c) \/ Rename(t, c) \/ RotationFails(t, c)
      PROVE  StoreTypes'
  BY <1>5, CommitTypes, AppendFailsTypes, RotateTypes
<1>6. ASSUME NEW t \in Writers, Close(t) \/ WriteStats(t)
      PROVE  StoreTypes'
  BY <1>6, CloseTypes, WriteStatsTypes
<1> QED BY <1>2, <1>3, <1>4, <1>5, <1>6, RestartTypes DEF Next

(* A new store holds nothing. *)
LEMMA InitTypes == Init => StoreTypes
<1> SUFFICES ASSUME Init PROVE StoreTypes
  OBVIOUS
<1>1. FileTypes /\ LockTypes /\ CopyTypes /\ HistoryTypes
  BY DEF Init, FileTypes, TornAtEnd, LockTypes, CopyTypes, HistoryTypes
<1>2. Known(stats) = {} /\ Known(statsFile) = {}
  BY DEF Init, Known
<1>3. IsFiniteSet({}) /\ Cardinality({}) = 0
  BY FS_EmptySet
<1>4. StatsTypes
  <2>1. /\ stats \in [Chains -> Statistics \cup {<<>>}]
        /\ statsFile \in [Chains -> Statistics \cup {<<>>}]
    BY DEF Init
  <2>2. 0 <= MaxChains
    BY FileStoreAssumption
  <2>3. IsFiniteSet(Known(stats)) /\ Cardinality(Known(stats)) <= MaxChains
    BY <1>2, <1>3, <2>2, Zenon
  <2> QED BY <1>2, <2>1, <2>3, Zenon DEF StatsTypes
<1> QED BY <1>1, <1>4 DEF StoreTypes

(* Lines, statistics, the lock and the caps on models and chains keep      *)
(* their types and bounds, whatever fails and whenever the process ends:   *)
(* only the last line of a file is torn, and at most MaxChains chains have *)
(* statistics (commit, _rotate, close, _load_existing_stats).              *)
THEOREM StoreTypeCorrect == Spec => []TypeOK
<1>1. StoreTypes => TypeOK
  <2> SUFFICES ASSUME StoreTypes PROVE TypeOK
    OBVIOUS
  <2>1. ASSUME NEW s \in Statistics PROVE IsStatistics(s)
    BY DEF IsStatistics, Statistics, Fields
  <2>2. ASSUME NEW f \in Seq(Line), TornAtEnd(f), NEW i \in DOMAIN f
        PROVE  f[i] \in Recorded \/ f[i] = Corrupt \/ (f[i] = Torn /\ i = Len(f))
    BY <2>2 DEF TornAtEnd, Line
  <2>3. ASSUME NEW c \in Chains
        PROVE  /\ \A f \in {active[c], rotated[c]} : \A i \in DOMAIN f :
                     f[i] \in Recorded \/ f[i] = Corrupt \/ (f[i] = Torn /\ i = Len(f))
               /\ \A s \in {stats[c], statsFile[c]} : s = <<>> \/ IsStatistics(s)
    <3>1. /\ active[c] \in Seq(Line) /\ rotated[c] \in Seq(Line)
          /\ TornAtEnd(active[c]) /\ TornAtEnd(rotated[c])
      BY DEF StoreTypes, FileTypes
    <3>2. \A s \in {stats[c], statsFile[c]} : s = <<>> \/ s \in Statistics
      BY DEF StoreTypes, StatsTypes
    <3> QED BY <2>1, <2>2, <3>1, <3>2
  <2>4. Cardinality({c \in Chains : stats[c] # <<>>}) <= MaxChains
    BY DEF StoreTypes, StatsTypes, Known
  <2>5. context \in Contexts \cup {<<>>} /\ rotation \in (Writers \X Chains) \cup {<<>>}
    BY DEF StoreTypes, LockTypes
  <2> QED BY <2>3, <2>4, <2>5, Zenon DEF TypeOK
<1> QED BY <1>1, InitTypes, NextTypes, PTL DEF Spec

-----------------------------------------------------------------------------
(* The last max_lines lines of a chain are in its two files. *)

(* What one more outcome does to the counts (_update_stats).               *)
LEMMA CountFields ==
  ASSUME NEW s \in Statistics, NEW o \in Recorded, NEW budget \in Contexts \cup {<<>>}
  PROVE  LET new == CountOutcome(s, o, budget) IN
         /\ new.total = s.total + 1 /\ new.sinceRotate = s.sinceRotate
         /\ new.success = SuccessAfter(s, o) /\ new.failure = FailureAfter(s, o)
         /\ new.costEma = Ema(s.costEma, o.cost)
         /\ new.costByModel = IF Tracks(s, o.model)
                              THEN Averaged(s.costByModel, o.model, o.cost)
                              ELSE s.costByModel
<1>1. s \in Fields
  BY DEF Statistics
<1> QED BY <1>1 DEF Fields, CountOutcome

Least(a, b) == IF a < b THEN a ELSE b

\* As long as the process runs, the lines since the last rotation are in the
\* active file, enough lines are in both, and a rotation moves enough.
KeptOf(c) ==
  /\ StatsOf(c).sinceRotate <= Full(active[c])
  /\ Full(active[c]) + Len(rotated[c]) >= Least(Len(log[c]), MaxLines)
  /\ \A t \in Writers : rotation = <<t, c>> => StatsOf(c).sinceRotate >= MaxLines
KeptInv == crashes = 0 => \A c \in Chains : KeptOf(c)

(* Sizes of the files of a chain. *)
LEMMA Sizes ==
  ASSUME StoreTypes, NEW c \in Chains
  PROVE  /\ Full(active[c]) \in Nat /\ Full(active[c]) <= Len(active[c])
         /\ Len(active[c]) \in Nat /\ Len(rotated[c]) \in Nat /\ Len(log[c]) \in Nat
         /\ StatsOf(c).sinceRotate \in Nat /\ StatsOf(c).total \in Nat
<1>1. active[c] \in Seq(Line) /\ rotated[c] \in Seq(Line) /\ log[c] \in Seq(Recorded)
  BY DEF StoreTypes, FileTypes, HistoryTypes
<1>2. Full(active[c]) \in Nat /\ Full(active[c]) <= Len(active[c])
  <2>1. CASE active[c] = <<>>
    BY <1>1, <2>1 DEF Full
  <2>2. CASE active[c] # <<>>
    <3>1. Len(active[c]) \in Nat \ {0}
      BY <1>1, <2>2
    <3> QED BY <3>1 DEF Full
  <2> QED BY <2>1, <2>2
<1>3. StatsOf(c) \in Statistics
  BY StatsOfTypes DEF StoreTypes
<1> QED BY <1>1, <1>2, <1>3 DEF Statistics, Fields

(* A commit adds a complete line, if only by completing a torn one.        *)
LEMMA CommitKept ==
  ASSUME StoreTypes, KeptInv, NEW t \in Writers, NEW c \in Chains, Commit(t, c)
  PROVE  KeptInv'
<1> SUFFICES ASSUME crashes = 0, NEW d \in Chains PROVE KeptOf(d)'
  BY DEF KeptInv, Commit
<1>1. KeptOf(d)
  BY DEF KeptInv
<1>2. PICK o \in Recorded, new \in Statistics :
           LET kept == [new EXCEPT !.sinceRotate = new.sinceRotate + 1] IN
           /\ new = CountOutcome(StatsOf(c), o, context)
           /\ kept \in Statistics
           /\ active' = [active EXCEPT ![c] = AppendedLine(active[c], o)]
           /\ stats' = [stats EXCEPT ![c] = kept]
           /\ counted' = [counted EXCEPT ![c] = Append(counted[c], o)]
           /\ log' = [log EXCEPT ![c] = Append(log[c], o)]
           /\ \/ /\ FlushDue(new)
                 /\ flushing' = [flushing EXCEPT ![t] = <<<<c, new, counted'[c]>>>>]
              \/ ~FlushDue(new) /\ flushing' = flushing
           /\ \/ RotationDue(kept.sinceRotate) /\ rotation' = <<t, c>>
              \/ rotation' = <<>>
  BY CommitEffect
<1> DEFINE kept == [new EXCEPT !.sinceRotate = new.sinceRotate + 1]
<1>3. /\ kept \in Statistics
      /\ active' = [active EXCEPT ![c] = AppendedLine(active[c], o)]
      /\ stats' = [stats EXCEPT ![c] = kept]
      /\ log' = [log EXCEPT ![c] = Append(log[c], o)]
      /\ (RotationDue(kept.sinceRotate) /\ rotation' = <<t, c>>) \/ rotation' = <<>>
  BY <1>2
<1>4. context \in Contexts \cup {<<>>} /\ StatsOf(c) \in Statistics
  BY StatsOfTypes DEF StoreTypes, LockTypes
<1>5. kept.sinceRotate = StatsOf(c).sinceRotate + 1
  <2>1. new.sinceRotate = StatsOf(c).sinceRotate
    BY <1>2, <1>4, CountFields
  <2> QED BY <2>1 DEF Statistics, Fields
<1> HIDE DEF kept
<1>6. rotated' = rotated
  BY DEF Commit
<1>7. CASE d = c
  <2>1. active[c] \in Seq(Line) /\ TornAtEnd(active[c]) /\ o \in Line /\ o # Torn
    BY LinesDiffer DEF Line, StoreTypes, FileTypes
  <2>2. /\ Full(AppendedLine(active[c], o)) \in Nat
        /\ Full(AppendedLine(active[c], o)) >= Full(active[c]) + 1
    BY <2>1, AppendedLineTypes
  <2>3. active'[c] = AppendedLine(active[c], o) /\ log'[c] = Append(log[c], o)
        /\ rotated'[c] = rotated[c]
    BY <1>3, <1>6 DEF StoreTypes, FileTypes, HistoryTypes
  <2>4. Len(log'[c]) = Len(log[c]) + 1
    BY <2>3 DEF StoreTypes, HistoryTypes
  <2>5. StatsOf(c)' = kept
    BY <1>3, StatisticsNotEmpty DEF StatsOf, StoreTypes, StatsTypes
  <2>6. Full(active'[c]) >= Full(active[c]) + 1 /\ Full(active'[c]) \in Nat
    BY <2>2, <2>3
  <2>7. StatsOf(c).sinceRotate <= Full(active[c])
        /\ Full(active[c]) + Len(rotated[c]) >= Least(Len(log[c]), MaxLines)
    BY <1>1, <1>7 DEF KeptOf
  <2>8. StatsOf(c)'.sinceRotate <= Full(active'[c])
    BY <1>5, <2>5, <2>6, <2>7, Sizes
  <2>9. Full(active'[c]) + Len(rotated'[c]) >= Least(Len(log'[c]), MaxLines)
    <3>1. /\ Full(active[c]) \in Nat /\ Len(rotated[c]) \in Nat /\ Len(log[c]) \in Nat
          /\ MaxLines \in Nat
      BY Sizes, FileStoreAssumption
    <3>2. Full(active'[c]) + Len(rotated[c]) >= Least(Len(log[c]) + 1, MaxLines)
      BY <2>6, <2>7, <3>1 DEF Least
    <3> QED BY <2>3, <2>4, <3>2
  <2>10. ASSUME NEW u \in Writers, rotation' = <<u, c>>
         PROVE  StatsOf(c)'.sinceRotate >= MaxLines
    BY <1>3, <2>5, <2>10 DEF RotationDue
  <2> QED BY <1>7, <2>8, <2>9, <2>10, Zenon DEF KeptOf
<1>8. CASE d # c
  <2>1. /\ active'[d] = active[d] /\ rotated'[d] = rotated[d] /\ log'[d] = log[d]
        /\ stats'[d] = stats[d]
    BY <1>3, <1>6, <1>8 DEF StoreTypes, FileTypes, HistoryTypes, StatsTypes
  <2>2. \A u \in Writers : rotation' # <<u, d>>
    <3>1. rotation' = <<t, c>> \/ rotation' = <<>>
      BY <1>3, Zenon
    <3> QED BY <1>8, <3>1
  <2> QED BY <1>1, <2>1, <2>2 DEF KeptOf, StatsOf
<1> QED BY <1>7, <1>8

(* A line that fails takes nothing away. *)
LEMMA AppendFailsKept ==
  ASSUME StoreTypes, KeptInv, NEW t \in Writers, NEW c \in Chains, AppendFails(t, c)
  PROVE  KeptInv'
<1>1. /\ active' = active \/ active' = [active EXCEPT ![c] = AppendedLine(active[c], Torn)]
      /\ UNCHANGED <<rotated, stats, rotation, crashes, log>>
  BY DEF AppendFails, history
<1> SUFFICES ASSUME crashes = 0, NEW d \in Chains PROVE KeptOf(d)'
  BY <1>1 DEF KeptInv
<1>2. KeptOf(d)
  BY DEF KeptInv
<1>3. Full(active'[d]) \in Nat /\ Full(active'[d]) >= Full(active[d])
  <2>1. Torn \in Line /\ active[c] \in Seq(Line) /\ TornAtEnd(active[c])
    BY DEF Line, StoreTypes, FileTypes
  <2>2. /\ Full(AppendedLine(active[c], Torn)) \in Nat
        /\ Full(AppendedLine(active[c], Torn)) >= Full(active[c])
    BY <2>1, AppendedLineTypes
  <2>3. active'[d] \in {active[d], AppendedLine(active[c], Torn)}
        /\ (d # c => active'[d] = active[d])
    BY <1>1 DEF StoreTypes, FileTypes
  <2> QED BY <2>2, <2>3, Sizes
<1>4. StatsOf(d)' = StatsOf(d)
  BY <1>1 DEF StatsOf
<1>5. StatsOf(d).sinceRotate <= Full(active[d])
      /\ Full(active[d]) + Len(rotated[d]) >= Least(Len(log[d]), MaxLines)
  BY <1>2 DEF KeptOf
<1>6. StatsOf(d).sinceRotate <= Full(active'[d])
      /\ Full(active'[d]) + Len(rotated[d]) >= Least(Len(log[d]), MaxLines)
  BY <1>3, <1>5, Sizes, FileStoreAssumption DEF Least
<1> QED BY <1>1, <1>2, <1>4, <1>6 DEF KeptOf

(* While the older file is gone the active one has enough lines, and then  *)
(* becomes the older file (_rotate).                                       *)
LEMMA RotateKept ==
  ASSUME StoreTypes, KeptInv, NEW t \in Writers, NEW c \in Chains,
         Unlink(t, c) \/ Rename(t, c) \/ RotationFails(t, c)
  PROVE  KeptInv'
<1>1. /\ rotation = <<t, c>> /\ UNCHANGED <<crashes, log>>
      /\ \/ rotated' = [rotated EXCEPT ![c] = <<>>] /\ UNCHANGED <<active, stats, rotation>>
         \/ /\ rotated' = [rotated EXCEPT ![c] = active[c]]
            /\ active' = [active EXCEPT ![c] = <<>>]
            /\ stats' = [stats EXCEPT ![c] = [stats[c] EXCEPT !.sinceRotate = 0]]
            /\ rotation' = <<>>
         \/ UNCHANGED <<active, rotated, stats>> /\ rotation' = <<>>
  BY DEF Unlink, Rename, RotationFails, bounds, history
<1> SUFFICES ASSUME crashes = 0, NEW d \in Chains PROVE KeptOf(d)'
  BY <1>1 DEF KeptInv
<1>2. KeptOf(d) /\ KeptOf(c)
  BY DEF KeptInv
<1>3. Full(active[c]) >= MaxLines
  BY <1>1, <1>2, Sizes, FileStoreAssumption DEF KeptOf
<1>4. CASE d # c
  <2>1. /\ active'[d] = active[d] /\ rotated'[d] = rotated[d] /\ stats'[d] = stats[d]
    BY <1>1, <1>4 DEF StoreTypes, FileTypes, StatsTypes
  <2>2. \A u \in Writers : rotation' # <<u, d>>
    BY <1>1, <1>4
  <2> QED BY <1>1, <1>2, <2>1, <2>2 DEF KeptOf, StatsOf
<1>5. CASE d = c
  <2>1. CASE rotated' = [rotated EXCEPT ![c] = <<>>] /\ UNCHANGED <<active, stats, rotation>>
    <3>1. rotated'[c] = <<>> /\ Len(rotated'[c]) = 0
      BY <2>1 DEF StoreTypes, FileTypes
    <3>2. Full(active[c]) + 0 >= Least(Len(log[c]), MaxLines)
      BY <1>3, Sizes, FileStoreAssumption DEF Least
    <3> QED BY <1>1, <1>2, <1>5, <2>1, <3>1, <3>2 DEF KeptOf, StatsOf
  <2>2. CASE /\ rotated' = [rotated EXCEPT ![c] = active[c]]
             /\ active' = [active EXCEPT ![c] = <<>>]
             /\ stats' = [stats EXCEPT ![c] = [stats[c] EXCEPT !.sinceRotate = 0]]
             /\ rotation' = <<>>
    <3>1. rotated'[c] = active[c] /\ active'[c] = <<>>
          /\ stats'[c] = [stats[c] EXCEPT !.sinceRotate = 0]
      BY <2>2 DEF StoreTypes, FileTypes, StatsTypes
    <3>2. c \in Known(stats) /\ stats[c] \in Statistics
      BY <1>1 DEF StoreTypes, LockTypes, StatsTypes, Known
    <3>3. stats'[c] \in Statistics /\ stats'[c].sinceRotate = 0
      BY <3>1, <3>2 DEF Statistics, Fields
    <3>4. StatsOf(c)'.sinceRotate = 0
      BY <3>3, StatisticsNotEmpty DEF StatsOf
    <3>5. Full(<<>>) = 0
      BY DEF Full
    <3>6. 0 + Len(active[c]) >= Least(Len(log[c]), MaxLines)
      BY <1>3, Sizes, FileStoreAssumption DEF Least
    <3>7. \A u \in Writers : rotation' # <<u, c>>
      BY <2>2
    <3>8. /\ StatsOf(c)'.sinceRotate <= Full(active'[c])
          /\ Full(active'[c]) + Len(rotated'[c]) >= Least(Len(log'[c]), MaxLines)
      BY <1>1, <3>1, <3>4, <3>5, <3>6
    <3> QED BY <1>5, <3>7, <3>8, Zenon DEF KeptOf
  <2>3. CASE UNCHANGED <<active, rotated, stats>> /\ rotation' = <<>>
    <3>1. \A u \in Writers : rotation' # <<u, c>>
      BY <2>3
    <3> QED BY <1>1, <1>2, <1>5, <2>3, <3>1 DEF KeptOf, StatsOf
  <2> QED BY <1>1, <2>1, <2>2, <2>3
<1> QED BY <1>4, <1>5

(* Every step keeps the lines until the process ends.                      *)
LEMMA NextKept == StoreTypes /\ KeptInv /\ [Next]_vars => KeptInv'
<1> SUFFICES ASSUME StoreTypes, KeptInv, [Next]_vars PROVE KeptInv'
  OBVIOUS
<1>1. ASSUME UNCHANGED <<active, rotated, stats, rotation, crashes, log>>
      PROVE  KeptInv'
  BY <1>1 DEF KeptInv, KeptOf, StatsOf
<1>2. CASE UNCHANGED vars
  BY <1>1, <1>2 DEF vars, bounds, history
<1>3. CASE SetBudgetContext
  BY <1>1, <1>3 DEF SetBudgetContext, bounds, history
<1>4. ASSUME NEW t \in Readers,
             \/ \E c \in Chains, limit \in Limits : BeginRead(t, c, limit)
             \/ ReadActive(t) \/ ReadRotated(t) \/ EndRead(t)
      PROVE  KeptInv'
  BY <1>1, <1>4 DEF BeginRead, ReadActive, ReadRotated, EndRead, bounds, history
<1>5. ASSUME NEW t \in Writers, Close(t) \/ WriteStats(t)
      PROVE  KeptInv'
  BY <1>1, <1>5 DEF Close, WriteStats, bounds, history
<1>6. CASE Restart
  BY <1>6 DEF Restart, KeptInv, StoreTypes, HistoryTypes
<1>7. ASSUME NEW t \in Writers, NEW c \in Chains,
             \/ Commit(t, c) \/ AppendFails(t, c)
             \/ Unlink(t, c) \/ Rename(t, c) \/ RotationFails(t, c)
      PROVE  KeptInv'
  BY <1>7, CommitKept, AppendFailsKept, RotateKept
<1> QED BY <1>2, <1>3, <1>4, <1>5, <1>6, <1>7 DEF Next

(* Until the process ends, the two files of a chain hold its last          *)
(* max_lines lines, or all of them if there are fewer: also between the    *)
(* two steps of a rotation, after a rotation that failed half-way, and     *)
(* whatever lines were written in part (_rotate).                          *)
THEOREM StoreHistoryKept == Spec => []HistoryKept
<1>1. Init => KeptInv
  <2> SUFFICES ASSUME Init, NEW c \in Chains PROVE KeptOf(c)
    BY DEF KeptInv
  <2>1. StatsOf(c).sinceRotate = 0 /\ Full(active[c]) = 0
        /\ Len(log[c]) = 0 /\ Len(rotated[c]) = 0 /\ rotation = <<>>
    BY DEF Init, StatsOf, FreshStats, Full
  <2> QED BY <2>1, FileStoreAssumption DEF KeptOf, Least
<1>2. StoreTypes /\ KeptInv => HistoryKept
  <2> SUFFICES ASSUME StoreTypes, KeptInv, crashes = 0, NEW c \in Chains
               PROVE  Len(rotated[c]) + Len(active[c]) >=
                        (IF Len(log[c]) < MaxLines THEN Len(log[c]) ELSE MaxLines)
    BY DEF HistoryKept
  <2>1. Full(active[c]) + Len(rotated[c]) >= Least(Len(log[c]), MaxLines)
    BY DEF KeptInv, KeptOf
  <2>2. /\ Full(active[c]) \in Nat /\ Full(active[c]) <= Len(active[c])
        /\ Len(active[c]) \in Nat /\ Len(rotated[c]) \in Nat /\ Len(log[c]) \in Nat
        /\ MaxLines \in Nat
    BY Sizes, FileStoreAssumption
  <2> DEFINE f == Full(active[c])
             a == Len(active[c])
             r == Len(rotated[c])
             l == Len(log[c])
  <2>3. f \in Nat /\ f <= a /\ a \in Nat /\ r \in Nat /\ l \in Nat /\ MaxLines \in Nat
        /\ f + r >= Least(l, MaxLines)
    BY <2>1, <2>2
  <2> HIDE DEF f, a, r, l
  <2>4. r + a >= (IF l < MaxLines THEN l ELSE MaxLines)
    BY <2>3 DEF Least
  <2> QED BY <2>4 DEF a, r, l
<1> QED BY <1>1, <1>2, InitTypes, NextTypes, NextKept, PTL DEF Spec

-----------------------------------------------------------------------------
(* The statistics of a sequence of outcomes. *)

(* A bounded, nonempty set of natural numbers has a least and a greatest   *)
(* member (FiniteSetsExt: Min and Max are choices).                        *)
LEMMA MinMax ==
  ASSUME NEW T \in SUBSET Nat, T # {}, NEW b \in Nat, \A x \in T : x <= b
  PROVE  /\ Min(T) \in T /\ Max(T) \in T
         /\ \A x \in T : Min(T) <= x /\ x <= Max(T)
<1>1. PICK lo \in T : \A x \in T : lo <= x
  BY LeastNatural
<1>2. Min(T) \in T /\ \A x \in T : Min(T) <= x
  <2>1. \E x \in T : \A y \in T : x <= y
    BY <1>1
  <2> QED BY <2>1 DEF Min
<1>3. \E x \in T : \A y \in T : x >= y
  <2> DEFINE U == {n \in Nat : \A x \in T : x <= n}
  <2>1. U \in SUBSET Nat /\ U # {}
    OBVIOUS
  <2>2. PICK u \in U : \A n \in U : u <= n
    <3> HIDE DEF U
    <3> QED BY <2>1, LeastNatural
  <2>3. CASE u \in T
    BY <2>2, <2>3
  <2>4. CASE u \notin T
    <3>1. \A x \in T : x < u
      BY <2>2, <2>4
    <3>2. u - 1 \in Nat
      BY <2>2, <3>1
    <3>3. u - 1 \in U
      BY <2>2, <3>1, <3>2
    <3> QED BY <2>2, <3>2, <3>3
  <2> QED BY <2>3, <2>4
<1>4. Max(T) \in T /\ \A x \in T : Max(T) >= x
  BY <1>3 DEF Max
<1> QED BY <1>2, <1>4

(* A recorded outcome has a cost, a natural number. *)
LEMMA CostsNat ==
  ASSUME NEW outs \in Seq(Recorded)
  PROVE  /\ Len(outs) \in Nat /\ DOMAIN outs = 1..Len(outs)
         /\ \A i \in 1..Len(outs) : outs[i].cost \in Nat
<1>1. ASSUME NEW i \in 1..Len(outs) PROVE outs[i].cost \in Nat
  <2>1. outs[i] \in Recorded
    OBVIOUS
  <2> QED BY <2>1 DEF Recorded
<1> QED BY <1>1

(* The costs of a chain are bounded. *)
LEMMA CostsBounded ==
  ASSUME NEW outs \in Seq(Recorded)
  PROVE  \E b \in Nat : \A i \in 1..Len(outs) : outs[i].cost <= b
<1>0. \A i \in 1..Len(outs) : outs[i].cost \in Nat
  BY CostsNat
<1>1. Len(outs) \in Nat
  OBVIOUS
<1> DEFINE n == Len(outs)
           S == {m \in Nat : m <= n => \E b \in Nat : \A i \in 1..m : outs[i].cost <= b}
<1>2. 0 \in S
  OBVIOUS
<1> HIDE DEF n
<1>3. ASSUME NEW m \in S PROVE m + 1 \in S
  <2> SUFFICES ASSUME m + 1 <= n
               PROVE  \E b \in Nat : \A i \in 1..m + 1 : outs[i].cost <= b
    OBVIOUS
  <2>1. m \in Nat /\ m <= n /\ outs[m + 1].cost \in Nat
    BY <1>0, <1>1 DEF n
  <2>2. PICK b \in Nat : \A i \in 1..m : outs[i].cost <= b
    BY <2>1
  <2>3. PICK d \in Nat : d >= b /\ d >= outs[m + 1].cost
    <3>1. CASE b >= outs[m + 1].cost
      BY <3>1
    <3>2. CASE ~(b >= outs[m + 1].cost)
      BY <2>1, <3>2
    <3> QED BY <3>1, <3>2
  <2>4. ASSUME NEW i \in 1..m + 1 PROVE outs[i].cost <= d
    <3>1. CASE i = m + 1
      BY <2>3, <3>1
    <3>2. CASE i # m + 1
      <4>1. i \in 1..m /\ i \in 1..Len(outs)
        BY <2>1, <3>2, <1>1 DEF n
      <4> QED BY <1>0, <2>2, <2>3, <4>1
    <3> QED BY <3>1, <3>2
  <2> QED BY <2>4
<1>4. S = Nat
  <2> HIDE DEF S
  <2>1. S \in SUBSET Nat
    BY DEF S
  <2> QED BY <1>2, <1>3, <2>1, SetInduction
<1>5. n \in S /\ n <= n
  BY <1>1, <1>4 DEF n
<1> QED BY <1>5 DEF n

AllCosts(outs) == {outs[i].cost : i \in DOMAIN outs}
ModelCosts(outs, m) == {outs[i].cost : i \in {j \in DOMAIN outs : outs[j].model = m}}

(* The costs of a chain, and of a model in it, lie between their extremes. *)
LEMMA CostsMinMax ==
  ASSUME NEW outs \in Seq(Recorded), NEW T \in SUBSET AllCosts(outs), T # {}
  PROVE  /\ T \in SUBSET Nat /\ Min(T) \in T /\ Max(T) \in T
         /\ \A x \in T : Min(T) <= x /\ x <= Max(T)
<1>1. PICK b \in Nat : \A i \in 1..Len(outs) : outs[i].cost <= b
  BY CostsBounded
<1>2. \A x \in T : x \in Nat /\ x <= b
  BY <1>1, CostsNat DEF AllCosts
<1> QED BY <1>2, MinMax

(* A moving average stays between the bounds of what it averages: rounding *)
(* down does not take it below them (_ema).                                *)
LEMMA EmaBetween ==
  ASSUME NEW prev \in Nat, NEW current \in Nat, NEW lo \in Nat, NEW hi \in Nat,
         lo <= current, current <= hi, prev = 0 \/ (lo <= prev /\ prev <= hi)
  PROVE  Ema(prev, current) \in lo..hi
BY DEF Ema

(* What one more outcome does to the costs. *)
LEMMA CostsAfter ==
  ASSUME NEW outs \in Seq(Recorded), NEW o \in Recorded
  PROVE  LET more == Append(outs, o) IN
         /\ more \in Seq(Recorded) /\ AllCosts(more) = AllCosts(outs) \cup {o.cost}
         /\ ModelCosts(more, o.model) = ModelCosts(outs, o.model) \cup {o.cost}
         /\ \A m : m # o.model => ModelCosts(more, m) = ModelCosts(outs, m)
<1> DEFINE more == Append(outs, o)
           n == Len(outs)
<1>1. /\ more \in Seq(Recorded) /\ DOMAIN more = 1..n + 1 /\ DOMAIN outs = 1..n
      /\ n \in Nat /\ more[n + 1] = o /\ \A i \in 1..n : more[i] = outs[i]
  OBVIOUS
<1> HIDE DEF more, n
<1>2. 1..n + 1 = 1..n \cup {n + 1}
  BY <1>1
<1>3. AllCosts(more) = AllCosts(outs) \cup {o.cost}
  BY <1>1, <1>2 DEF AllCosts
<1>4. ModelCosts(more, o.model) = ModelCosts(outs, o.model) \cup {o.cost}
  BY <1>1, <1>2 DEF ModelCosts
<1>5. ASSUME NEW m, m # o.model PROVE ModelCosts(more, m) = ModelCosts(outs, m)
  BY <1>1, <1>2, <1>5 DEF ModelCosts
<1> QED BY <1>1, <1>3, <1>4, <1>5 DEF more

(* An average over costs, the next sample among more of them. *)
LEMMA EmaOfMore ==
  ASSUME NEW outs \in Seq(Recorded), NEW o \in Recorded, NEW prev \in Nat,
         NEW T \in SUBSET AllCosts(outs),
         prev = 0 \/ (T # {} /\ prev \in Min(T)..Max(T))
  PROVE  Ema(prev, o.cost) \in Min(T \cup {o.cost})..Max(T \cup {o.cost})
<1> DEFINE more == Append(outs, o)
           U == T \cup {o.cost}
<1>1. more \in Seq(Recorded) /\ U \in SUBSET AllCosts(more) /\ U # {}
  BY CostsAfter
<1> HIDE DEF more
<1>2. /\ U \in SUBSET Nat /\ Min(U) \in U /\ Max(U) \in U
      /\ \A x \in U : Min(U) <= x /\ x <= Max(U)
  <2> HIDE DEF U
  <2> QED BY <1>1, CostsMinMax
<1>3. ASSUME T # {}, prev \in Min(T)..Max(T)
      PROVE  Min(U) <= prev /\ prev <= Max(U)
  <2>1. T \in SUBSET Nat /\ Min(T) \in T /\ Max(T) \in T
    BY <1>3, CostsMinMax
  <2>2. Min(T) \in U /\ Max(T) \in U
    BY <2>1
  <2> HIDE DEF U
  <2>3. /\ Min(U) <= Min(T) /\ Max(T) <= Max(U) /\ Min(U) \in Nat /\ Max(U) \in Nat
        /\ Min(T) \in Nat /\ Max(T) \in Nat
    BY <1>2, <2>1, <2>2
  <2> QED BY <1>3, <2>3
<1>4. o.cost \in U /\ o.cost \in Nat
  BY DEF Recorded
<1> HIDE DEF U
<1>5. Min(U) \in Nat /\ Max(U) \in Nat /\ Min(U) <= o.cost /\ o.cost <= Max(U)
  BY <1>2, <1>4
<1>6. Ema(prev, o.cost) \in Min(U)..Max(U)
  BY <1>3, <1>4, <1>5, EmaBetween
<1> QED BY <1>6 DEF U

(* The failures at the end of a chain, after one more outcome.             *)
LEMMA FailuresAfter ==
  ASSUME NEW outs \in Seq(Recorded), NEW o \in Recorded
  PROVE  TrailingFailures(Append(outs, o)) =
            IF o.status = "ok" THEN 0 ELSE TrailingFailures(outs) + 1
<1> DEFINE more == Append(outs, o)
           n == Len(outs)
           oks(q) == {i \in DOMAIN q : q[i].status = "ok"}
<1>1. /\ more \in Seq(Recorded) /\ DOMAIN more = 1..n + 1 /\ DOMAIN outs = 1..n
      /\ Len(more) = n + 1
      /\ n \in Nat /\ more[n + 1] = o /\ \A i \in 1..n : more[i] = outs[i]
  OBVIOUS
<1> HIDE DEF more, n
<1>2. 1..n + 1 = 1..n \cup {n + 1}
  BY <1>1
<1>3. CASE o.status = "ok"
  <2>1. n + 1 \in oks(more) /\ \A i \in oks(more) : i \in Nat /\ i <= n + 1
    BY <1>1, <1>2, <1>3
  <2> HIDE DEF oks
  <2>2. Max(oks(more)) = n + 1
    <3>1. n + 1 \in Nat
      BY <1>1
    <3>2. \A y \in oks(more) : n + 1 >= y
      BY <2>1, <3>1
    <3>3. \E x \in oks(more) : \A y \in oks(more) : x >= y
      BY <2>1, <3>2
    <3>4. Max(oks(more)) \in oks(more) /\ Max(oks(more)) >= n + 1
      BY <2>1, <3>3 DEF Max
    <3> QED BY <2>1, <3>1, <3>4
  <2>3. oks(more) # {}
    BY <2>1
  <2>4. TrailingFailures(more) = n + 1 - (n + 1)
    <3>1. TrailingFailures(more) = Len(more) - (IF oks(more) = {} THEN 0 ELSE Max(oks(more)))
      BY Zenon DEF TrailingFailures, oks
    <3> QED BY <1>1, <2>2, <2>3, <3>1
  <2> QED BY <1>1, <1>3, <2>4 DEF more
<1>4. CASE o.status # "ok"
  <2>1. oks(more) = oks(outs)
    BY <1>1, <1>2, <1>4
  <2>2. \A i \in oks(outs) : i \in Nat
    BY <1>1
  <2>3. oks(outs) # {} => Max(oks(outs)) \in Nat
    <3> SUFFICES ASSUME oks(outs) # {} PROVE Max(oks(outs)) \in Nat
      OBVIOUS
    <3>1. oks(outs) \in SUBSET Nat /\ \A i \in oks(outs) : i <= n
      BY <1>1
    <3> HIDE DEF oks
    <3> QED BY <1>1, <3>1, MinMax
  <2> DEFINE last == IF oks(outs) = {} THEN 0 ELSE Max(oks(outs))
  <2>4. last \in Nat
    BY <2>3
  <2>5. TrailingFailures(more) = n + 1 - last /\ TrailingFailures(outs) = n - last
    <3>1. TrailingFailures(outs) = n - last
      BY Zenon DEF TrailingFailures, oks, last, n
    <3>2. TrailingFailures(more) = Len(more) - (IF oks(more) = {} THEN 0 ELSE Max(oks(more)))
      BY Zenon DEF TrailingFailures, oks
    <3> HIDE DEF oks
    <3> QED BY <1>1, <2>1, <2>4, <3>1, <3>2
  <2> HIDE DEF last
  <2> QED BY <1>1, <1>4, <2>4, <2>5 DEF more
<1> QED BY <1>3, <1>4

\* AreStatsOf in parts: the counts, the streak of successes, the averages.
CountsOf(s, outs) ==
  /\ s.total = Len(outs) /\ s.failure = TrailingFailures(outs)
  /\ s.success > 0 <=> outs # <<>> /\ TrailingFailures(outs) = 0
StreakOf(s, outs) ==
  \A i \in 1..Len(outs) : i > Len(outs) - s.success <=>
      \A j \in i..Len(outs) : outs[j].status = "ok"
AveragesOf(s, outs) ==
  /\ outs # <<>> => s.costEma \in Min(AllCosts(outs))..Max(AllCosts(outs))
  /\ \A m \in DOMAIN s.costByModel :
        s.costByModel[m] \in Min(ModelCosts(outs, m))..Max(ModelCosts(outs, m))

\* What the next outcome needs: an average that is zero starts again, and no
\* model has an average before it has an outcome.
StartsOf(s, outs) ==
  /\ outs = <<>> => s.costEma = 0
  /\ \A m \in DOMAIN s.costByModel : ModelCosts(outs, m) # {}

Account(s, outs) ==
  CountsOf(s, outs) /\ StreakOf(s, outs) /\ AveragesOf(s, outs) /\ StartsOf(s, outs)

(* The parts are the whole. *)
LEMMA AccountIsStats ==
  ASSUME NEW s, NEW outs \in Seq(Recorded), Account(s, outs)
  PROVE  AreStatsOf(s, outs)
<1>1. DOMAIN outs = 1..Len(outs)
  OBVIOUS
<1>2. \A i \in DOMAIN outs : i > Len(outs) - s.success <=>
        \A j \in i..Len(outs) : outs[j].status = "ok"
  BY <1>1 DEF Account, StreakOf
<1>3. /\ s.total = Len(outs) /\ s.failure = TrailingFailures(outs)
      /\ s.success > 0 <=> outs # <<>> /\ TrailingFailures(outs) = 0
  BY DEF Account, CountsOf
<1>4. /\ outs # <<>> => s.costEma \in Min(AllCosts(outs))..Max(AllCosts(outs))
      /\ \A m \in DOMAIN s.costByModel :
            s.costByModel[m] \in Min(ModelCosts(outs, m))..Max(ModelCosts(outs, m))
  BY DEF Account, AveragesOf
<1> QED BY <1>2, <1>3, <1>4, Zenon DEF AreStatsOf, AllCosts, ModelCosts

(* Fresh statistics are those of no outcome. *)
LEMMA FreshAccount == Account(FreshStats, <<>>)
<1>1. TrailingFailures(<<>>) = 0
  BY DEF TrailingFailures
<1>2. DOMAIN FreshStats.costByModel = {}
  BY DEF FreshStats, NoAverages
<1>3. /\ FreshStats.total = 0 /\ FreshStats.failure = 0 /\ FreshStats.success = 0
      /\ FreshStats.costEma = 0
  BY DEF FreshStats
<1>4. CountsOf(FreshStats, <<>>)
  BY <1>1, <1>3 DEF CountsOf
<1>5. StreakOf(FreshStats, <<>>)
  BY DEF StreakOf
<1>6. AveragesOf(FreshStats, <<>>) /\ StartsOf(FreshStats, <<>>)
  BY <1>2, <1>3 DEF AveragesOf, StartsOf
<1> QED BY <1>4, <1>5, <1>6 DEF Account

(* Counting since the last rotation changes nothing else. *)
LEMMA AccountKept ==
  ASSUME NEW s \in Statistics, NEW n \in Nat, NEW outs, Account(s, outs)
  PROVE  Account([s EXCEPT !.sinceRotate = n], outs)
<1> DEFINE kept == [s EXCEPT !.sinceRotate = n]
<1>1. /\ kept.total = s.total /\ kept.failure = s.failure /\ kept.success = s.success
      /\ kept.costEma = s.costEma /\ kept.costByModel = s.costByModel
  BY DEF Statistics, Fields
<1> HIDE DEF kept
<1>2. Account(kept, outs)
  BY <1>1, Zenon DEF Account, CountsOf, StreakOf, AveragesOf, StartsOf
<1> QED BY <1>2 DEF kept

(* One more outcome keeps the counts: the streaks are those of the outcomes. *)
LEMMA CountsCounted ==
  ASSUME NEW outs \in Seq(Recorded), NEW o \in Recorded,
         NEW s \in Statistics, NEW new \in Statistics,
         CountsOf(s, outs), StreakOf(s, outs),
         new.total = s.total + 1, new.success = SuccessAfter(s, o),
         new.failure = FailureAfter(s, o)
  PROVE  CountsOf(new, Append(outs, o)) /\ StreakOf(new, Append(outs, o))
<1> DEFINE more == Append(outs, o)
           n == Len(outs)
<1>1. /\ more \in Seq(Recorded) /\ Len(more) = n + 1 /\ n \in Nat
      /\ more[n + 1] = o /\ \A i \in 1..n : more[i] = outs[i]
      /\ more # <<>> /\ (outs = <<>> <=> n = 0)
  OBVIOUS
<1>2. TrailingFailures(more) = IF o.status = "ok" THEN 0 ELSE TrailingFailures(outs) + 1
  BY FailuresAfter
<1> HIDE DEF more
<1>3. s.success \in Nat /\ s.failure \in Nat /\ s.total \in Nat
  BY DEF Statistics, Fields
<1>4. /\ s.total = n /\ s.failure = TrailingFailures(outs)
      /\ \A i \in 1..n : i > n - s.success <=> \A j \in i..n : outs[j].status = "ok"
  BY DEF CountsOf, StreakOf
<1> HIDE DEF n
<1>5. CASE o.status = "ok"
  <2>1. new.success = s.success + 1 /\ new.failure = 0
    BY <1>5 DEF SuccessAfter, FailureAfter
  <2>2. CountsOf(new, more)
    BY <1>1, <1>2, <1>3, <1>4, <1>5, <2>1 DEF CountsOf
  <2>3. ASSUME NEW i \in 1..n + 1
        PROVE  i > n + 1 - (s.success + 1) <=> \A j \in i..n + 1 : more[j].status = "ok"
    <3>1. CASE i = n + 1
      <4>1. \A j \in i..n + 1 : j = n + 1
        BY <1>1, <3>1
      <4> QED BY <1>1, <1>3, <1>5, <3>1, <4>1
    <3>2. CASE i # n + 1
      <4>1. i \in 1..n
        BY <1>1, <3>2
      <4>2. i > n + 1 - (s.success + 1) <=> i > n - s.success
        BY <1>1, <1>3
      <4>3. (\A j \in i..n : outs[j].status = "ok")
              <=> \A j \in i..n + 1 : more[j].status = "ok"
        <5>1. i..n + 1 = (i..n) \cup {n + 1} /\ i..n \subseteq 1..n
          BY <1>1, <4>1
        <5> QED BY <1>1, <1>5, <5>1
      <4> QED BY <1>4, <4>1, <4>2, <4>3
    <3> QED BY <3>1, <3>2
  <2>4. ASSUME NEW i \in 1..Len(more)
        PROVE  i > Len(more) - new.success <=>
                 \A j \in i..Len(more) : more[j].status = "ok"
    <3>1. i \in 1..n + 1 /\ i..Len(more) = i..n + 1
          /\ Len(more) - new.success = n + 1 - (s.success + 1)
      <4>1. Len(more) = n + 1 /\ new.success = s.success + 1
        BY <1>1, <2>1
      <4>2. i \in 1..n + 1 /\ i..Len(more) = i..n + 1
        BY <2>4, <4>1, Zenon
      <4>3. Len(more) - new.success = n + 1 - (s.success + 1)
        <5>1. ASSUME NEW a \in Nat, NEW l \in Nat
              PROVE  l + 1 - (a + 1) = (l + 1) - (a + 1)
          OBVIOUS
        <5> QED BY <1>1, <1>3, <4>1, <5>1, Zenon
      <4> QED BY <4>2, <4>3, Zenon
    <3> QED BY <2>3, <3>1, Zenon
  <2>5. StreakOf(new, more)
    BY <2>4, Zenon DEF StreakOf
  <2> QED BY <2>2, <2>5 DEF more
<1>6. CASE o.status # "ok"
  <2>1. new.success = 0 /\ new.failure = s.failure + 1
    BY <1>6 DEF SuccessAfter, FailureAfter
  <2>2. CountsOf(new, more)
    BY <1>1, <1>2, <1>3, <1>4, <1>6, <2>1 DEF CountsOf
  <2>3. ASSUME NEW i \in 1..n + 1
        PROVE  i > n + 1 - 0 <=> \A j \in i..n + 1 : more[j].status = "ok"
    BY <1>1, <1>6
  <2>4. ASSUME NEW i \in 1..Len(more)
        PROVE  i > Len(more) - new.success <=>
                 \A j \in i..Len(more) : more[j].status = "ok"
    <3>1. i \in 1..n + 1 /\ i..Len(more) = i..n + 1
          /\ Len(more) - new.success = n + 1 - 0
      BY <1>1, <2>1
    <3> QED BY <2>3, <3>1, Zenon
  <2>5. StreakOf(new, more)
    BY <2>4, Zenon DEF StreakOf
  <2> QED BY <2>2, <2>5 DEF more
<1> QED BY <1>5, <1>6

(* One more outcome keeps the averages: each stays between the least and   *)
(* the greatest of the costs it is of.                                     *)
LEMMA AveragesCounted ==
  ASSUME NEW outs \in Seq(Recorded), NEW o \in Recorded,
         NEW s \in Statistics, NEW new \in Statistics,
         AveragesOf(s, outs), StartsOf(s, outs),
         new.costEma = Ema(s.costEma, o.cost),
         new.costByModel = IF Tracks(s, o.model)
                           THEN Averaged(s.costByModel, o.model, o.cost)
                           ELSE s.costByModel
  PROVE  AveragesOf(new, Append(outs, o)) /\ StartsOf(new, Append(outs, o))
<1> DEFINE more == Append(outs, o)
           M == ModelCosts(outs, o.model)
<1>1. /\ more \in Seq(Recorded) /\ more # <<>>
      /\ AllCosts(more) = AllCosts(outs) \cup {o.cost}
      /\ ModelCosts(more, o.model) = M \cup {o.cost}
      /\ \A m : m # o.model => ModelCosts(more, m) = ModelCosts(outs, m)
  <2>1. more # <<>>
    OBVIOUS
  <2> QED BY <2>1, CostsAfter
<1>2. AllCosts(outs) \subseteq AllCosts(outs) /\ M \subseteq AllCosts(outs)
  BY DEF AllCosts, ModelCosts
<1>3. outs # <<>> => AllCosts(outs) # {}
  BY DEF AllCosts
<1> HIDE DEF more, M
<1>4. /\ s.costEma \in Nat /\ s.costByModel \in Averages
      /\ \A m \in DOMAIN s.costByModel : s.costByModel[m] \in Nat
  BY DEF Statistics, Fields, Averages
<1>5. new.costEma \in Min(AllCosts(more))..Max(AllCosts(more))
  <2>1. s.costEma = 0 \/ (AllCosts(outs) # {}
          /\ s.costEma \in Min(AllCosts(outs))..Max(AllCosts(outs)))
    BY <1>3 DEF AveragesOf, StartsOf
  <2> DEFINE T == AllCosts(outs)
  <2>2. T \in SUBSET AllCosts(outs) /\ (s.costEma = 0 \/ (T # {} /\ s.costEma \in Min(T)..Max(T)))
    BY <2>1
  <2> HIDE DEF T
  <2>3. Ema(s.costEma, o.cost) \in Min(T \cup {o.cost})..Max(T \cup {o.cost})
    BY <1>4, <2>2, EmaOfMore
  <2>4. AllCosts(more) = T \cup {o.cost}
    BY <1>1 DEF T
  <2> QED BY <2>3, <2>4, Zenon
<1>6. ASSUME NEW m \in DOMAIN new.costByModel
      PROVE  /\ new.costByModel[m] \in Min(ModelCosts(more, m))..Max(ModelCosts(more, m))
             /\ ModelCosts(more, m) # {}
  <2>1. CASE m \in DOMAIN s.costByModel /\ new.costByModel[m] = s.costByModel[m]
             /\ m # o.model
    BY <1>1, <2>1 DEF AveragesOf, StartsOf
  <2>2. CASE Tracks(s, o.model) /\ m = o.model
    <3> DEFINE prev == IF o.model \in DOMAIN s.costByModel THEN s.costByModel[o.model] ELSE 0
    <3>1. new.costByModel[m] = Ema(prev, o.cost)
      BY <1>6, <2>2 DEF Averaged
    <3>2. prev \in Nat /\ (prev = 0 \/ (M # {} /\ prev \in Min(M)..Max(M)))
      BY <1>4 DEF AveragesOf, StartsOf, M
    <3> HIDE DEF prev
    <3>3. Ema(prev, o.cost) \in Min(M \cup {o.cost})..Max(M \cup {o.cost})
      BY <1>2, <3>2, EmaOfMore
    <3> QED BY <1>1, <2>2, <3>1, <3>3
  <2>3. CASE ~Tracks(s, o.model)
    <3>1. m \in DOMAIN s.costByModel /\ new.costByModel[m] = s.costByModel[m]
      BY <1>6, <2>3
    <3>2. m # o.model
      BY <2>3, <3>1 DEF Tracks
    <3> QED BY <2>1, <3>1, <3>2
  <2>4. CASE Tracks(s, o.model) /\ m # o.model
    <3>1. new.costByModel = Averaged(s.costByModel, o.model, o.cost)
      BY <2>4
    <3>2. DOMAIN new.costByModel = DOMAIN s.costByModel \cup {o.model}
      BY <3>1 DEF Averaged
    <3>3. m \in DOMAIN s.costByModel
      BY <1>6, <2>4, <3>2
    <3>4. new.costByModel[m] = s.costByModel[m]
      BY <1>6, <2>4, <3>1, <3>2 DEF Averaged
    <3> QED BY <2>1, <2>4, <3>3, <3>4
  <2> QED BY <2>2, <2>3, <2>4
<1>7. AveragesOf(new, more) /\ StartsOf(new, more)
  BY <1>1, <1>5, <1>6 DEF AveragesOf, StartsOf
<1> QED BY <1>7 DEF more

(* One more outcome in the statistics of some is the statistics of one more *)
(* outcome (_update_stats).                                                *)
LEMMA AccountCounted ==
  ASSUME NEW outs \in Seq(Recorded), NEW o \in Recorded, NEW s \in Statistics,
         NEW budget \in Contexts \cup {<<>>}, Account(s, outs)
  PROVE  Account(CountOutcome(s, o, budget), Append(outs, o))
<1>1. PICK new \in Statistics : new = CountOutcome(s, o, budget)
  BY CountTypes
<1>2. /\ new.total = s.total + 1
      /\ new.success = SuccessAfter(s, o) /\ new.failure = FailureAfter(s, o)
      /\ new.costEma = Ema(s.costEma, o.cost)
      /\ new.costByModel = IF Tracks(s, o.model)
                           THEN Averaged(s.costByModel, o.model, o.cost)
                           ELSE s.costByModel
  BY <1>1, CountFields
<1>3. CountsOf(new, Append(outs, o)) /\ StreakOf(new, Append(outs, o))
  BY <1>2, CountsCounted DEF Account
<1>4. AveragesOf(new, Append(outs, o)) /\ StartsOf(new, Append(outs, o))
  BY <1>2, AveragesCounted DEF Account
<1> QED BY <1>1, <1>3, <1>4 DEF Account

-----------------------------------------------------------------------------
(* Statistics and copies account for prefixes of what was committed. *)

Prefix(s, t) == Len(s) <= Len(t) /\ \A i \in 1..Len(s) : s[i] = t[i]

AccountOf(c) ==
  /\ Account(StatsOf(c), counted[c])
  /\ statsFile[c] # <<>> => Account(statsFile[c], saved[c])
  /\ statsFile[c] = <<>> => saved[c] = <<>>
  /\ Prefix(saved[c], counted[c])
  /\ Len(counted[c]) <= Len(log[c])
CopyAccounts(copy, all) == Account(copy[2], copy[3]) /\ Prefix(copy[3], all[copy[1]])
AccountInv ==
  /\ \A c \in Chains : AccountOf(c)
  /\ \A t \in Writers : \A i \in 1..Len(flushing[t]) :
        CopyAccounts(flushing[t][i], counted)

\* A copy of at least k outcomes of the chain was written, or will be.
Covered(c, k) ==
  \/ flushed[c] >= k
  \/ \E t \in Writers : \E i \in 1..Len(flushing[t]) :
        flushing[t][i][1] = c /\ Len(flushing[t][i][3]) >= k

\* No multiple of flush_interval is passed without a copy.
LagInv ==
  faults = 0 => \A c \in Chains : \A k \in 0..Len(counted[c]) :
                    k % FlushInterval = 0 => Covered(c, k)

(* Prefixes. *)
LEMMA PrefixFacts ==
  ASSUME NEW s \in Seq(Recorded), NEW t \in Seq(Recorded), Prefix(s, t)
  PROVE  /\ \A o \in Recorded : Prefix(s, Append(t, o))
         /\ IsPrefix(s, t) /\ Prefix(s, s) /\ Prefix(<<>>, t)
<1>1. Len(s) \in Nat /\ Len(t) \in Nat /\ Len(s) <= Len(t) /\ \A i \in 1..Len(s) : s[i] = t[i]
  BY DEF Prefix
<1>2. ASSUME NEW o \in Recorded PROVE Prefix(s, Append(t, o))
  BY <1>1 DEF Prefix
<1>3. IsPrefix(s, t)
  <2>1. SubSeq(s, 1, Len(s)) = [i \in 1..Len(s) |-> s[i]]
    BY <1>1
  <2>2. SubSeq(t, 1, Len(s)) = [i \in 1..Len(s) |-> t[i]]
    BY <1>1
  <2>3. [i \in 1..Len(s) |-> s[i]] = [i \in 1..Len(s) |-> t[i]]
    BY <1>1, Zenon
  <2> QED BY <1>1, <2>1, <2>2, <2>3 DEF IsPrefix
<1>4. Prefix(s, s) /\ Prefix(<<>>, t)
  BY <1>1 DEF Prefix
<1> QED BY <1>2, <1>3, <1>4

(* A commit counts its outcome in the statistics and in the copy it takes. *)
LEMMA CommitAccounts ==
  ASSUME StoreTypes, AccountInv, LagInv, NEW t \in Writers, NEW c \in Chains, Commit(t, c)
  PROVE  AccountInv' /\ LagInv'
<1>1. PICK o \in Recorded, new \in Statistics :
           LET kept == [new EXCEPT !.sinceRotate = new.sinceRotate + 1] IN
           /\ new = CountOutcome(StatsOf(c), o, context)
           /\ kept \in Statistics
           /\ active' = [active EXCEPT ![c] = AppendedLine(active[c], o)]
           /\ stats' = [stats EXCEPT ![c] = kept]
           /\ counted' = [counted EXCEPT ![c] = Append(counted[c], o)]
           /\ log' = [log EXCEPT ![c] = Append(log[c], o)]
           /\ \/ /\ FlushDue(new)
                 /\ flushing' = [flushing EXCEPT ![t] = <<<<c, new, counted'[c]>>>>]
              \/ ~FlushDue(new) /\ flushing' = flushing
           /\ \/ RotationDue(kept.sinceRotate) /\ rotation' = <<t, c>>
              \/ rotation' = <<>>
  BY CommitEffect
<1> DEFINE kept == [new EXCEPT !.sinceRotate = new.sinceRotate + 1]
           more == Append(counted[c], o)
<1>2. /\ kept \in Statistics
      /\ stats' = [stats EXCEPT ![c] = kept]
      /\ counted' = [counted EXCEPT ![c] = more]
      /\ log' = [log EXCEPT ![c] = Append(log[c], o)]
      /\ \/ /\ FlushDue(new)
            /\ flushing' = [flushing EXCEPT ![t] = <<<<c, new, counted'[c]>>>>]
         \/ ~FlushDue(new) /\ flushing' = flushing
  BY <1>1
<1>3. /\ flushing[t] = <<>> /\ UNCHANGED <<statsFile, saved, faults, flushed>>
  BY DEF Commit
<1>4. /\ counted[c] \in Seq(Recorded) /\ log[c] \in Seq(Recorded)
      /\ Len(counted[c]) \in Nat /\ Len(more) = Len(counted[c]) + 1 /\ more \in Seq(Recorded)
      /\ Len(Append(log[c], o)) = Len(log[c]) + 1 /\ Len(log[c]) \in Nat
  BY DEF StoreTypes, HistoryTypes
<1>5. Account(new, more)
  <2>1. context \in Contexts \cup {<<>>} /\ StatsOf(c) \in Statistics
    BY StatsOfTypes DEF StoreTypes, LockTypes
  <2>2. Account(StatsOf(c), counted[c])
    BY DEF AccountInv, AccountOf
  <2> QED BY <1>1, <1>4, <2>1, <2>2, AccountCounted
<1>6. Account(kept, more)
  <2>1. new.sinceRotate + 1 \in Nat
    BY DEF Statistics, Fields
  <2> QED BY <1>5, <2>1, AccountKept
<1> HIDE DEF kept, more
<1>7. /\ stats'[c] = kept /\ counted'[c] = more /\ log'[c] = Append(log[c], o)
      /\ \A d \in Chains : d # c =>
            stats'[d] = stats[d] /\ counted'[d] = counted[d] /\ log'[d] = log[d]
  BY <1>2 DEF StoreTypes, StatsTypes, HistoryTypes
<1>8. \A d \in Chains : \A s \in Seq(Recorded) :
          Prefix(s, counted[d]) => Prefix(s, counted'[d])
  <2> SUFFICES ASSUME NEW d \in Chains, NEW s \in Seq(Recorded), Prefix(s, counted[d])
               PROVE  Prefix(s, counted'[d])
    OBVIOUS
  <2>1. CASE d = c
    <3>1. Prefix(s, Append(counted[c], o))
      BY <1>4, <2>1, PrefixFacts
    <3> QED BY <1>7, <2>1, <3>1 DEF more
  <2>2. CASE d # c
    BY <1>7, <2>2
  <2> QED BY <2>1, <2>2
<1>9. ASSUME NEW d \in Chains PROVE AccountOf(d)'
  <2>0. AccountOf(d) /\ saved[d] \in Seq(Recorded)
    BY DEF AccountInv, StoreTypes, HistoryTypes
  <2>1. Prefix(saved[d], counted'[d])
    BY <1>8, <2>0 DEF AccountOf
  <2>2. CASE d = c
    <3>1. StatsOf(c)' = kept
      BY <1>2, <1>7, StatisticsNotEmpty DEF StatsOf
    <3>2. Len(counted'[c]) <= Len(log'[c])
      BY <1>4, <1>7, <2>0, <2>2 DEF AccountOf
    <3> QED BY <1>3, <1>6, <1>7, <2>0, <2>1, <2>2, <3>1, <3>2 DEF AccountOf
  <2>3. CASE d # c
    <3>1. StatsOf(d)' = StatsOf(d)
      BY <1>7, <2>3 DEF StatsOf
    <3> QED BY <1>3, <1>7, <2>0, <2>1, <2>3, <3>1 DEF AccountOf
  <2> QED BY <2>2, <2>3
<1> DEFINE copy == <<c, new, more>>
<1>10. copy[1] = c /\ copy[2] = new /\ copy[3] = more
  OBVIOUS
<1> HIDE DEF copy
<1>11. /\ \/ FlushDue(new) /\ flushing' = [flushing EXCEPT ![t] = <<copy>>]
          \/ ~FlushDue(new) /\ flushing' = flushing
  BY <1>2, <1>7, Zenon DEF copy
<1>12. ASSUME NEW u \in Writers, NEW i \in 1..Len(flushing[u])
       PROVE  /\ i \in 1..Len(flushing'[u]) /\ flushing'[u][i] = flushing[u][i]
  BY <1>3, <1>11 DEF StoreTypes, CopyTypes
<1>13. ASSUME NEW u \in Writers, NEW i \in 1..Len(flushing'[u])
       PROVE  CopyAccounts(flushing'[u][i], counted')
  <2>1. CASE i \in 1..Len(flushing[u])
    <3> DEFINE old == flushing[u][i]
    <3>1. CopyAccounts(old, counted) /\ old[1] \in Chains /\ old[3] \in Seq(Recorded)
      BY <2>1 DEF AccountInv, StoreTypes, CopyTypes, Copies
    <3>2. flushing'[u][i] = old
      BY <1>12, <2>1
    <3> HIDE DEF old
    <3>3. CopyAccounts(old, counted')
      BY <1>8, <3>1 DEF CopyAccounts
    <3> QED BY <3>2, <3>3
  <2>2. CASE i \notin 1..Len(flushing[u])
    <3>1. flushing'[u][i] = copy
      BY <1>11, <1>13, <2>2 DEF StoreTypes, CopyTypes
    <3>2. Prefix(more, more)
      BY <1>4 DEF Prefix
    <3> QED BY <1>5, <1>7, <1>10, <3>1, <3>2 DEF CopyAccounts
  <2> QED BY <2>1, <2>2
<1>14. AccountInv'
  BY <1>9, <1>13 DEF AccountInv
<1>15. LagInv'
  <2> SUFFICES ASSUME faults = 0, NEW d \in Chains, NEW k \in 0..Len(counted'[d]),
                      k % FlushInterval = 0
               PROVE  Covered(d, k)'
    BY <1>3 DEF LagInv
  <2>1. CASE k \in 0..Len(counted[d])
    <3>1. Covered(d, k)
      BY <2>1 DEF LagInv
    <3> QED BY <1>3, <1>12, <3>1 DEF Covered
  <2>2. CASE k \notin 0..Len(counted[d])
    <3>1. d = c /\ k = Len(counted[c]) + 1
      BY <1>4, <1>7, <2>2
    <3>2. new.total = k
      <4>1. context \in Contexts \cup {<<>>} /\ StatsOf(c) \in Statistics
        BY StatsOfTypes DEF StoreTypes, LockTypes
      <4>2. new.total = StatsOf(c).total + 1
        BY <1>1, <4>1, CountFields
      <4>3. StatsOf(c).total = Len(counted[c])
        BY DEF AccountInv, AccountOf, Account, CountsOf
      <4> QED BY <3>1, <4>2, <4>3
    <3>3. flushing' = [flushing EXCEPT ![t] = <<copy>>]
      BY <1>11, <3>2 DEF FlushDue
    <3>4. flushing'[t] = <<copy>>
      BY <3>3 DEF StoreTypes, CopyTypes
    <3>5. 1 \in 1..Len(flushing'[t]) /\ flushing'[t][1] = copy
      BY <3>4
    <3>6. Len(copy[3]) >= k
      BY <1>4, <1>10, <3>1
    <3> QED BY <1>10, <3>1, <3>5, <3>6 DEF Covered
  <2> QED BY <2>1, <2>2
<1> QED BY <1>14, <1>15

(* The copies that close takes are of all that is counted. *)
LEMMA CloseAccounts ==
  ASSUME StoreTypes, AccountInv, LagInv, NEW t \in Writers, Close(t)
  PROVE  AccountInv' /\ LagInv'
<1> DEFINE held == SetToSeq(Known(stats))
           copies == [i \in DOMAIN held |-> <<held[i], stats[held[i]], counted[held[i]]>>]
<1>1. /\ flushing' = [flushing EXCEPT ![t] = copies] /\ flushing[t] = <<>>
      /\ UNCHANGED <<stats, statsFile, faults, counted, saved, log, flushed>>
  BY Zenon DEF Close, Known, bounds, history
<1>2. held \in Seq(Known(stats))
  BY ListTypes DEF StoreTypes, StatsTypes
<1> HIDE DEF held
<1>3. DOMAIN held = 1..Len(held) /\ Len(held) \in Nat
  BY <1>2
<1>4. copies \in Seq(Known(stats) \X (Statistics \cup {<<>>}) \X Seq(Recorded))
      /\ Len(copies) = Len(held)
  <2>1. \A i \in 1..Len(held) : copies[i] \in
           Known(stats) \X (Statistics \cup {<<>>}) \X Seq(Recorded)
    <3> SUFFICES ASSUME NEW i \in 1..Len(held)
                 PROVE  copies[i] \in Known(stats) \X (Statistics \cup {<<>>}) \X Seq(Recorded)
      OBVIOUS
    <3>1. held[i] \in Known(stats)
      BY <1>2
    <3>2. stats[held[i]] \in Statistics \cup {<<>>} /\ counted[held[i]] \in Seq(Recorded)
      BY <3>1 DEF Known, StoreTypes, StatsTypes, HistoryTypes
    <3> QED BY <1>3, <3>1, <3>2
  <2>2. copies \in [1..Len(held) -> Known(stats) \X (Statistics \cup {<<>>}) \X Seq(Recorded)]
    BY <1>3, <2>1
  <2> HIDE DEF copies
  <2> QED BY <1>3, <2>2
<1>5. ASSUME NEW i \in 1..Len(held) PROVE CopyAccounts(copies[i], counted)
  <2>1. held[i] \in Known(stats)
    BY <1>2
  <2> DEFINE c == held[i]
  <2>2. c \in Chains /\ stats[c] # <<>>
    BY <2>1 DEF Known
  <2>3. copies[i] = <<c, stats[c], counted[c]>>
    BY <1>3
  <2> HIDE DEF c, copies
  <2>4. Account(stats[c], counted[c])
    BY <2>2 DEF AccountInv, AccountOf, StatsOf
  <2>5. Prefix(counted[c], counted[c])
    BY <2>2 DEF Prefix, StoreTypes, HistoryTypes
  <2>6. copies[i][1] = c /\ copies[i][2] = stats[c] /\ copies[i][3] = counted[c]
    BY <2>3
  <2> QED BY <2>4, <2>5, <2>6 DEF CopyAccounts
<1> HIDE DEF copies
<1>6. flushing'[t] = copies /\ \A u \in Writers : u # t => flushing'[u] = flushing[u]
  BY <1>1 DEF StoreTypes, CopyTypes
<1>7. \A c \in Chains : AccountOf(c)'
  BY <1>1 DEF AccountInv, AccountOf, StatsOf
<1>8. ASSUME NEW u \in Writers, NEW i \in 1..Len(flushing'[u])
      PROVE  CopyAccounts(flushing'[u][i], counted')
  <2>1. counted' = counted
    BY <1>1
  <2>2. CASE u = t
    BY <1>4, <1>5, <1>6, <1>8, <2>1, <2>2
  <2>3. CASE u # t
    BY <1>6, <1>8, <2>1, <2>3 DEF AccountInv
  <2> QED BY <2>2, <2>3
<1>9. AccountInv'
  BY <1>7, <1>8 DEF AccountInv
<1>10. ASSUME NEW c \in Chains, NEW k, Covered(c, k) PROVE Covered(c, k)'
  <2>1. ASSUME NEW u \in Writers, NEW i \in 1..Len(flushing[u])
        PROVE  i \in 1..Len(flushing'[u]) /\ flushing'[u][i] = flushing[u][i]
    <3>1. u # t
      BY <1>1, <2>1
    <3> QED BY <1>6, <2>1, <3>1
  <2> QED BY <1>1, <1>10, <2>1 DEF Covered
<1>11. LagInv'
  BY <1>1, <1>10 DEF LagInv
<1> QED BY <1>9, <1>11

(* A copy that is written replaces the file's statistics by those of some   *)
(* prefix; one that fails leaves them or empties the file (WriteStats).     *)
LEMMA WriteStatsAccounts ==
  ASSUME StoreTypes, AccountInv, LagInv, NEW t \in Writers, WriteStats(t)
  PROVE  AccountInv' /\ LagInv'
<1> DEFINE copy == Head(flushing[t])
           c == copy[1]
           rest == Tail(flushing[t])
<1>1. /\ c \in Chains /\ copy[2] \in Statistics /\ copy[3] \in Seq(Recorded)
      /\ copy = flushing[t][1] /\ Len(flushing[t]) \in Nat \ {0}
      /\ Len(rest) = Len(flushing[t]) - 1
      /\ \A i \in 1..Len(flushing[t]) - 1 : rest[i] = flushing[t][i + 1]
  BY HeadTypes, Zenon DEF WriteStats
<1>2. /\ \/ /\ statsFile' = [statsFile EXCEPT ![c] = copy[2]]
            /\ saved' = [saved EXCEPT ![c] = copy[3]]
            /\ flushed' = [flushed EXCEPT ![c] = IF Len(copy[3]) > flushed[c]
                                                 THEN Len(copy[3]) ELSE flushed[c]]
            /\ UNCHANGED faults
         \/ /\ \/ UNCHANGED <<statsFile, saved>>
               \/ /\ statsFile' = [statsFile EXCEPT ![c] = <<>>]
                  /\ saved' = [saved EXCEPT ![c] = <<>>]
            /\ faults' = faults + 1
            /\ UNCHANGED flushed
      /\ flushing' = [flushing EXCEPT ![t] = rest]
      /\ UNCHANGED <<stats, counted, log>>
  BY Zenon DEF WriteStats
<1> HIDE DEF copy, c, rest
<1>3. CopyAccounts(copy, counted) /\ c = copy[1]
  BY <1>1 DEF AccountInv, c
<1>4. /\ Account(copy[2], copy[3]) /\ Prefix(copy[3], counted[c]) /\ copy[2] # <<>>
      /\ Prefix(<<>>, counted[c])
  BY <1>1, <1>3, StatisticsNotEmpty DEF CopyAccounts, Prefix, StoreTypes, HistoryTypes
<1>5. ASSUME NEW d \in Chains PROVE AccountOf(d)'
  <2>1. AccountOf(d)
    BY DEF AccountInv
  <2>2. StatsOf(d)' = StatsOf(d) /\ counted'[d] = counted[d] /\ log'[d] = log[d]
    BY <1>2 DEF StatsOf
  <2>3. \/ statsFile'[d] = statsFile[d] /\ saved'[d] = saved[d]
        \/ d = c /\ statsFile'[d] = copy[2] /\ saved'[d] = copy[3]
        \/ d = c /\ statsFile'[d] = <<>> /\ saved'[d] = <<>>
    BY <1>2 DEF StoreTypes, StatsTypes, HistoryTypes
  <2>4. CASE statsFile'[d] = statsFile[d] /\ saved'[d] = saved[d]
    BY <2>1, <2>2, <2>4 DEF AccountOf
  <2>5. CASE d = c /\ statsFile'[d] = copy[2] /\ saved'[d] = copy[3]
    BY <1>4, <2>1, <2>2, <2>5 DEF AccountOf
  <2>6. CASE d = c /\ statsFile'[d] = <<>> /\ saved'[d] = <<>>
    BY <1>4, <2>1, <2>2, <2>6 DEF AccountOf
  <2> QED BY <2>3, <2>4, <2>5, <2>6
<1>6. flushing'[t] = rest /\ \A u \in Writers : u # t => flushing'[u] = flushing[u]
  BY <1>2 DEF StoreTypes, CopyTypes
<1>7. ASSUME NEW u \in Writers, NEW i \in 1..Len(flushing'[u])
      PROVE  CopyAccounts(flushing'[u][i], counted')
  <2>1. CASE u = t
    <3>1. i \in 1..Len(flushing[t]) - 1 /\ i + 1 \in 1..Len(flushing[t])
      BY <1>1, <1>6, <1>7, <2>1
    <3>2. flushing'[u][i] = flushing[t][i + 1]
      BY <1>1, <1>6, <2>1, <3>1
    <3> QED BY <1>2, <3>1, <3>2 DEF AccountInv
  <2>2. CASE u # t
    BY <1>2, <1>6, <1>7, <2>2 DEF AccountInv
  <2> QED BY <2>1, <2>2
<1>8. AccountInv'
  BY <1>5, <1>7 DEF AccountInv
<1>9. LagInv'
  <2> SUFFICES ASSUME faults' = 0, NEW d \in Chains, NEW k \in 0..Len(counted'[d]),
                      k % FlushInterval = 0
               PROVE  Covered(d, k)'
    BY DEF LagInv
  <2>1. /\ faults = 0
        /\ flushed' = [flushed EXCEPT ![c] = IF Len(copy[3]) > flushed[c]
                                             THEN Len(copy[3]) ELSE flushed[c]]
    <3>1. faults \in Nat
      BY DEF StoreTypes, HistoryTypes
    <3>2. faults' # faults + 1
      BY <3>1
    <3> QED BY <1>2, <3>2
  <2>2. Covered(d, k)
    BY <1>2, <2>1 DEF LagInv
  <2>3. Len(copy[3]) \in Nat /\ flushed \in [Chains -> Nat] /\ k \in Nat
    <3>1. flushed \in [Chains -> Nat] /\ counted'[d] \in Seq(Recorded)
      BY <1>2 DEF StoreTypes, HistoryTypes
    <3>2. Len(copy[3]) \in Nat /\ Len(counted'[d]) \in Nat
      BY <1>1, <3>1
    <3> QED BY <3>1, <3>2
  <2> DEFINE most == IF Len(copy[3]) > flushed[c] THEN Len(copy[3]) ELSE flushed[c]
  <2>a. most \in Nat /\ most >= flushed[c] /\ most >= Len(copy[3]) /\ flushed[d] \in Nat
    BY <1>1, <2>3
  <2> HIDE DEF most
  <2>b. flushed' = [flushed EXCEPT ![c] = most]
    BY <2>1 DEF most
  <2>4. flushed'[d] >= flushed[d] /\ flushed'[c] >= Len(copy[3]) /\ flushed'[d] \in Nat
    BY <1>1, <2>3, <2>a, <2>b
  <2>5. CASE flushed[d] >= k
    <3>1. flushed'[d] >= k
      BY <2>3, <2>4, <2>5
    <3> QED BY <3>1 DEF Covered
  <2>6. ASSUME NEW u \in Writers, NEW i \in 1..Len(flushing[u]),
               flushing[u][i][1] = d, Len(flushing[u][i][3]) >= k
        PROVE  Covered(d, k)'
    <3>1. CASE u # t
      BY <1>6, <2>6, <3>1 DEF Covered
    <3>2. CASE u = t /\ i = 1
      <4>1. c = d /\ Len(copy[3]) >= k
        BY <1>1, <1>3, <2>6, <3>2
      <4>2. flushed'[d] >= k
        BY <2>3, <2>4, <4>1
      <4> QED BY <4>2 DEF Covered
    <3>3. CASE u = t /\ i # 1
      <4> DEFINE j == i - 1
      <4>1. j \in 1..Len(rest) /\ rest[j] = flushing[t][i]
        <5>1. j \in 1..Len(flushing[t]) - 1 /\ j + 1 = i
          BY <1>1, <2>6, <3>3
        <5> HIDE DEF j
        <5> QED BY <1>1, <5>1
      <4>2. j \in 1..Len(flushing'[t]) /\ flushing'[t][j][1] = d
            /\ Len(flushing'[t][j][3]) >= k
        BY <1>6, <2>6, <3>3, <4>1
      <4> HIDE DEF j
      <4> QED BY <4>2 DEF Covered
    <3> QED BY <3>1, <3>2, <3>3
  <2> QED BY <2>2, <2>5, <2>6 DEF Covered
<1> QED BY <1>8, <1>9

(* What a new process loads is what the files account for.                 *)
LEMMA RestartAccounts ==
  ASSUME StoreTypes, AccountInv, LagInv, Restart
  PROVE  AccountInv' /\ LagInv'
<1>1. PICK emptied :
        /\ statsFile' = [c \in Chains |-> IF c \in emptied THEN <<>> ELSE statsFile[c]]
        /\ stats' = [c \in Chains |-> IF c \in emptied THEN <<>> ELSE statsFile[c]]
        /\ saved' = [c \in Chains |-> IF c \in emptied THEN <<>> ELSE saved[c]]
        /\ counted' = [c \in Chains |-> IF c \in emptied THEN <<>> ELSE saved[c]]
  BY Zenon DEF Restart
<1>2. /\ flushing' = [t \in Writers |-> <<>>]
      /\ flushed' = [c \in Chains |-> Len(saved'[c])] /\ log' = log
  BY DEF Restart
<1>3. ASSUME NEW c \in Chains PROVE AccountOf(c)'
  <2>1. /\ AccountOf(c) /\ saved[c] \in Seq(Recorded) /\ counted[c] \in Seq(Recorded)
        /\ log[c] \in Seq(Recorded) /\ Len(<<>>) = 0
    BY DEF AccountInv, StoreTypes, HistoryTypes
  <2>2. Len(saved[c]) <= Len(log[c]) /\ Len(log[c]) >= 0
    BY <2>1 DEF AccountOf, Prefix
  <2>3. CASE statsFile'[c] = <<>>
    <3>1. stats'[c] = <<>> /\ saved'[c] = <<>> /\ counted'[c] = <<>>
      BY <1>1, <2>1, <2>3 DEF AccountOf
    <3>2. StatsOf(c)' = FreshStats
      BY <3>1 DEF StatsOf
    <3>3. Prefix(<<>>, <<>>)
      BY DEF Prefix
    <3> QED BY <1>2, <2>1, <2>2, <2>3, <3>1, <3>2, <3>3, FreshAccount DEF AccountOf
  <2>4. CASE statsFile'[c] # <<>>
    <3>1. /\ statsFile'[c] = statsFile[c] /\ stats'[c] = statsFile[c]
          /\ saved'[c] = saved[c] /\ counted'[c] = saved[c]
      BY <1>1, <2>4
    <3>2. StatsOf(c)' = statsFile[c]
      BY <2>4, <3>1 DEF StatsOf
    <3>3. Prefix(saved[c], saved[c])
      BY <2>1 DEF Prefix
    <3> QED BY <1>2, <2>1, <2>2, <2>4, <3>1, <3>2, <3>3 DEF AccountOf
  <2> QED BY <2>3, <2>4
<1>4. AccountInv'
  BY <1>2, <1>3 DEF AccountInv
<1>5. LagInv'
  <2> SUFFICES ASSUME NEW c \in Chains, NEW k \in 0..Len(counted'[c])
               PROVE  Covered(c, k)'
    BY DEF LagInv
  <2>1. counted'[c] = saved'[c] /\ saved'[c] \in Seq(Recorded)
    BY <1>1 DEF StoreTypes, HistoryTypes
  <2>2. flushed'[c] = Len(saved'[c]) /\ Len(saved'[c]) \in Nat
    BY <1>2, <2>1
  <2>3. flushed'[c] >= k
    BY <2>1, <2>2
  <2> QED BY <2>3 DEF Covered
<1> QED BY <1>4, <1>5

(* Every step keeps the statistics, the file's and the copies accounted for. *)
LEMMA NextAccounts ==
  StoreTypes /\ AccountInv /\ LagInv /\ [Next]_vars => AccountInv' /\ LagInv'
<1> SUFFICES ASSUME StoreTypes, AccountInv, LagInv, [Next]_vars
             PROVE  AccountInv' /\ LagInv'
  OBVIOUS
<1>1. ASSUME UNCHANGED <<stats, statsFile, flushing, counted, saved, log, flushed>>,
             faults' = faults \/ faults' = faults + 1
      PROVE  AccountInv' /\ LagInv'
  <2>1. AccountInv'
    BY <1>1 DEF AccountInv, AccountOf, StatsOf
  <2>2. faults' = 0 => faults = 0
    BY <1>1 DEF StoreTypes, HistoryTypes
  <2>3. \A c \in Chains : \A k : Covered(c, k)' <=> Covered(c, k)
    BY <1>1 DEF Covered
  <2>4. LagInv'
    BY <1>1, <2>2, <2>3 DEF LagInv
  <2> QED BY <2>1, <2>4
<1>2. CASE UNCHANGED vars
  BY <1>1, <1>2 DEF vars, bounds, history
<1>3. CASE SetBudgetContext
  BY <1>1, <1>3 DEF SetBudgetContext, bounds, history
<1>4. ASSUME NEW t \in Readers,
             \/ \E c \in Chains, limit \in Limits : BeginRead(t, c, limit)
             \/ ReadActive(t) \/ ReadRotated(t) \/ EndRead(t)
      PROVE  AccountInv' /\ LagInv'
  BY <1>1, <1>4 DEF BeginRead, ReadActive, ReadRotated, EndRead, bounds, history
<1>5. ASSUME NEW t \in Writers, NEW c \in Chains,
             AppendFails(t, c) \/ Unlink(t, c) \/ RotationFails(t, c)
      PROVE  AccountInv' /\ LagInv'
  BY <1>1, <1>5 DEF AppendFails, Unlink, RotationFails, bounds, history
<1>6. ASSUME NEW t \in Writers, NEW c \in Chains, Rename(t, c)
      PROVE  AccountInv' /\ LagInv'
  <2>1. /\ stats' = [stats EXCEPT ![c] = [stats[c] EXCEPT !.sinceRotate = 0]]
        /\ rotation = <<t, c>>
        /\ UNCHANGED <<statsFile, flushing, faults, counted, saved, log, flushed>>
    BY <1>6 DEF Rename, bounds, history
  <2>2. c \in Known(stats) /\ stats[c] \in Statistics
    BY <2>1 DEF StoreTypes, LockTypes, StatsTypes, Known
  <2> DEFINE kept == [stats[c] EXCEPT !.sinceRotate = 0]
  <2>3. kept \in Statistics
    BY <2>2 DEF Statistics, Fields
  <2>4. Account(StatsOf(c), counted[c]) /\ StatsOf(c) = stats[c]
    BY <2>2 DEF AccountInv, AccountOf, StatsOf, Known
  <2>5. Account(kept, counted[c])
    BY <2>2, <2>4, AccountKept
  <2> HIDE DEF kept
  <2>6. StatsOf(c)' = kept /\ \A d \in Chains : d # c => StatsOf(d)' = StatsOf(d)
    BY <2>1, <2>3, StatisticsNotEmpty DEF kept, StatsOf, StoreTypes, StatsTypes
  <2>7. ASSUME NEW d \in Chains PROVE AccountOf(d)'
    <3>1. AccountOf(d)
      BY DEF AccountInv
    <3> QED BY <2>1, <2>5, <2>6, <3>1 DEF AccountOf
  <2>8. AccountInv'
    BY <2>1, <2>7 DEF AccountInv
  <2>9. LagInv'
    BY <2>1 DEF LagInv, Covered
  <2> QED BY <2>8, <2>9
<1>7. ASSUME NEW t \in Writers, NEW c \in Chains, Commit(t, c)
      PROVE  AccountInv' /\ LagInv'
  BY <1>7, CommitAccounts
<1>8. ASSUME NEW t \in Writers, Close(t) \/ WriteStats(t)
      PROVE  AccountInv' /\ LagInv'
  BY <1>8, CloseAccounts, WriteStatsAccounts
<1>9. CASE Restart
  BY <1>9, RestartAccounts
<1> QED BY <1>2, <1>3, <1>4, <1>5, <1>6, <1>7, <1>8, <1>9 DEF Next

(* A new store accounts for nothing. *)
LEMMA InitAccounts == Init => AccountInv /\ LagInv
<1> SUFFICES ASSUME Init PROVE AccountInv /\ LagInv
  OBVIOUS
<1>1. ASSUME NEW c \in Chains PROVE AccountOf(c)
  <2>1. /\ StatsOf(c) = FreshStats /\ counted[c] = <<>> /\ saved[c] = <<>>
        /\ statsFile[c] = <<>> /\ log[c] = <<>>
    BY DEF Init, StatsOf
  <2>2. Prefix(<<>>, <<>>)
    BY DEF Prefix
  <2>3. Len(counted[c]) <= Len(log[c])
    BY <2>1
  <2> QED BY <2>1, <2>2, <2>3, FreshAccount DEF AccountOf
<1>2. AccountInv
  BY <1>1 DEF Init, AccountInv
<1>3. LagInv
  BY DEF Init, LagInv, Covered
<1> QED BY <1>2, <1>3

(* Whatever fails, crashes or is overtaken, the statistics in memory are   *)
(* those of the outcomes committed since the last restart on top of those  *)
(* loaded then: their count, the streaks at their end, averages between    *)
(* their least and greatest cost; the file's are those of a prefix; and    *)
(* neither is ahead of the lines written (commit, _update_stats, close,    *)
(* _load_existing_stats).                                                  *)
THEOREM StoreStatsAccountForPrefix == Spec => []StatsAccountForPrefix
<1>1. StoreTypes /\ AccountInv => StatsAccountForPrefix
  <2> SUFFICES ASSUME StoreTypes, AccountInv, NEW c \in Chains
               PROVE  /\ AreStatsOf(StatsOf(c), counted[c])
                      /\ statsFile[c] # <<>> => AreStatsOf(statsFile[c], saved[c])
                      /\ IsPrefix(saved[c], counted[c])
                      /\ Len(counted[c]) <= Len(log[c])
    BY DEF StatsAccountForPrefix
  <2>1. AccountOf(c) /\ counted[c] \in Seq(Recorded) /\ saved[c] \in Seq(Recorded)
    BY DEF AccountInv, StoreTypes, HistoryTypes
  <2> QED BY <2>1, AccountIsStats, PrefixFacts DEF AccountOf
<1> QED BY <1>1, InitTypes, NextTypes, InitAccounts, NextAccounts, PTL DEF Spec

(* A multiple and one more interval is a multiple. *)
LEMMA NextMultiple ==
  ASSUME NEW k \in Nat, NEW f \in Nat \ {0}, k % f = 0
  PROVE  (k + f) % f = 0
<1> DEFINE q == k \div f
           n == k + f
           p == n \div f
           r == n % f
<1>1. q \in Int /\ p \in Int /\ r \in Int /\ 0 <= r /\ r < f
  OBVIOUS
<1>2. k = f * q + 0 /\ n = f * p + r
  OBVIOUS
<1> HIDE DEF q, p, r
<1> DEFINE z == 1 + q - p
<1>3. r = f * z /\ z \in Int
  BY <1>1, <1>2
<1> HIDE DEF z
<1>4. z < 1 /\ z > -1
  BY <1>1, <1>3
<1>5. z = 0
  BY <1>3, <1>4
<1> QED BY <1>3, <1>5 DEF r

(* The remainder of a count by flush_interval is less than the interval, and *)
(* without it the count is a multiple of the interval.                     *)
LEMMA LastFlush ==
  ASSUME NEW n \in Nat, NEW f \in Nat \ {0}
  PROVE  \E k \in 0..n : k % f = 0 /\ n - k < f
<1> DEFINE S == {m \in Nat : \E k \in 0..m : k % f = 0 /\ m - k < f}
<1>1. 0 \in S
  <2>1. 0 % f = 0
    OBVIOUS
  <2> QED BY <2>1
<1>2. ASSUME NEW m \in S PROVE m + 1 \in S
  <2>1. PICK k \in 0..m : k % f = 0 /\ m - k < f
    OBVIOUS
  <2>2. CASE m + 1 - k < f
    <3>1. k \in 0..m + 1
      OBVIOUS
    <3> QED BY <2>1, <2>2, <3>1
  <2>3. CASE ~(m + 1 - k < f)
    <3>1. m + 1 = k + f
      BY <2>1, <2>3
    <3>2. (k + f) % f = 0
      <4>1. k \in Nat /\ k % f = 0
        BY <2>1
      <4> QED BY <4>1, NextMultiple
    <3> QED BY <2>1, <3>1, <3>2
  <2> QED BY <2>2, <2>3
<1>3. S = Nat
  <2> HIDE DEF S
  <2>1. S \in SUBSET Nat
    BY DEF S
  <2> QED BY <1>1, <1>2, <2>1, SetInduction
<1> QED BY <1>3

(* With no copy waiting and none failed, the file lags behind by less than *)
(* flush_interval commits, unless an older copy was written over the       *)
(* newest: every flush_interval-th commit takes a copy, and it is written  *)
(* outside the lock, in whatever order the threads get to it (commit).     *)
THEOREM StoreLagBounded == Spec => []LagBounded
<1>1. StoreTypes /\ LagInv => LagBounded
  <2> SUFFICES ASSUME StoreTypes, LagInv, NEW c \in Chains, ~(faults > 0),
                      ~(Len(saved[c]) < flushed[c]),
                      ~\E t \in Writers : \E i \in DOMAIN flushing[t] : flushing[t][i][1] = c
               PROVE  Len(counted[c]) - Len(saved[c]) < FlushInterval
    BY Zenon DEF LagBounded
  <2>0. faults = 0
    BY DEF StoreTypes, HistoryTypes
  <2>1. /\ Len(counted[c]) \in Nat /\ Len(saved[c]) \in Nat /\ flushed[c] \in Nat
        /\ FlushInterval \in Nat \ {0}
    BY FileStoreAssumption DEF StoreTypes, HistoryTypes
  <2>2. PICK k \in 0..Len(counted[c]) :
            k % FlushInterval = 0 /\ Len(counted[c]) - k < FlushInterval
    BY <2>1, LastFlush
  <2>3. Covered(c, k)
    BY <2>0, <2>2 DEF LagInv
  <2>4. \A t \in Writers : DOMAIN flushing[t] = 1..Len(flushing[t])
    BY DEF StoreTypes, CopyTypes
  <2>5. flushed[c] >= k
    BY <2>3, <2>4 DEF Covered
  <2> DEFINE n == Len(counted[c])
             m == Len(saved[c])
             l == flushed[c]
  <2>6. n \in Nat /\ m \in Nat /\ l \in Nat /\ k \in Nat /\ FlushInterval \in Nat
        /\ ~(m < l) /\ l >= k /\ n - k < FlushInterval
    BY <2>1, <2>2, <2>5
  <2> HIDE DEF n, m, l
  <2>7. n - m < FlushInterval
    BY <2>6
  <2> QED BY <2>7 DEF n, m
<1> QED BY <1>1, InitTypes, NextTypes, InitAccounts, NextAccounts, PTL DEF Spec

-----------------------------------------------------------------------------
(* What is read back from the files of a chain. *)

\* The outcomes in the two files of a chain, the older file first.
InFiles(c) == Outcomes(rotated[c]) \o Outcomes(active[c])

\* Outcomes in the order of their commits, each once.
InOrder(s) == \A i, j \in 1..Len(s) : i < j => s[i].step < s[j].step
\* Outcomes of s, each of which is one of t.
Among(s, t) == \A i \in 1..Len(s) : \E j \in 1..Len(t) : s[i] = t[j]
\* s is the piece of t that ends at k.
EndsAt(s, t, k) ==
  /\ Len(s) <= k /\ k <= Len(t)
  /\ \A i \in 1..Len(s) : s[i] = t[k - Len(s) + i]

NoneSpoilt(lines) == \A i \in 1..Len(lines) : lines[i] # Torn

FilesOf(c) ==
  /\ \A i \in 1..Len(log[c]) : log[c][i].step <= attempts
  /\ InOrder(log[c])
  /\ InOrder(InFiles(c)) /\ Among(InFiles(c), log[c])
  /\ faults = 0 =>
       /\ NoneSpoilt(active[c])
       /\ EndsAt(InFiles(c), log[c], Len(log[c]))
       /\ log[c] # <<>> => InFiles(c) # <<>>
       /\ \A t \in Writers : rotation = <<t, c>> => Outcomes(active[c]) # <<>>
FilesInv == \A c \in Chains : FilesOf(c)

Underway ==
  [at : {"active", "rotated", "stats"}, chain : Chains, limit : Nat \ {0},
   fresh : BOOLEAN, before : Seq(Recorded), outs : Seq(Recorded), disturbed : BOOLEAN]
Readings == {NotReading} \cup Underway

\* Where the newest of the outcomes a reader has of the active file is in the log.
ReadUpTo(r) == Len(log[r.chain]) - (Len(Outcomes(active[r.chain])) - Len(r.outs))

\* A reader that has read the active file.
HalfRead(r) ==
  r.at = "rotated" /\ ~r.disturbed =>
    /\ Prefix(r.outs, Outcomes(active[r.chain]))
    /\ faults = 0 =>
         /\ Len(r.before) <= ReadUpTo(r)
         /\ r.before # <<>> => Outcomes(rotated[r.chain]) \o r.outs # <<>>
\* A reader that has read both files, or as much as it was asked for.
Read(r) ==
  r.at = "stats" /\ ~r.disturbed =>
    /\ InOrder(r.outs) /\ Among(r.outs, log[r.chain])
    /\ faults = 0 =>
         /\ \E k \in Len(r.before)..Len(log[r.chain]) : EndsAt(r.outs, log[r.chain], k)
         /\ r.before # <<>> => r.outs # <<>>
ReadOf(r) ==
  r.at # "idle" => Prefix(r.before, log[r.chain]) /\ HalfRead(r) /\ Read(r)

ViewInv ==
  /\ FilesInv
  /\ reading \in [Readers -> Readings]
  /\ \A t \in Readers : ReadOf(reading[t])

-----------------------------------------------------------------------------
(* A file read line by line. *)

IsReading(lines, n, g) ==
  g = [i \in 0..n |-> IF i = 0 THEN <<>> ELSE Taken(g[i - 1], lines[i])]
ReadTo(lines, n) ==
  LET upto[i \in 0..n] == IF i = 0 THEN <<>> ELSE Taken(upto[i - 1], lines[i])
  IN  upto[n]

(* A file is read line by line. *)
LEMMA ReadingSteps ==
  ASSUME NEW lines, NEW n \in Nat, NEW g, IsReading(lines, n, g)
  PROVE  g[0] = <<>> /\ \A i \in 1..n : g[i] = Taken(g[i - 1], lines[i])
<1> DEFINE e(i) == IF i = 0 THEN <<>> ELSE Taken(g[i - 1], lines[i])
<1>1. g = [i \in 0..n |-> e(i)]
  BY DEF IsReading
<1>2. \A i \in 0..n : g[i] = e(i)
  <2> HIDE DEF e
  <2> QED BY <1>1
<1>3. g[0] = e(0) /\ \A i \in 1..n : g[i] = e(i) /\ i # 0
  BY <1>2
<1> QED BY <1>3

(* It can be, however many lines it has, and ReadTo is what comes out.     *)
LEMMA ReadingExists ==
  ASSUME NEW lines, NEW n \in Nat
  PROVE  \E g : IsReading(lines, n, g) /\ ReadTo(lines, n) = g[n]
<1> DEFINE S == {m \in Nat : \E g : IsReading(lines, m, g)}
<1>1. 0 \in S
  <2> DEFINE z == [i \in 0..0 |-> <<>>]
  <2>1. IsReading(lines, 0, z)
    BY DEF IsReading
  <2> QED BY <2>1
<1>2. ASSUME NEW m \in S PROVE m + 1 \in S
  <2>1. PICK g : IsReading(lines, m, g)
    OBVIOUS
  <2>2. g[0] = <<>> /\ \A i \in 1..m : g[i] = Taken(g[i - 1], lines[i])
    BY <2>1, ReadingSteps
  <2> DEFINE h == [i \in 0..(m + 1) |->
                      IF i = m + 1 THEN Taken(g[m], lines[m + 1]) ELSE g[i]]
             e(i) == IF i = 0 THEN <<>> ELSE Taken(h[i - 1], lines[i])
  <2>3. ASSUME NEW i \in 0..(m + 1) PROVE h[i] = e(i)
    <3>1. CASE i = 0
      BY <2>2, <3>1
    <3>2. CASE i = m + 1
      <4>1. i - 1 = m /\ h[m] = g[m] /\ i # 0
        BY <3>2
      <4> QED BY <3>2, <4>1
    <3>3. CASE i # 0 /\ i # m + 1
      <4>1. i \in 1..m /\ i - 1 \in 0..(m + 1) /\ i - 1 # m + 1
        BY <3>3
      <4>2. h[i] = g[i] /\ h[i - 1] = g[i - 1]
        BY <3>3, <4>1
      <4> QED BY <2>2, <3>3, <4>1, <4>2
    <3> QED BY <3>1, <3>2, <3>3
  <2>4. h = [i \in 0..(m + 1) |-> e(i)]
    <3>1. h = [i \in 0..(m + 1) |-> h[i]]
      OBVIOUS
    <3> HIDE DEF h, e
    <3> QED BY <2>3, <3>1
  <2>5. IsReading(lines, m + 1, h)
    BY <2>4 DEF IsReading
  <2> QED BY <2>5
<1>3. S = Nat
  <2> HIDE DEF S
  <2>1. S \in SUBSET Nat
    BY DEF S
  <2> QED BY <1>1, <1>2, <2>1, SetInduction
<1>4. \E g : IsReading(lines, n, g)
  <2> HIDE DEF S
  <2>1. n \in S
    BY <1>3
  <2> QED BY <2>1 DEF S
<1> DEFINE w == CHOOSE g : IsReading(lines, n, g)
<1>5. IsReading(lines, n, w)
  BY <1>4
<1>6. ReadTo(lines, n) = w[n]
  BY Zenon DEF ReadTo, IsReading
<1> QED BY <1>5, <1>6

Skipped(a, b) == a.step = 0 /\ b.step = 0
SameUpTo(a, b, n) == \A i \in 1..n : a[i] = b[i] \/ Skipped(a[i], b[i])

(* Files whose lines are the same, but for some that both skip, are read   *)
(* as the same outcomes.                                                   *)
LEMMA ReadSame ==
  ASSUME NEW a, NEW b, NEW n \in Nat, NEW m \in Nat, n <= m, SameUpTo(a, b, n),
         NEW g, IsReading(a, n, g), NEW h, IsReading(b, m, h)
  PROVE  g[n] = h[n]
<1>1. g[0] = <<>> /\ \A i \in 1..n : g[i] = Taken(g[i - 1], a[i])
  BY ReadingSteps
<1>2. h[0] = <<>> /\ \A i \in 1..m : h[i] = Taken(h[i - 1], b[i])
  BY ReadingSteps
<1> DEFINE S == {i \in Nat : i <= n => g[i] = h[i]}
<1>3. 0 \in S
  BY <1>1, <1>2
<1>4. ASSUME NEW i \in S PROVE i + 1 \in S
  <2> SUFFICES ASSUME i + 1 <= n PROVE g[i + 1] = h[i + 1]
    OBVIOUS
  <2>1. i \in Nat /\ g[i] = h[i] /\ i + 1 \in 1..n /\ i + 1 \in 1..m /\ (i + 1) - 1 = i
    OBVIOUS
  <2>2. g[i + 1] = Taken(g[i], a[i + 1]) /\ h[i + 1] = Taken(g[i], b[i + 1])
    BY <1>1, <1>2, <2>1
  <2>3. a[i + 1] = b[i + 1] \/ Skipped(a[i + 1], b[i + 1])
    BY <2>1 DEF SameUpTo
  <2> QED BY <2>2, <2>3 DEF Skipped, Taken
<1>5. S = Nat
  <2> HIDE DEF S
  <2>1. S \in SUBSET Nat
    BY DEF S
  <2> QED BY <1>3, <1>4, <2>1, SetInduction
<1> QED BY <1>5

(* One line more.                                                          *)
LEMMA ReadToSteps ==
  ASSUME NEW a, NEW b, NEW n \in Nat, SameUpTo(a, b, n)
  PROVE  /\ ReadTo(a, 0) = <<>>
         /\ ReadTo(b, n) = ReadTo(a, n)
         /\ ReadTo(b, n + 1) = Taken(ReadTo(a, n), b[n + 1])
<1>1. PICK z : IsReading(a, 0, z) /\ ReadTo(a, 0) = z[0]
  BY ReadingExists
<1>2. z[0] = <<>>
  BY <1>1, ReadingSteps
<1>3. PICK g : IsReading(a, n, g) /\ ReadTo(a, n) = g[n]
  BY ReadingExists
<1>4. PICK h : IsReading(b, n, h) /\ ReadTo(b, n) = h[n]
  BY ReadingExists
<1>5. PICK k \in Nat : k = n + 1
  OBVIOUS
<1>6. PICK f : IsReading(b, k, f) /\ ReadTo(b, k) = f[k]
  BY ReadingExists
<1>7. g[n] = h[n]
  <2>1. n <= n
    OBVIOUS
  <2> QED BY <1>3, <1>4, <2>1, ReadSame
<1>8. g[n] = f[n]
  <2>1. n <= k
    BY <1>5
  <2> QED BY <1>3, <1>6, <2>1, ReadSame
<1>9. f[k] = Taken(f[n], b[k])
  <2>1. \A i \in 1..k : f[i] = Taken(f[i - 1], b[i])
    BY <1>6, ReadingSteps
  <2>2. k \in 1..k /\ k - 1 = n
    BY <1>5
  <2> QED BY <2>1, <2>2
<1> QED BY <1>1, <1>2, <1>3, <1>4, <1>5, <1>6, <1>7, <1>8, <1>9

(* What is read from a file are outcomes.                                  *)
LEMMA OutcomesTypes ==
  ASSUME NEW lines \in Seq(Line)
  PROVE  Outcomes(lines) \in Seq(Recorded)
<1> DEFINE n == Len(lines)
           S == {m \in Nat : m <= n => ReadTo(lines, m) \in Seq(Recorded)}
<1>0. n \in Nat /\ \A i \in 1..n : lines[i] \in Line
  OBVIOUS
<1>1. \A m \in Nat : SameUpTo(lines, lines, m)
  BY DEF SameUpTo
<1>2. 0 \in S
  <2>1. ReadTo(lines, 0) = <<>>
    BY <1>1, ReadToSteps
  <2>2. <<>> \in Seq(Recorded)
    OBVIOUS
  <2> QED BY <2>1, <2>2
<1>3. ASSUME NEW m \in S PROVE m + 1 \in S
  <2> SUFFICES ASSUME m + 1 <= n PROVE ReadTo(lines, m + 1) \in Seq(Recorded)
    OBVIOUS
  <2>1. m \in Nat /\ ReadTo(lines, m) \in Seq(Recorded) /\ lines[m + 1] \in Line
    BY <1>0
  <2>2. ReadTo(lines, m + 1) = Taken(ReadTo(lines, m), lines[m + 1])
    BY <1>1, <2>1, ReadToSteps
  <2>3. lines[m + 1].step = 0 \/ lines[m + 1] \in Recorded
    BY <2>1 DEF Line, Torn, Corrupt
  <2> DEFINE outs == ReadTo(lines, m)
             line == lines[m + 1]
  <2>4. outs \in Seq(Recorded) /\ (line.step = 0 \/ line \in Recorded)
    BY <2>1, <2>3
  <2>5. ReadTo(lines, m + 1) = Taken(outs, line)
    BY <2>2
  <2> HIDE DEF outs, line
  <2>6. Taken(outs, line) \in Seq(Recorded)
    BY <2>4, AppendProperties DEF Taken
  <2> QED BY <2>5, <2>6
<1>4. S = Nat
  <2> HIDE DEF S
  <2>1. S \in SUBSET Nat
    BY DEF S
  <2> QED BY <1>2, <1>3, <2>1, SetInduction
<1>5. Outcomes(lines) = ReadTo(lines, n)
  BY Zenon DEF Outcomes, ReadTo
<1> QED BY <1>0, <1>4, <1>5

(* A line that is appended can be read unless it runs into a torn one; the *)
(* outcomes before it are read as before (commit: open(path, "a")).        *)
LEMMA OutcomesAppended ==
  ASSUME NEW lines \in Seq(Line), NEW line \in Line
  PROVE  /\ Outcomes(<<>>) = <<>>
         /\ lines # <<>> /\ Last(lines) = Torn =>
              Outcomes(AppendedLine(lines, line)) = Outcomes(lines)
         /\ ~(lines # <<>> /\ Last(lines) = Torn) =>
              Outcomes(AppendedLine(lines, line)) = Taken(Outcomes(lines), line)
<1> DEFINE n == Len(lines)
<1>1. \A s : Outcomes(s) = ReadTo(s, Len(s))
  BY Zenon DEF Outcomes, ReadTo
<1>2. Outcomes(<<>>) = <<>>
  <2>1. \A a : SameUpTo(a, a, 0)
    BY DEF SameUpTo
  <2>2. \A a : ReadTo(a, 0) = <<>>
    BY <2>1, ReadToSteps
  <2> QED BY <1>1, <2>2
<1>3. ASSUME lines # <<>>, Last(lines) = Torn
      PROVE  Outcomes(AppendedLine(lines, line)) = Outcomes(lines)
  <2> DEFINE end == IF line = Torn THEN Torn ELSE Corrupt
             spoilt == [lines EXCEPT ![Len(lines)] = end]
  <2>1. end \in Line /\ Torn.step = 0 /\ end.step = 0
    BY DEF Line, Torn, Corrupt
  <2>3. AppendedLine(lines, line) = spoilt
    BY <1>3 DEF AppendedLine
  <2> HIDE DEF end
  <2>2. /\ Len(spoilt) = n /\ n \in Nat \ {0} /\ spoilt[n] = end /\ lines[n] = Torn
        /\ \A i \in 1..n - 1 : spoilt[i] = lines[i]
    BY <1>3, <2>1 DEF Last
  <2> HIDE DEF spoilt
  <2>4. SameUpTo(lines, spoilt, n)
    <3> SUFFICES ASSUME NEW i \in 1..n
                 PROVE  lines[i] = spoilt[i] \/ Skipped(lines[i], spoilt[i])
      BY DEF SameUpTo
    <3>1. CASE i = n
      BY <2>1, <2>2, <3>1 DEF Skipped
    <3>2. CASE i # n
      BY <2>2, <3>2
    <3> QED BY <3>1, <3>2
  <2>5. n \in Nat
    BY <2>2
  <2>6. ReadTo(spoilt, n) = ReadTo(lines, n)
    BY <2>4, <2>5, ReadToSteps, Zenon
  <2> QED BY <1>1, <2>2, <2>3, <2>6
<1>4. ASSUME ~(lines # <<>> /\ Last(lines) = Torn)
      PROVE  Outcomes(AppendedLine(lines, line)) = Taken(Outcomes(lines), line)
  <2> DEFINE more == Append(lines, line)
  <2>1. /\ Len(more) = n + 1 /\ n \in Nat /\ more[n + 1] = line
        /\ \A i \in 1..n : more[i] = lines[i]
    OBVIOUS
  <2>2. AppendedLine(lines, line) = more
    BY <1>4 DEF AppendedLine
  <2> HIDE DEF more
  <2>3. SameUpTo(lines, more, n)
    BY <2>1 DEF SameUpTo
  <2>4. n \in Nat
    BY <2>1
  <2>5. ReadTo(more, n + 1) = Taken(ReadTo(lines, n), more[n + 1])
    BY <2>3, <2>4, ReadToSteps, Zenon
  <2> QED BY <1>1, <2>1, <2>2, <2>5
<1> QED BY <1>2, <1>3, <1>4

-----------------------------------------------------------------------------
(* Pieces of sequences of outcomes. *)

(* The two parts of a sequence put together, and one element more.         *)
LEMMA Together ==
  ASSUME NEW s \in Seq(Recorded), NEW t \in Seq(Recorded)
  PROVE  /\ s \o t \in Seq(Recorded)
         /\ Len(s) \in Nat /\ Len(t) \in Nat /\ Len(s \o t) = Len(s) + Len(t)
         /\ \A i \in 1..Len(s) : (s \o t)[i] = s[i]
         /\ \A i \in 1..Len(t) : (s \o t)[Len(s) + i] = t[i]
         /\ \A o \in Recorded : s \o Append(t, o) = Append(s \o t, o)
         /\ <<>> \o t = t /\ s \o <<>> = s
         /\ EndsAt(t, s \o t, Len(s \o t))
<1>1. Len(s) \in Nat /\ Len(t) \in Nat
  OBVIOUS
<1>2. /\ s \o t \in Seq(Recorded) /\ Len(s \o t) = Len(s) + Len(t)
      /\ \A i \in 1..Len(s) + Len(t) :
           (s \o t)[i] = IF i <= Len(s) THEN s[i] ELSE t[i - Len(s)]
  BY ConcatProperties
<1>3. \A i \in 1..Len(s) : (s \o t)[i] = s[i]
  BY <1>1, <1>2
<1>4. \A i \in 1..Len(t) : (s \o t)[Len(s) + i] = t[i]
  <2> SUFFICES ASSUME NEW i \in 1..Len(t) PROVE (s \o t)[Len(s) + i] = t[i]
    OBVIOUS
  <2>1. PICK j \in Nat : j = Len(s) + i
    BY <1>1
  <2>2. j \in 1..Len(s) + Len(t) /\ ~(j <= Len(s)) /\ j - Len(s) = i
    BY <1>1, <2>1
  <2> QED BY <1>2, <2>1, <2>2
<1>5. ASSUME NEW o \in Recorded PROVE s \o Append(t, o) = Append(s \o t, o)
  <2>1. <<o>> \in Seq(Recorded)
    OBVIOUS
  <2>2. Append(t, o) = t \o <<o>> /\ Append(s \o t, o) = (s \o t) \o <<o>>
    BY <1>2, AppendIsConcat
  <2> QED BY <2>1, <2>2, ConcatAssociative
<1>6. <<>> \o t = t /\ s \o <<>> = s
  BY ConcatEmptySeq
<1>7. EndsAt(t, s \o t, Len(s \o t))
  <2> DEFINE k == Len(s \o t)
  <2>1. k = Len(s) + Len(t) /\ k - Len(t) = Len(s)
    BY <1>1, <1>2
  <2>2. Len(t) <= k /\ k <= k
    BY <1>1, <2>1
  <2>3. \A i \in 1..Len(t) : t[i] = (s \o t)[k - Len(t) + i]
    BY <1>4, <2>1
  <2> QED BY <2>2, <2>3 DEF EndsAt
<1> QED BY <1>1, <1>2, <1>3, <1>4, <1>5, <1>6, <1>7

(* A piece of a sequence in order is in order, and a piece of the same     *)
(* sequences.                                                              *)
LEMMA PieceOfPiece ==
  ASSUME NEW u \in Seq(Recorded), NEW s \in Seq(Recorded), NEW t \in Seq(Recorded),
         NEW j \in Int, EndsAt(u, s, j)
  PROVE  /\ InOrder(s) => InOrder(u)
         /\ Among(s, t) => Among(u, t)
         /\ \A k \in Int : EndsAt(s, t, k) => EndsAt(u, t, k - Len(s) + j)
<1> DEFINE d == j - Len(u)
<1>1. Len(u) \in Nat /\ Len(s) \in Nat /\ Len(t) \in Nat /\ Len(u) <= j /\ j <= Len(s)
  BY DEF EndsAt
<1>2. d \in Nat /\ \A i \in 1..Len(u) : d + i \in 1..Len(s) /\ u[i] = s[d + i]
  <2>1. d \in Nat /\ \A i \in 1..Len(u) : d + i \in 1..Len(s)
    BY <1>1
  <2>2. \A i \in 1..Len(u) : u[i] = s[d + i]
    BY DEF EndsAt
  <2> QED BY <2>1, <2>2
<1> HIDE DEF d
<1>3. ASSUME InOrder(s) PROVE InOrder(u)
  <2> SUFFICES ASSUME NEW i \in 1..Len(u), NEW k \in 1..Len(u), i < k
               PROVE  u[i].step < u[k].step
    BY DEF InOrder
  <2>1. d + i \in 1..Len(s) /\ d + k \in 1..Len(s) /\ d + i < d + k
    BY <1>1, <1>2
  <2>2. s[d + i].step < s[d + k].step
    BY <1>3, <2>1 DEF InOrder
  <2> QED BY <1>2, <2>2
<1>4. ASSUME Among(s, t) PROVE Among(u, t)
  <2> SUFFICES ASSUME NEW i \in 1..Len(u) PROVE \E k \in 1..Len(t) : u[i] = t[k]
    BY DEF Among
  <2>1. d + i \in 1..Len(s) /\ u[i] = s[d + i]
    BY <1>2
  <2> QED BY <1>4, <2>1 DEF Among
<1>5. ASSUME NEW k \in Int, EndsAt(s, t, k) PROVE EndsAt(u, t, k - Len(s) + j)
  <2> DEFINE e == k - Len(s) + j
             n == Len(s)
  <2>1. n <= k /\ k <= Len(t) /\ \A i \in 1..n : s[i] = t[k - n + i]
    BY <1>5 DEF EndsAt
  <2>2. Len(u) <= e /\ e <= Len(t) /\ e \in Int
    BY <1>1, <2>1
  <2>3. ASSUME NEW i \in 1..Len(u) PROVE u[i] = t[e - Len(u) + i]
    <3>1. d + i \in 1..n /\ u[i] = s[d + i]
      BY <1>2
    <3>2. k - n + (d + i) = e - Len(u) + i
      BY <1>1, <1>2 DEF d
    <3>3. s[d + i] = t[k - n + (d + i)]
      BY <2>1, <3>1
    <3> QED BY <3>1, <3>2, <3>3
  <2> HIDE DEF e
  <2>4. EndsAt(u, t, e)
    BY <2>2, <2>3 DEF EndsAt
  <2> QED BY <2>4 DEF e
<1> QED BY <1>3, <1>4, <1>5

(* A sequence that gets one newer outcome.                                 *)
LEMMA OneMore ==
  ASSUME NEW s \in Seq(Recorded), NEW t \in Seq(Recorded), NEW o \in Recorded,
         Among(s, t), \A i \in 1..Len(t) : t[i].step < o.step
  PROVE  /\ InOrder(s) => InOrder(Append(s, o))
         /\ Among(Append(s, o), Append(t, o))
         /\ EndsAt(s, t, Len(t)) => EndsAt(Append(s, o), Append(t, o), Len(t) + 1)
<1> DEFINE s1 == Append(s, o)
           t1 == Append(t, o)
<1>1. /\ Len(s) \in Nat /\ Len(t) \in Nat /\ Len(s1) = Len(s) + 1 /\ Len(t1) = Len(t) + 1
      /\ s1[Len(s) + 1] = o /\ t1[Len(t) + 1] = o
      /\ \A i \in 1..Len(s) : s1[i] = s[i]
      /\ \A i \in 1..Len(t) : t1[i] = t[i]
  OBVIOUS
<1> HIDE DEF s1, t1
<1>2. ASSUME NEW i \in 1..Len(s1)
      PROVE  (i = Len(s) + 1 /\ s1[i] = o) \/ (i \in 1..Len(s) /\ s1[i] = s[i])
  <2>1. CASE i = Len(s) + 1
    BY <1>1, <2>1, Zenon
  <2>2. CASE i # Len(s) + 1
    <3>1. i \in 1..Len(s)
      BY <1>1, <2>2
    <3> QED BY <1>1, <3>1
  <2> QED BY <2>1, <2>2
<1>3. ASSUME InOrder(s) PROVE InOrder(s1)
  <2> SUFFICES ASSUME NEW i \in 1..Len(s1), NEW k \in 1..Len(s1), i < k
               PROVE  s1[i].step < s1[k].step
    BY DEF InOrder
  <2>1. i \in 1..Len(s) /\ s1[i] = s[i]
    BY <1>1, <1>2
  <2>2. CASE k = Len(s) + 1 /\ s1[k] = o
    <3>1. PICK m \in 1..Len(t) : s[i] = t[m]
      BY <2>1 DEF Among
    <3> QED BY <2>1, <2>2, <3>1
  <2>3. CASE k \in 1..Len(s) /\ s1[k] = s[k]
    BY <1>3, <2>1, <2>3 DEF InOrder
  <2> QED BY <1>2, <2>2, <2>3
<1>4. Among(s1, t1)
  <2> SUFFICES ASSUME NEW i \in 1..Len(s1) PROVE \E k \in 1..Len(t1) : s1[i] = t1[k]
    BY DEF Among
  <2>1. CASE i = Len(s) + 1 /\ s1[i] = o
    <3>1. Len(t) + 1 \in 1..Len(t1)
      BY <1>1
    <3> QED BY <1>1, <2>1, <3>1
  <2>2. CASE i \in 1..Len(s) /\ s1[i] = s[i]
    <3>1. PICK m \in 1..Len(t) : s[i] = t[m]
      BY <2>2 DEF Among
    <3>2. m \in 1..Len(t1) /\ t1[m] = t[m]
      BY <1>1
    <3> QED BY <2>2, <3>1, <3>2
  <2> QED BY <1>2, <2>1, <2>2
<1>5. ASSUME EndsAt(s, t, Len(t)) PROVE EndsAt(s1, t1, Len(t) + 1)
  <2>1. Len(s) <= Len(t) /\ \A i \in 1..Len(s) : s[i] = t[Len(t) - Len(s) + i]
    BY <1>5 DEF EndsAt
  <2>2. ASSUME NEW i \in 1..Len(s1) PROVE s1[i] = t1[(Len(t) + 1) - Len(s1) + i]
    <3>1. (Len(t) + 1) - Len(s1) + i = Len(t) - Len(s) + i
      BY <1>1
    <3>2. CASE i = Len(s) + 1 /\ s1[i] = o
      <4>1. Len(t) - Len(s) + i = Len(t) + 1
        BY <1>1, <3>2
      <4> QED BY <1>1, <3>1, <3>2, <4>1
    <3>3. CASE i \in 1..Len(s) /\ s1[i] = s[i]
      <4>1. Len(t) - Len(s) + i \in 1..Len(t)
        BY <1>1, <2>1, <3>3
      <4> QED BY <1>1, <2>1, <3>1, <3>3, <4>1
    <3> QED BY <1>2, <3>2, <3>3
  <2>3. Len(s1) <= Len(t) + 1 /\ Len(t) + 1 <= Len(t1)
    BY <1>1, <2>1
  <2> QED BY <2>2, <2>3 DEF EndsAt
<1> QED BY <1>3, <1>4, <1>5 DEF s1, t1

(* What was among the outcomes, or a piece of them, stays so when they get *)
(* one more.                                                               *)
LEMMA StillAmong ==
  ASSUME NEW s \in Seq(Recorded), NEW t \in Seq(Recorded), NEW o \in Recorded
  PROVE  /\ Among(s, t) => Among(s, Append(t, o))
         /\ \A k \in Int : EndsAt(s, t, k) => EndsAt(s, Append(t, o), k)
         /\ Among(s, s)
<1> DEFINE t1 == Append(t, o)
<1>1. /\ Len(s) \in Nat /\ Len(t) \in Nat /\ Len(t1) = Len(t) + 1
      /\ \A i \in 1..Len(t) : t1[i] = t[i]
  OBVIOUS
<1> HIDE DEF t1
<1>2. ASSUME Among(s, t) PROVE Among(s, t1)
  <2> SUFFICES ASSUME NEW i \in 1..Len(s) PROVE \E k \in 1..Len(t1) : s[i] = t1[k]
    BY DEF Among
  <2>1. PICK m \in 1..Len(t) : s[i] = t[m]
    BY <1>2 DEF Among
  <2>2. m \in 1..Len(t1) /\ t1[m] = t[m]
    BY <1>1
  <2> QED BY <2>1, <2>2
<1>3. ASSUME NEW k \in Int, EndsAt(s, t, k) PROVE EndsAt(s, t1, k)
  <2>1. Len(s) <= k /\ k <= Len(t) /\ \A i \in 1..Len(s) : s[i] = t[k - Len(s) + i]
    BY <1>3 DEF EndsAt
  <2>2. \A i \in 1..Len(s) : k - Len(s) + i \in 1..Len(t)
    BY <1>1, <2>1
  <2>3. \A i \in 1..Len(s) : s[i] = t1[k - Len(s) + i]
    BY <1>1, <2>1, <2>2
  <2>4. k <= Len(t1)
    BY <1>1, <2>1
  <2> QED BY <2>1, <2>3, <2>4 DEF EndsAt
<1>4. Among(s, s)
  BY DEF Among
<1> QED BY <1>2, <1>3, <1>4 DEF t1

-----------------------------------------------------------------------------
(* The files hold a piece of what was committed. *)

(* What is read of the files of a chain are outcomes.                      *)
LEMMA FilesTypes ==
  ASSUME StoreTypes, NEW c \in Chains
  PROVE  /\ active[c] \in Seq(Line) /\ rotated[c] \in Seq(Line)
         /\ log[c] \in Seq(Recorded) /\ Len(log[c]) \in Nat
         /\ Outcomes(active[c]) \in Seq(Recorded)
         /\ Outcomes(rotated[c]) \in Seq(Recorded)
         /\ InFiles(c) \in Seq(Recorded)
<1>1. active[c] \in Seq(Line) /\ rotated[c] \in Seq(Line) /\ log[c] \in Seq(Recorded)
  BY DEF StoreTypes, FileTypes, HistoryTypes
<1>2. Outcomes(active[c]) \in Seq(Recorded) /\ Outcomes(rotated[c]) \in Seq(Recorded)
  BY <1>1, OutcomesTypes
<1>3. InFiles(c) \in Seq(Recorded)
  BY <1>2, Together DEF InFiles
<1>4. Len(log[c]) \in Nat
  BY <1>1
<1> QED BY <1>1, <1>2, <1>3, <1>4

\* A step that leaves the files of a chain alone.
SameFiles(c) ==
  /\ active'[c] = active[c] /\ rotated'[c] = rotated[c] /\ log'[c] = log[c]
  /\ attempts' >= attempts
  /\ faults' = 0 => faults = 0

(* Such a step keeps what is known of them.                                *)
LEMMA FilesSame ==
  ASSUME StoreTypes, NEW c \in Chains, FilesOf(c), SameFiles(c), attempts' \in Nat,
         \A t \in Writers : rotation' = <<t, c>> => rotation = <<t, c>>
  PROVE  FilesOf(c)'
<1>1. InFiles(c)' = InFiles(c)
  BY DEF SameFiles, InFiles
<1>2. \A i \in 1..Len(log[c]) : log[c][i].step <= attempts'
  <2>1. \A i \in 1..Len(log[c]) : log[c][i] \in Recorded
    BY FilesTypes
  <2>2. \A i \in 1..Len(log[c]) : log[c][i].step \in Nat
    BY <2>1 DEF Recorded
  <2> QED BY <2>2 DEF FilesOf, SameFiles, StoreTypes, HistoryTypes
<1> QED BY <1>1, <1>2, Zenon DEF FilesOf, SameFiles

\* The line of a commit: what it makes of the files of a chain.
LineAdded(c, o) ==
  /\ o \in Recorded /\ o.step = attempts + 1
  /\ active' = [active EXCEPT ![c] = AppendedLine(active[c], o)]
  /\ rotated' = rotated
  /\ log' = [log EXCEPT ![c] = Append(log[c], o)]
  /\ attempts' = attempts + 1 /\ faults' = faults

(* A commit writes one line, numbered by the attempts.                     *)
LEMMA CommitLine ==
  ASSUME StoreTypes, NEW t \in Writers, NEW c \in Chains, Commit(t, c)
  PROVE  /\ \E o : LineAdded(c, o)
         /\ rotation' \in {<<t, c>>, <<>>} /\ reading' = reading
<1> DEFINE o == Outcome(attempts + 1)
<1>1. attempts \in Nat /\ attempts < MaxCommits
  BY DEF Commit, StoreTypes, HistoryTypes
<1>2. o \in Recorded
  BY <1>1, OutcomeTypes
<1>3. o.step = attempts + 1
  BY DEF Outcome
<1>4. /\ active' = [active EXCEPT ![c] = AppendedLine(active[c], o)]
      /\ log' = [log EXCEPT ![c] = Append(log[c], o)]
      /\ UNCHANGED <<rotated, reading, faults>> /\ attempts' = attempts + 1
  BY Zenon DEF Commit
<1>5. rotation' \in {<<t, c>>, <<>>}
  BY DEF Commit
<1> HIDE DEF o
<1>6. LineAdded(c, o)
  BY <1>2, <1>3, <1>4, Zenon DEF LineAdded
<1> QED BY <1>4, <1>5, <1>6, Zenon

(* The outcome of a commit can be read after the others, unless its line   *)
(* ran into a torn one.                                                    *)
LEMMA CommitReadable ==
  ASSUME StoreTypes, NEW c \in Chains, FilesOf(c), NEW o, LineAdded(c, o)
  PROVE  /\ o \in Recorded /\ log'[c] = Append(log[c], o)
         /\ rotated'[c] = rotated[c]
         /\ \/ Outcomes(active'[c]) = Append(Outcomes(active[c]), o)
            \/ Outcomes(active'[c]) = Outcomes(active[c]) /\ faults # 0
         /\ faults = 0 => NoneSpoilt(active'[c])
         /\ \A i \in 1..Len(log[c]) : log[c][i].step < o.step
<1> DEFINE lines == active[c]
           spoilt == lines # <<>> /\ Last(lines) = Torn
<1>1. /\ lines \in Seq(Line) /\ o \in Recorded /\ o \in Line
      /\ active'[c] = AppendedLine(lines, o) /\ rotated'[c] = rotated[c]
      /\ log'[c] = Append(log[c], o)
  BY FilesTypes DEF LineAdded, StoreTypes, FileTypes, HistoryTypes, Line
<1>2. Taken(Outcomes(lines), o) = Append(Outcomes(lines), o)
  BY <1>1 DEF Taken, Recorded
<1>3. spoilt => faults # 0
  <2>1. NoneSpoilt(lines) => ~spoilt
    <3>1. lines # <<>> => Len(lines) \in 1..Len(lines)
      BY <1>1
    <3> QED BY <3>1 DEF NoneSpoilt, Last
  <2> QED BY <2>1 DEF FilesOf
<1>4. \/ Outcomes(active'[c]) = Append(Outcomes(lines), o)
      \/ Outcomes(active'[c]) = Outcomes(lines) /\ faults # 0
  BY <1>1, <1>2, <1>3, OutcomesAppended
<1>5. ASSUME faults = 0 PROVE NoneSpoilt(active'[c])
  <2>1. active'[c] = Append(lines, o) /\ NoneSpoilt(lines) /\ o # Torn
    BY <1>1, <1>3, <1>5, LinesDiffer DEF AppendedLine, FilesOf
  <2>2. \A i \in 1..Len(lines) + 1 : Append(lines, o)[i] # Torn
    BY <1>1, <2>1 DEF NoneSpoilt
  <2> QED BY <1>1, <2>1, <2>2 DEF NoneSpoilt
<1>6. \A i \in 1..Len(log[c]) : log[c][i].step < o.step
  <2> SUFFICES ASSUME NEW i \in 1..Len(log[c]) PROVE log[c][i].step < o.step
    OBVIOUS
  <2>1. log[c][i] \in Recorded
    BY FilesTypes
  <2>2. log[c][i].step \in Nat
    BY <2>1 DEF Recorded
  <2>3. log[c][i].step <= attempts /\ attempts \in Nat /\ o.step = attempts + 1
    BY DEF FilesOf, LineAdded, StoreTypes, HistoryTypes
  <2> QED BY <2>2, <2>3
<1> QED BY <1>1, <1>4, <1>5, <1>6

(* A commit keeps the files a piece of the log, with its outcome at their  *)
(* end while no line was torn.                                             *)
LEMMA CommitKeepsFiles ==
  ASSUME StoreTypes, FilesInv, NEW t \in Writers, NEW c \in Chains, Commit(t, c)
  PROVE  FilesInv'
<1>1. PICK o : LineAdded(c, o)
  BY CommitLine
<1>2. rotation' \in {<<t, c>>, <<>>}
  BY CommitLine
<1> SUFFICES ASSUME NEW d \in Chains PROVE FilesOf(d)'
  BY DEF FilesInv
<1>3. FilesOf(d) /\ FilesOf(c) /\ attempts \in Nat
  BY DEF FilesInv, StoreTypes, HistoryTypes
<1>4. CASE d # c
  <2>1. SameFiles(d) /\ attempts' \in Nat
    BY <1>1, <1>3, <1>4 DEF LineAdded, SameFiles, StoreTypes, FileTypes, HistoryTypes
  <2>2. \A u \in Writers : rotation' # <<u, d>>
    BY <1>2, <1>4
  <2> QED BY <1>3, <2>1, <2>2, FilesSame
<1>5. CASE d = c
  <2>0. /\ o \in Recorded /\ log'[c] = Append(log[c], o) /\ rotated'[c] = rotated[c]
        /\ \/ Outcomes(active'[c]) = Append(Outcomes(active[c]), o)
           \/ Outcomes(active'[c]) = Outcomes(active[c]) /\ faults # 0
        /\ faults = 0 => NoneSpoilt(active'[c])
        /\ \A i \in 1..Len(log[c]) : log[c][i].step < o.step
    <3> HIDE <1>5
    <3> QED BY <1>1, <1>3, CommitReadable
  <2> DEFINE A == Outcomes(active[c])
             B == Outcomes(active'[c])
             R == Outcomes(rotated[c])
             L == log[c]
             M == log'[c]
             H == R \o A
             G == R \o B
  <2>1. A \in Seq(Recorded) /\ R \in Seq(Recorded) /\ L \in Seq(Recorded)
        /\ H \in Seq(Recorded) /\ Len(L) \in Nat
    BY FilesTypes DEF InFiles
  <2>2. /\ o \in Recorded /\ M = Append(L, o) /\ rotated'[c] = rotated[c]
        /\ B = Append(A, o) \/ (B = A /\ faults # 0)
        /\ faults = 0 => NoneSpoilt(active'[c])
        /\ \A i \in 1..Len(L) : L[i].step < o.step
    BY <2>0
  <2>3. /\ \A i \in 1..Len(L) : L[i].step <= attempts
        /\ InOrder(L) /\ InOrder(H) /\ Among(H, L)
        /\ faults = 0 => EndsAt(H, L, Len(L))
    BY <1>3 DEF FilesOf, InFiles
  <2>4. InFiles(c)' = G /\ faults' = faults /\ attempts' = attempts + 1 /\ o.step = attempts + 1
    BY <1>1, <2>2 DEF InFiles, LineAdded
  <2> HIDE DEF A, B, R, L, M, H, G
  <2>5. InOrder(M) /\ \A i \in 1..Len(M) : M[i].step <= attempts'
    <3>1. Among(L, L)
      BY <2>1, <2>2, StillAmong
    <3>2. InOrder(M)
      BY <2>1, <2>2, <2>3, <3>1, OneMore
    <3>3. Len(M) = Len(L) + 1 /\ M[Len(L) + 1] = o /\ \A i \in 1..Len(L) : M[i] = L[i]
      BY <2>1, <2>2
    <3>4. ASSUME NEW i \in 1..Len(M) PROVE M[i].step <= attempts'
      <4>1. CASE i = Len(L) + 1
        BY <1>3, <2>4, <3>3, <4>1
      <4>2. CASE i # Len(L) + 1
        <5>1. i \in 1..Len(L)
          BY <2>1, <3>3, <4>2
        <5>2. L[i] \in Recorded
          BY <2>1, <5>1
        <5>3. L[i].step \in Nat
          BY <5>2 DEF Recorded
        <5> QED BY <1>3, <2>3, <2>4, <3>3, <5>1, <5>3
      <4> QED BY <4>1, <4>2
    <3> QED BY <3>2, <3>4
  <2>6. CASE B = Append(A, o)
    <3>1. G = Append(H, o)
      BY <2>1, <2>2, <2>6, Together DEF G, H
    <3>2. /\ InOrder(G) /\ Among(G, M)
          /\ EndsAt(H, L, Len(L)) => EndsAt(G, M, Len(L) + 1)
      BY <2>1, <2>2, <2>3, <3>1, OneMore
    <3>3. G # <<>> /\ B # <<>> /\ Len(M) = Len(L) + 1
      BY <2>1, <2>2, <2>6, <3>1, AppendProperties
    <3>4. faults' = 0 =>
            NoneSpoilt(active'[c]) /\ EndsAt(G, M, Len(M)) /\ G # <<>> /\ B # <<>>
      BY <2>2, <2>3, <2>4, <3>2, <3>3
    <3> QED BY <1>5, <2>4, <2>5, <3>2, <3>4, Zenon DEF FilesOf, G, B, M
  <2>7. CASE B = A /\ faults # 0
    <3>1. G = H
      BY <2>7 DEF G, H
    <3>2. Among(G, M)
      BY <2>1, <2>2, <2>3, <3>1, StillAmong
    <3>3. faults' # 0
      BY <2>4, <2>7
    <3> QED BY <1>5, <2>3, <2>4, <2>5, <3>1, <3>2, <3>3, Zenon DEF FilesOf, G, M
  <2> QED BY <2>2, <2>6, <2>7
<1> QED BY <1>4, <1>5

(* A line that fails is not read, nor one that it may have run into.       *)
LEMMA AppendFailsReadable ==
  ASSUME StoreTypes, NEW t \in Writers, NEW c \in Chains, AppendFails(t, c), NEW d \in Chains
  PROVE  /\ Outcomes(active'[d]) = Outcomes(active[d])
         /\ rotated' = rotated /\ log' = log /\ rotation' = rotation /\ reading' = reading
         /\ attempts' = attempts + 1 /\ faults' \in Nat /\ faults' # 0
<1>1. \/ active' = active
      \/ active' = [active EXCEPT ![c] = AppendedLine(active[c], Torn)]
  BY DEF AppendFails
<1>2. /\ rotated' = rotated /\ log' = log /\ rotation' = rotation /\ reading' = reading
      /\ attempts' = attempts + 1 /\ faults' = faults + 1
  BY DEF AppendFails, history
<1>3. faults' \in Nat /\ faults' # 0
  BY <1>2 DEF StoreTypes, HistoryTypes
<1>4. Outcomes(AppendedLine(active[c], Torn)) = Outcomes(active[c])
  <2>1. active[c] \in Seq(Line) /\ Torn \in Line
    BY FilesTypes DEF Line
  <2>2. Taken(Outcomes(active[c]), Torn) = Outcomes(active[c])
    BY DEF Taken, Torn
  <2> QED BY <2>1, <2>2, OutcomesAppended
<1>5. Outcomes(active'[d]) = Outcomes(active[d])
  <2>1. CASE active' = active
    BY <2>1
  <2>2. CASE active' = [active EXCEPT ![c] = AppendedLine(active[c], Torn)]
    <3>1. active'[d] = IF d = c THEN AppendedLine(active[c], Torn) ELSE active[d]
      BY <2>2 DEF StoreTypes, FileTypes
    <3> QED BY <1>4, <3>1
  <2> QED BY <1>1, <2>1, <2>2
<1> QED BY <1>2, <1>3, <1>5

(* It keeps the files a piece of the log, if no longer its end.            *)
LEMMA AppendFailsKeepsFiles ==
  ASSUME StoreTypes, FilesInv, NEW t \in Writers, NEW c \in Chains, AppendFails(t, c)
  PROVE  FilesInv'
<1> SUFFICES ASSUME NEW d \in Chains PROVE FilesOf(d)'
  BY DEF FilesInv
<1>1. /\ Outcomes(active'[d]) = Outcomes(active[d]) /\ rotated' = rotated /\ log' = log
      /\ attempts' = attempts + 1 /\ faults' # 0
  BY AppendFailsReadable
<1>2. InFiles(d)' = InFiles(d)
  BY <1>1 DEF InFiles
<1>3. FilesOf(d)
  BY DEF FilesInv
<1>4. \A i \in 1..Len(log'[d]) : log'[d][i].step <= attempts'
  <2>1. \A i \in 1..Len(log[d]) : log[d][i] \in Recorded
    BY FilesTypes
  <2>2. \A i \in 1..Len(log[d]) : log[d][i].step \in Nat
    BY <2>1 DEF Recorded
  <2>3. attempts \in Nat
    BY DEF StoreTypes, HistoryTypes
  <2>4. \A i \in 1..Len(log[d]) : log[d][i].step <= attempts
    BY <1>3 DEF FilesOf
  <2>5. ASSUME NEW i \in 1..Len(log[d]) PROVE log[d][i].step <= attempts + 1
    BY <2>2, <2>3, <2>4
  <2> QED BY <1>1, <2>5
<1> QED BY <1>1, <1>2, <1>3, <1>4, Zenon DEF FilesOf

(* A rotation drops the older outcomes and those that stay are still the   *)
(* end of the log: the active file, that is to replace the older one, has  *)
(* the outcome of the commit that rotates (_rotate).                       *)
LEMMA RotateKeepsFiles ==
  ASSUME StoreTypes, FilesInv, NEW t \in Writers, NEW c \in Chains,
         Unlink(t, c) \/ Rename(t, c)
  PROVE  FilesInv'
<1> SUFFICES ASSUME NEW d \in Chains PROVE FilesOf(d)'
  BY DEF FilesInv
<1>1. /\ FilesOf(d) /\ attempts \in Nat
      /\ active \in [Chains -> Seq(Line)] /\ rotated \in [Chains -> Seq(Line)]
  BY DEF FilesInv, StoreTypes, FileTypes, HistoryTypes
<1>2. /\ rotation = <<t, c>> /\ rotation' \in {rotation, <<>>}
      /\ log' = log /\ attempts' = attempts /\ faults' = faults
  BY DEF Unlink, Rename, bounds, history
<1>3. \A u \in Writers : rotation' = <<u, d>> => rotation = <<u, d>>
  BY <1>2
<1> DEFINE A == Outcomes(active[c])
           R == Outcomes(rotated[c])
           L == log[c]
<1>4. A \in Seq(Recorded) /\ R \in Seq(Recorded) /\ L \in Seq(Recorded) /\ Len(L) \in Nat
  BY FilesTypes
<1>5. CASE d # c
  <2>1. active'[d] = active[d] /\ rotated'[d] = rotated[d]
    BY <1>1, <1>5 DEF Unlink, Rename
  <2>2. SameFiles(d)
    BY <1>1, <1>2, <2>1 DEF SameFiles
  <2> QED BY <1>1, <1>2, <1>3, <2>2, FilesSame
<1>6. CASE d = c /\ Unlink(t, c)
  <2>1. active' = active /\ rotated'[c] = <<>> /\ rotation' = rotation
    BY <1>1, <1>6 DEF Unlink
  <2>2. Outcomes(<<>>) = <<>>
    BY <1>1, OutcomesAppended, LinesDiffer DEF Line
  <2>3. InFiles(c)' = A
    BY <1>4, <2>1, <2>2, Together DEF InFiles
  <2>4. InFiles(c) = R \o A /\ EndsAt(A, R \o A, Len(R \o A)) /\ R \o A \in Seq(Recorded)
    BY <1>4, Together DEF InFiles
  <2> DEFINE H == R \o A
  <2>5. Len(H) \in Int /\ Len(L) \in Int /\ Len(L) - Len(H) + Len(H) = Len(L)
    BY <1>4, <2>4
  <2> HIDE DEF A, R, L, H
  <2>6. InOrder(H) /\ Among(H, L) /\ (faults = 0 => EndsAt(H, L, Len(L)))
    BY <1>1, <1>6, <2>4 DEF FilesOf, H, L
  <2>7. /\ InOrder(A) /\ Among(A, L)
        /\ EndsAt(H, L, Len(L)) => EndsAt(A, L, Len(L) - Len(H) + Len(H))
    <3>1. EndsAt(A, H, Len(H)) /\ H \in Seq(Recorded)
      BY <2>4 DEF H
    <3> QED BY <1>4, <2>5, <2>6, <3>1, PieceOfPiece
  <2>8. faults = 0 => A # <<>> /\ EndsAt(A, L, Len(L))
    BY <1>1, <1>2, <1>6, <2>5, <2>6, <2>7 DEF FilesOf, A
  <2> QED BY <1>1, <1>2, <1>3, <1>6, <2>1, <2>3, <2>7, <2>8, Zenon DEF FilesOf, A, L
<1>7. CASE d = c /\ Rename(t, c)
  <2>1. rotated[c] = <<>> /\ active'[c] = <<>> /\ rotated'[c] = active[c] /\ rotation' = <<>>
    BY <1>1, <1>7 DEF Rename
  <2>2. Outcomes(<<>>) = <<>>
    BY <1>1, OutcomesAppended, LinesDiffer DEF Line
  <2>3. InFiles(c) = A /\ InFiles(c)' = A
    BY <1>4, <2>1, <2>2, Together DEF InFiles
  <2>4. NoneSpoilt(<<>>)
    BY DEF NoneSpoilt
  <2>5. \A u \in Writers : rotation' # <<u, c>>
    BY <2>1
  <2>6. InFiles(c)' = InFiles(c)
    BY <2>3
  <2> QED BY <1>1, <1>2, <1>7, <2>1, <2>4, <2>5, <2>6, Zenon DEF FilesOf
<1> QED BY <1>5, <1>6, <1>7

(* Every step keeps the files a piece of the log, also a restart.          *)
LEMMA NextKeepsFiles ==
  ASSUME StoreTypes, FilesInv, [Next]_vars
  PROVE  FilesInv'
<1>0. attempts \in Nat /\ faults \in Nat
  BY DEF StoreTypes, HistoryTypes
<1>1. ASSUME UNCHANGED <<active, rotated, log, attempts>>,
             faults' = faults \/ faults' = faults + 1,
             rotation' = rotation \/ rotation' = <<>>
      PROVE  FilesInv'
  <2> SUFFICES ASSUME NEW c \in Chains PROVE FilesOf(c)'
    BY DEF FilesInv
  <2>1. FilesOf(c) /\ SameFiles(c) /\ attempts' \in Nat
    BY <1>0, <1>1 DEF FilesInv, SameFiles
  <2>2. \A t \in Writers : rotation' = <<t, c>> => rotation = <<t, c>>
    BY <1>1
  <2> QED BY <2>1, <2>2, FilesSame
<1>2. CASE UNCHANGED vars
  BY <1>1, <1>2 DEF vars, bounds, history
<1>3. CASE SetBudgetContext
  BY <1>1, <1>3 DEF SetBudgetContext, bounds, history
<1>4. ASSUME NEW t \in Readers,
             \/ \E c \in Chains, limit \in Limits : BeginRead(t, c, limit)
             \/ ReadActive(t) \/ ReadRotated(t) \/ EndRead(t)
      PROVE  FilesInv'
  BY <1>1, <1>4 DEF BeginRead, ReadActive, ReadRotated, EndRead, bounds, history
<1>5. ASSUME NEW t \in Writers, Close(t) \/ WriteStats(t)
      PROVE  FilesInv'
  BY <1>1, <1>5 DEF Close, WriteStats, bounds, history
<1>6. CASE Restart
  BY <1>1, <1>6 DEF Restart
<1>7. ASSUME NEW t \in Writers, NEW c \in Chains, RotationFails(t, c)
      PROVE  FilesInv'
  BY <1>1, <1>7 DEF RotationFails, history
<1>8. ASSUME NEW t \in Writers, NEW c \in Chains,
             Commit(t, c) \/ AppendFails(t, c) \/ Unlink(t, c) \/ Rename(t, c)
      PROVE  FilesInv'
  BY <1>8, CommitKeepsFiles, AppendFailsKeepsFiles, RotateKeepsFiles
<1> QED BY <1>2, <1>3, <1>4, <1>5, <1>6, <1>7, <1>8 DEF Next

-----------------------------------------------------------------------------
(* What readers have read is a piece of what was committed. *)

(* A reader is idle or has a chain to read.                                *)
LEMMA ReadingTypes ==
  /\ Readings = {NotReading} \cup Underway
  /\ NotReading.at = "idle"
  /\ \A r \in Readings : r.at # "idle" => r \in Underway
  /\ \A r \in Underway :
       /\ r.at \in {"active", "rotated", "stats"} /\ r.chain \in Chains
       /\ r.limit \in Nat \ {0} /\ r.before \in Seq(Recorded) /\ r.outs \in Seq(Recorded)
<1>1. Readings = {NotReading} \cup Underway
  BY Zenon DEF Readings
<1>2. NotReading.at = "idle"
  BY DEF NotReading
<1>3. \A r \in Readings : r.at # "idle" => r \in Underway
  BY <1>1, <1>2
<1>4. \A r \in Underway :
        /\ r.at \in {"active", "rotated", "stats"} /\ r.chain \in Chains
        /\ r.limit \in Nat \ {0} /\ r.before \in Seq(Recorded) /\ r.outs \in Seq(Recorded)
  BY DEF Underway
<1> QED BY <1>1, <1>2, <1>3, <1>4

\* A step that adds to the files of a chain and takes nothing away.
FilesGrow(c) ==
  /\ rotated'[c] = rotated[c]
  /\ \/ log'[c] = log[c] /\ Outcomes(active'[c]) = Outcomes(active[c])
     \/ \E o \in Recorded :
          /\ log'[c] = Append(log[c], o)
          /\ \/ Outcomes(active'[c]) = Append(Outcomes(active[c]), o)
             \/ Outcomes(active'[c]) = Outcomes(active[c]) /\ faults' # 0
  /\ faults' = 0 => faults = 0

(* A reader is not misled by what is committed while it reads.             *)
LEMMA ReadStays ==
  ASSUME StoreTypes, NEW r \in Underway, ReadOf(r), FilesGrow(r.chain)
  PROVE  ReadOf(r)'
<1> DEFINE c == r.chain
           L == log[c]
           M == log'[c]
           A == Outcomes(active[c])
           B == Outcomes(active'[c])
           R == Outcomes(rotated[c])
<1>1. /\ r.at # "idle" /\ c \in Chains /\ r.before \in Seq(Recorded)
      /\ r.outs \in Seq(Recorded)
  BY ReadingTypes
<1>2. L \in Seq(Recorded) /\ A \in Seq(Recorded) /\ R \in Seq(Recorded) /\ Len(L) \in Nat
  BY <1>1, FilesTypes
<1>3. Prefix(r.before, L) /\ HalfRead(r) /\ Read(r)
  BY <1>1 DEF ReadOf
<1>4. /\ rotated'[c] = rotated[c] /\ (faults' = 0 => faults = 0)
      /\ \/ M = L /\ B = A
         \/ \E o \in Recorded : /\ M = Append(L, o)
                                /\ B = Append(A, o) \/ (B = A /\ faults' # 0)
  BY DEF FilesGrow
<1>5. HalfRead(r)' <=>
        (r.at = "rotated" /\ ~r.disturbed =>
           /\ Prefix(r.outs, B)
           /\ faults' = 0 =>
                /\ Len(r.before) <= Len(M) - (Len(B) - Len(r.outs))
                /\ r.before # <<>> => R \o r.outs # <<>>)
  BY <1>4 DEF HalfRead, ReadUpTo
<1>6. HalfRead(r) <=>
        (r.at = "rotated" /\ ~r.disturbed =>
           /\ Prefix(r.outs, A)
           /\ faults = 0 =>
                /\ Len(r.before) <= Len(L) - (Len(A) - Len(r.outs))
                /\ r.before # <<>> => R \o r.outs # <<>>)
  BY DEF HalfRead, ReadUpTo
<1>7. /\ Read(r)' <=>
          (r.at = "stats" /\ ~r.disturbed =>
             /\ InOrder(r.outs) /\ Among(r.outs, M)
             /\ faults' = 0 =>
                  /\ \E k \in Len(r.before)..Len(M) : EndsAt(r.outs, M, k)
                  /\ r.before # <<>> => r.outs # <<>>)
      /\ Read(r) <=>
          (r.at = "stats" /\ ~r.disturbed =>
             /\ InOrder(r.outs) /\ Among(r.outs, L)
             /\ faults = 0 =>
                  /\ \E k \in Len(r.before)..Len(L) : EndsAt(r.outs, L, k)
                  /\ r.before # <<>> => r.outs # <<>>)
  BY Zenon DEF Read
<1> HIDE DEF c, L, M, A, B, R
<1>8. CASE M = L /\ B = A
  <2>1. HalfRead(r)'
    BY <1>3, <1>4, <1>5, <1>6, <1>8, Zenon
  <2>2. Read(r)'
    BY <1>3, <1>4, <1>7, <1>8, Zenon
  <2>3. Prefix(r.before, M)
    BY <1>3, <1>8
  <2> QED BY <2>1, <2>2, <2>3 DEF ReadOf, M, c
<1>9. ASSUME NEW o \in Recorded, M = Append(L, o), B = Append(A, o) \/ (B = A /\ faults' # 0)
      PROVE  ReadOf(r)'
  <2>1. Prefix(r.before, M)
    BY <1>1, <1>2, <1>3, <1>9, PrefixFacts
  <2>2. Len(M) = Len(L) + 1
    BY <1>2, <1>9
  <2>3. ASSUME r.at = "rotated", ~r.disturbed
        PROVE  /\ Prefix(r.outs, B)
               /\ faults' = 0 =>
                    /\ Len(r.before) <= Len(M) - (Len(B) - Len(r.outs))
                    /\ r.before # <<>> => R \o r.outs # <<>>
    <3>1. /\ Prefix(r.outs, A)
          /\ faults = 0 =>
               /\ Len(r.before) <= Len(L) - (Len(A) - Len(r.outs))
               /\ r.before # <<>> => R \o r.outs # <<>>
      BY <1>3, <1>6, <2>3
    <3>2. Prefix(r.outs, B)
      BY <1>1, <1>2, <1>9, <3>1, PrefixFacts
    <3>3. ASSUME faults' = 0
          PROVE  Len(M) - (Len(B) - Len(r.outs)) = Len(L) - (Len(A) - Len(r.outs))
      <4>1. Len(B) = Len(A) + 1 /\ Len(A) \in Nat /\ Len(r.outs) \in Nat
        BY <1>1, <1>2, <1>9, <3>3
      <4> DEFINE m == Len(M)
                 b == Len(B)
                 l == Len(L)
                 a == Len(A)
                 x == Len(r.outs)
      <4>2. m = l + 1 /\ b = a + 1 /\ a \in Nat /\ l \in Nat /\ x \in Nat
        BY <1>2, <2>2, <4>1
      <4> HIDE DEF m, b, l, a, x
      <4>3. m - (b - x) = l - (a - x)
        BY <4>2
      <4> QED BY <4>3 DEF m, b, l, a, x
    <3> QED BY <1>4, <3>1, <3>2, <3>3
  <2>4. ASSUME r.at = "stats", ~r.disturbed
        PROVE  /\ InOrder(r.outs) /\ Among(r.outs, M)
               /\ faults' = 0 =>
                    /\ \E k \in Len(r.before)..Len(M) : EndsAt(r.outs, M, k)
                    /\ r.before # <<>> => r.outs # <<>>
    <3>1. /\ InOrder(r.outs) /\ Among(r.outs, L)
          /\ faults = 0 =>
               /\ \E k \in Len(r.before)..Len(L) : EndsAt(r.outs, L, k)
               /\ r.before # <<>> => r.outs # <<>>
      BY <1>3, <1>7, <2>4
    <3>2. Among(r.outs, M)
      BY <1>1, <1>2, <1>9, <3>1, StillAmong
    <3>3. ASSUME NEW k \in Len(r.before)..Len(L), EndsAt(r.outs, L, k)
          PROVE  \E j \in Len(r.before)..Len(M) : EndsAt(r.outs, M, j)
      <4>1. Len(r.before) \in Nat
        BY <1>1
      <4>2. k \in Int /\ k \in Len(r.before)..Len(M)
        BY <1>2, <2>2, <4>1
      <4>3. EndsAt(r.outs, M, k)
        BY <1>1, <1>2, <1>9, <3>3, <4>2, StillAmong
      <4> QED BY <4>2, <4>3
    <3> QED BY <1>4, <3>1, <3>2, <3>3
  <2>5. HalfRead(r)'
    BY <1>5, <2>3
  <2>6. Read(r)'
    BY <1>7, <2>4
  <2> QED BY <2>1, <2>5, <2>6 DEF ReadOf, M, c
<1> QED BY <1>4, <1>8, <1>9

\* What a rotation of chain c makes of a reader of it.
AfterRotation(r, c) ==
  IF r.at \in {"active", "rotated"} /\ r.chain = c
  THEN [r EXCEPT !.disturbed = TRUE] ELSE r

(* A rotation disturbs a reader of the chain that has not read both files, *)
(* and no other.                                                           *)
LEMMA RotationDisturbs ==
  ASSUME StoreTypes, NEW r \in Readings, ReadOf(r), NEW c \in Chains,
         log' = log, faults' = faults,
         \A d \in Chains : d # c => active'[d] = active[d] /\ rotated'[d] = rotated[d]
  PROVE  AfterRotation(r, c) \in Readings /\ ReadOf(AfterRotation(r, c))'
<1>1. CASE r.at \in {"active", "rotated"} /\ r.chain = c
  <2> DEFINE q == [r EXCEPT !.disturbed = TRUE]
  <2>1. r \in Underway
    BY <1>1, ReadingTypes
  <2>2. q \in Underway /\ q.disturbed = TRUE /\ q.at = r.at /\ q.before = r.before
        /\ q.chain = r.chain
    BY <2>1 DEF Underway
  <2>3. AfterRotation(r, c) = q
    BY <1>1 DEF AfterRotation
  <2> HIDE DEF q
  <2>4. Prefix(r.before, log[r.chain])
    BY <1>1 DEF ReadOf
  <2>5. ReadOf(q)'
    BY <2>2, <2>4 DEF ReadOf, HalfRead, Read
  <2> QED BY <2>2, <2>3, <2>5, ReadingTypes
<1>2. CASE ~(r.at \in {"active", "rotated"} /\ r.chain = c)
  <2>1. AfterRotation(r, c) = r
    BY <1>2 DEF AfterRotation
  <2>2. CASE r.at = "idle"
    BY <2>1, <2>2 DEF ReadOf
  <2>3. CASE r.at # "idle" /\ r.chain # c
    <3>1. r \in Underway /\ r.chain \in Chains
      BY <2>3, ReadingTypes
    <3>2. FilesGrow(r.chain)
      BY <2>3, <3>1 DEF FilesGrow
    <3> QED BY <2>1, <3>1, <3>2, ReadStays
  <2>4. CASE r.at = "stats"
    <3>1. Prefix(r.before, log[r.chain]) /\ Read(r)
      BY <2>4 DEF ReadOf
    <3>2. Read(r)' <=> Read(r)
      BY Zenon DEF Read
    <3>3. HalfRead(r)'
      BY <2>4 DEF HalfRead
    <3> QED BY <2>1, <3>1, <3>2, <3>3 DEF ReadOf
  <2>5. r.at \in {"idle", "active", "rotated", "stats"}
    BY ReadingTypes
  <2> QED BY <1>2, <2>2, <2>3, <2>4, <2>5
<1> QED BY <1>1, <1>2

(* A reader asks for one outcome at least.                                 *)
LEMMA LimitTypes ==
  ASSUME NEW limit \in Limits
  PROVE  ClampedLimit(limit, MaxHistory) \in Nat \ {0}
<1>1. limit \in Int /\ MaxHistory \in Nat \ {0}
  BY FileStoreAssumption
<1> QED BY <1>1 DEF ClampedLimit

(* A view begins with what was committed so far.                           *)
LEMMA BeginReadKeeps ==
  ASSUME StoreTypes, ViewInv, NEW t \in Readers, NEW c \in Chains, NEW limit \in Limits,
         BeginRead(t, c, limit)
  PROVE  \E r \in Readings : reading' = [reading EXCEPT ![t] = r] /\ ReadOf(r)'
<1> DEFINE begun ==
             [at |-> "active", chain |-> c, limit |-> ClampedLimit(limit, MaxHistory),
              fresh |-> stats[c] = <<>>, before |-> log[c], outs |-> <<>>,
              disturbed |-> FALSE]
<1>0. PICK r : r = begun
  OBVIOUS
<1>1. reading' = [reading EXCEPT ![t] = r] /\ log' = log
  BY <1>0 DEF BeginRead, history
<1>2. log[c] \in Seq(Recorded) /\ (stats[c] = <<>>) \in BOOLEAN /\ <<>> \in Seq(Recorded)
  BY FilesTypes
<1>3. r \in Underway
  BY <1>0, <1>2, LimitTypes DEF Underway
<1>4. r.at = "active" /\ r.before = log[c] /\ r.chain = c
  BY <1>0
<1> HIDE DEF begun
<1>5. Prefix(log[c], log[c])
  BY DEF Prefix
<1>6. ReadOf(r)'
  BY <1>1, <1>4, <1>5 DEF ReadOf, HalfRead, Read
<1> QED BY <1>1, <1>3, <1>6, ReadingTypes

(* The active file has the newest of what was committed; if it has as much *)
(* as the reader asked for, the older file is not read.                    *)
LEMMA ReadActiveKeeps ==
  ASSUME StoreTypes, ViewInv, NEW t \in Readers, ReadActive(t)
  PROVE  \E r \in Readings : reading' = [reading EXCEPT ![t] = r] /\ ReadOf(r)'
<1>1. PICK q \in Readings : q = reading[t]
  BY DEF ViewInv
<1>2. q.at = "active" /\ q \in Underway /\ ReadOf(q)
  BY <1>1, ReadingTypes DEF ReadActive, ViewInv
<1> DEFINE c == q.chain
           A == Outcomes(active[c])
           R == Outcomes(rotated[c])
           L == log[c]
           H == R \o A
           next == [q EXCEPT !.outs = A,
                             !.at = IF Len(A) < q.limit THEN "rotated" ELSE "stats"]
<1>0. PICK r : r = next
  OBVIOUS
<1>3. /\ reading' = [reading EXCEPT ![t] = r]
      /\ active' = active /\ rotated' = rotated /\ log' = log /\ faults' = faults
  <2>1. reading' = [reading EXCEPT ![t].outs = A,
                       ![t].at = IF Len(A) < q.limit THEN "rotated" ELSE "stats"]
    BY <1>1 DEF ReadActive
  <2>2. reading \in [Readers -> Readings] /\ q = reading[t]
    BY <1>1 DEF ViewInv
  <2>3. reading' = [reading EXCEPT ![t] = next]
    BY <2>1, <2>2
  <2> QED BY <1>0, <2>3 DEF ReadActive, bounds, history
<1>4. c \in Chains /\ q.before \in Seq(Recorded) /\ q.limit \in Nat \ {0}
  BY <1>2, ReadingTypes
<1>5. /\ A \in Seq(Recorded) /\ R \in Seq(Recorded) /\ L \in Seq(Recorded)
      /\ Len(L) \in Nat /\ Len(A) \in Nat /\ Len(q.before) \in Nat
  BY <1>4, FilesTypes
<1>6. /\ H \in Seq(Recorded) /\ EndsAt(A, H, Len(H)) /\ Len(H) \in Int
  BY <1>5, Together
<1>7. /\ InOrder(H) /\ Among(H, L)
      /\ faults = 0 => EndsAt(H, L, Len(L)) /\ (L # <<>> => H # <<>>)
  BY <1>4 DEF ViewInv, FilesInv, FilesOf, InFiles
<1>8. Prefix(q.before, L)
  BY <1>2 DEF ReadOf
<1>9. /\ r \in Underway /\ r.outs = A /\ r.chain = c /\ r.before = q.before
      /\ r.at = IF Len(A) < q.limit THEN "rotated" ELSE "stats"
  BY <1>0, <1>2, <1>5 DEF Underway
<1> HIDE DEF c, A, R, L, H, next
<1>10. InOrder(A) /\ Among(A, L) /\ (faults = 0 => EndsAt(A, L, Len(L)))
  <2>1. InOrder(A) /\ Among(A, L)
    BY <1>5, <1>6, <1>7, PieceOfPiece
  <2>2. ASSUME faults = 0 PROVE EndsAt(A, L, Len(L))
    <3>1. EndsAt(H, L, Len(L)) /\ Len(L) \in Int
      BY <1>5, <1>7, <2>2
    <3>2. EndsAt(A, L, Len(L) - Len(H) + Len(H))
      BY <1>5, <1>6, <3>1, PieceOfPiece
    <3>3. Len(L) - Len(H) + Len(H) = Len(L)
      BY <1>5, <1>6
    <3> QED BY <3>2, <3>3
  <2> QED BY <2>1, <2>2
<1>11. q.before # <<>> => L # <<>>
  <2>1. Len(q.before) <= Len(L)
    BY <1>8 DEF Prefix
  <2> QED BY <1>4, <1>5, <2>1
<1>12. Len(q.before) <= Len(L)
  BY <1>8 DEF Prefix
<1>13. HalfRead(r)'
  <2>1. Prefix(A, A)
    BY DEF Prefix
  <2>2. Len(L) - (Len(A) - Len(A)) = Len(L)
    BY <1>5
  <2>3. /\ Prefix(r.outs, Outcomes(active'[r.chain]))
        /\ faults' = 0 =>
             /\ Len(r.before) <= Len(log'[r.chain])
                                   - (Len(Outcomes(active'[r.chain])) - Len(r.outs))
             /\ r.before # <<>> => Outcomes(rotated'[r.chain]) \o r.outs # <<>>
    BY <1>3, <1>7, <1>9, <1>11, <1>12, <2>1, <2>2, Zenon DEF A, L, R, H
  <2> QED BY <2>3 DEF HalfRead, ReadUpTo
<1>14. Read(r)'
  <2> SUFFICES ASSUME r.at = "stats"
               PROVE  /\ InOrder(r.outs) /\ Among(r.outs, log'[r.chain])
                      /\ faults' = 0 =>
                           /\ \E k \in Len(r.before)..Len(log'[r.chain]) :
                                EndsAt(r.outs, log'[r.chain], k)
                           /\ r.before # <<>> => r.outs # <<>>
    BY DEF Read
  <2>1. Len(A) >= q.limit
    BY <1>4, <1>5, <1>9
  <2>2. A # <<>>
    BY <1>4, <1>5, <2>1
  <2>3. Len(L) \in Len(q.before)..Len(L)
    BY <1>5, <1>12
  <2>4. log'[r.chain] = L
    BY <1>3, <1>9 DEF L
  <2> QED BY <1>3, <1>9, <1>10, <2>2, <2>3, <2>4, Zenon
<1>15. ReadOf(r)'
  BY <1>3, <1>8, <1>9, <1>13, <1>14 DEF ReadOf, L
<1> QED BY <1>3, <1>9, <1>15, ReadingTypes

(* What the older file has comes before what the active file had: no more  *)
(* than newer outcomes have been added since.                              *)
LEMMA ReadRotatedKeeps ==
  ASSUME StoreTypes, ViewInv, NEW t \in Readers, ReadRotated(t)
  PROVE  \E r \in Readings : reading' = [reading EXCEPT ![t] = r] /\ ReadOf(r)'
<1>1. PICK q \in Readings : q = reading[t]
  BY DEF ViewInv
<1>2. q.at = "rotated" /\ q \in Underway /\ ReadOf(q)
  BY <1>1, ReadingTypes DEF ReadRotated, ViewInv
<1> DEFINE c == q.chain
           A == Outcomes(active[c])
           R == Outcomes(rotated[c])
           L == log[c]
           H == R \o A
           S == R \o q.outs
           next == [q EXCEPT !.outs = S, !.at = "stats"]
<1>0. PICK r : r = next
  OBVIOUS
<1>3. /\ reading' = [reading EXCEPT ![t] = r]
      /\ active' = active /\ rotated' = rotated /\ log' = log /\ faults' = faults
  <2>1. reading' = [reading EXCEPT ![t].outs = R \o reading[t].outs, ![t].at = "stats"]
    BY <1>1 DEF ReadRotated
  <2>2. reading \in [Readers -> Readings] /\ q = reading[t]
    BY <1>1 DEF ViewInv
  <2>3. reading' = [reading EXCEPT ![t] = next]
    BY <2>1, <2>2
  <2> QED BY <1>0, <2>3 DEF ReadRotated, bounds, history
<1>4. /\ c \in Chains /\ q.before \in Seq(Recorded) /\ q.outs \in Seq(Recorded)
      /\ q.limit \in Nat \ {0}
  BY <1>2, ReadingTypes
<1>5. /\ A \in Seq(Recorded) /\ R \in Seq(Recorded) /\ L \in Seq(Recorded)
      /\ Len(L) \in Nat /\ Len(A) \in Nat /\ Len(q.before) \in Nat /\ Len(q.outs) \in Nat
      /\ Len(R) \in Nat
  BY <1>4, FilesTypes
<1>6. /\ H \in Seq(Recorded) /\ S \in Seq(Recorded)
      /\ Len(H) = Len(R) + Len(A) /\ Len(S) = Len(R) + Len(q.outs)
  BY <1>4, <1>5, Together
<1>7. /\ InOrder(H) /\ Among(H, L)
      /\ faults = 0 => EndsAt(H, L, Len(L))
  BY <1>4 DEF ViewInv, FilesInv, FilesOf, InFiles
<1>8. Prefix(q.before, L) /\ HalfRead(q)
  BY <1>2 DEF ReadOf
<1>9. /\ r \in Underway /\ r.outs = S /\ r.chain = c /\ r.before = q.before
      /\ r.at = "stats" /\ r.disturbed = q.disturbed
  <2>1. next \in Underway
    BY <1>2, <1>6 DEF Underway
  <2>2. /\ next.outs = S /\ next.chain = c /\ next.before = q.before
        /\ next.at = "stats" /\ next.disturbed = q.disturbed
    BY <1>2 DEF Underway
  <2> QED BY <1>0, <2>1, <2>2
<1>10. ASSUME ~q.disturbed
       PROVE  /\ Prefix(q.outs, A)
              /\ faults = 0 =>
                   /\ Len(q.before) <= Len(L) - (Len(A) - Len(q.outs))
                   /\ q.before # <<>> => S # <<>>
  BY <1>2, <1>8, <1>10 DEF HalfRead, ReadUpTo
<1>11. ASSUME Prefix(q.outs, A) PROVE EndsAt(S, H, Len(S))
  <2>1. /\ \A i \in 1..Len(R) : S[i] = R[i] /\ H[i] = R[i]
        /\ \A i \in 1..Len(q.outs) : S[Len(R) + i] = q.outs[i]
        /\ \A i \in 1..Len(A) : H[Len(R) + i] = A[i]
    BY <1>4, <1>5, Together
  <2>2. Len(q.outs) <= Len(A) /\ \A i \in 1..Len(q.outs) : q.outs[i] = A[i]
    BY <1>11 DEF Prefix
  <2> HIDE DEF A, R, H, S
  <2>3. ASSUME NEW i \in 1..Len(S) PROVE S[i] = H[i]
    <3>1. CASE i \in 1..Len(R)
      BY <2>1, <3>1
    <3>2. CASE i \notin 1..Len(R)
      <4>1. PICK j \in Int : j = i - Len(R)
        BY <1>5
      <4>2. j \in 1..Len(q.outs) /\ j \in 1..Len(A) /\ i = Len(R) + j
        BY <1>5, <1>6, <2>2, <3>2, <4>1
      <4>3. S[Len(R) + j] = q.outs[j] /\ H[Len(R) + j] = A[j] /\ q.outs[j] = A[j]
        BY <2>1, <2>2, <4>2
      <4> QED BY <4>2, <4>3
    <3> QED BY <3>1, <3>2
  <2>4. Len(S) <= Len(H) /\ Len(S) \in Nat
    BY <1>5, <1>6, <2>2
  <2>5. \A i \in 1..Len(S) : Len(S) - Len(S) + i = i
    BY <2>4
  <2> QED BY <2>3, <2>4, <2>5 DEF EndsAt
<1> HIDE DEF c, A, R, L, H, S, next
<1>12. ASSUME ~q.disturbed
       PROVE  /\ InOrder(S) /\ Among(S, L)
              /\ faults = 0 =>
                   /\ \E k \in Len(q.before)..Len(L) : EndsAt(S, L, k)
                   /\ q.before # <<>> => S # <<>>
  <2>1. EndsAt(S, H, Len(S)) /\ Len(S) \in Int /\ Len(H) \in Int
    BY <1>5, <1>6, <1>10, <1>11, <1>12
  <2>2. InOrder(S) /\ Among(S, L)
    BY <1>5, <1>6, <1>7, <2>1, PieceOfPiece
  <2>3. ASSUME faults = 0 PROVE \E k \in Len(q.before)..Len(L) : EndsAt(S, L, k)
    <3>1. EndsAt(H, L, Len(L)) /\ Len(L) \in Int
      BY <1>5, <1>7, <2>3
    <3>2. EndsAt(S, L, Len(L) - Len(H) + Len(S))
      BY <1>5, <1>6, <2>1, <3>1, PieceOfPiece
    <3> DEFINE e == Len(L) - Len(H) + Len(S)
    <3>0. e \in Int
      BY <1>5, <2>1
    <3>3. PICK k \in Int : k = e
      BY <3>0
    <3>4. k <= Len(L)
      <4>1. EndsAt(S, L, k)
        BY <3>2, <3>3
      <4> QED BY <4>1 DEF EndsAt
    <3>5. Len(q.before) <= k
      <4>1. Len(q.before) <= Len(L) - (Len(A) - Len(q.outs))
        BY <1>10, <1>12, <2>3
      <4> QED BY <1>5, <1>6, <3>3, <4>1
    <3>6. k \in Len(q.before)..Len(L)
      BY <1>5, <3>4, <3>5
    <3>7. EndsAt(S, L, k)
      BY <3>2, <3>3
    <3> QED BY <3>6, <3>7
  <2> QED BY <1>10, <1>12, <2>2, <2>3
<1>13. HalfRead(r)'
  BY <1>9 DEF HalfRead
<1>14. Read(r)'
  <2>1. log'[r.chain] = L
    BY <1>3, <1>9 DEF L
  <2> QED BY <1>3, <1>9, <1>12, <2>1, Zenon DEF Read
<1>15. ReadOf(r)'
  BY <1>3, <1>8, <1>9, <1>13, <1>14 DEF ReadOf, L
<1> QED BY <1>3, <1>9, <1>15, ReadingTypes

(* Every step keeps what the readers have a piece of what was committed.   *)
LEMMA NextKeepsView ==
  ASSUME StoreTypes, ViewInv, [Next]_vars
  PROVE  ViewInv'
<1>1. FilesInv'
  BY NextKeepsFiles DEF ViewInv
<1>2. reading \in [Readers -> Readings] /\ \A t \in Readers : ReadOf(reading[t])
  BY DEF ViewInv
<1>3. ASSUME reading' = reading, \A c \in Chains : FilesGrow(c)
      PROVE  ViewInv'
  <2>1. ASSUME NEW t \in Readers PROVE ReadOf(reading[t])'
    <3>1. PICK r \in Readings : r = reading[t]
      BY <1>2
    <3>2. CASE r.at = "idle"
      BY <1>3, <3>1, <3>2 DEF ReadOf
    <3>3. CASE r.at # "idle"
      <4>1. r \in Underway /\ r.chain \in Chains
        BY <3>3, ReadingTypes
      <4>2. ReadOf(r)'
        BY <1>2, <1>3, <3>1, <4>1, ReadStays
      <4> QED BY <1>3, <3>1, <4>2
    <3> QED BY <3>2, <3>3
  <2> QED BY <1>1, <1>2, <1>3, <2>1 DEF ViewInv
<1>4. ASSUME UNCHANGED <<active, rotated, log>>, faults' = faults \/ faults' = faults + 1
      PROVE  \A c \in Chains : FilesGrow(c)
  BY <1>4 DEF FilesGrow, StoreTypes, HistoryTypes
<1>5. ASSUME NEW t \in Readers, NEW r \in Readings, reading' = [reading EXCEPT ![t] = r],
             ReadOf(r)', \A c \in Chains : FilesGrow(c)
      PROVE  ViewInv'
  <2>1. ASSUME NEW u \in Readers PROVE ReadOf(reading[u])'
    <3>1. CASE u = t
      <4>1. reading'[u] = r
        BY <1>2, <1>5, <3>1
      <4> QED BY <1>5, <4>1
    <3>2. CASE u # t
      <4>1. PICK q \in Readings : q = reading[u]
        BY <1>2
      <4>2. reading'[u] = q
        BY <1>2, <1>5, <3>2, <4>1
      <4>3. CASE q.at = "idle"
        BY <4>2, <4>3 DEF ReadOf
      <4>4. CASE q.at # "idle"
        <5>1. q \in Underway /\ q.chain \in Chains
          BY <4>4, ReadingTypes
        <5>2. ReadOf(q)'
          BY <1>2, <1>5, <4>1, <5>1, ReadStays
        <5> QED BY <4>2, <5>2
      <4> QED BY <4>3, <4>4
    <3> QED BY <3>1, <3>2
  <2>2. reading' \in [Readers -> Readings]
    BY <1>2, <1>5
  <2> QED BY <1>1, <2>1, <2>2 DEF ViewInv
<1>6. CASE UNCHANGED vars
  BY <1>3, <1>4, <1>6 DEF vars, bounds, history
<1>7. CASE SetBudgetContext
  BY <1>3, <1>4, <1>7 DEF SetBudgetContext, bounds, history
<1>8. ASSUME NEW t \in Writers, Close(t) \/ WriteStats(t)
      PROVE  ViewInv'
  <2>1. /\ UNCHANGED <<active, rotated, log>> /\ reading' = reading
        /\ faults' = faults \/ faults' = faults + 1
    BY <1>8 DEF Close, WriteStats, bounds, history
  <2> QED BY <1>3, <1>4, <2>1
<1>9. ASSUME NEW t \in Writers, NEW c \in Chains, RotationFails(t, c)
      PROVE  ViewInv'
  BY <1>3, <1>4, <1>9 DEF RotationFails, history
<1>10. ASSUME NEW t \in Writers, NEW c \in Chains, Commit(t, c)
       PROVE  ViewInv'
  <2>1. PICK o : LineAdded(c, o)
    BY <1>10, CommitLine
  <2>2. reading' = reading
    BY <1>10, CommitLine
  <2>3. FilesOf(c)
    BY DEF ViewInv, FilesInv
  <2>4. /\ o \in Recorded /\ log'[c] = Append(log[c], o) /\ rotated'[c] = rotated[c]
        /\ \/ Outcomes(active'[c]) = Append(Outcomes(active[c]), o)
           \/ Outcomes(active'[c]) = Outcomes(active[c]) /\ faults # 0
    BY <2>1, <2>3, CommitReadable
  <2>5. faults' = faults
    BY <2>1 DEF LineAdded
  <2>6. FilesGrow(c)
    BY <2>4, <2>5, Zenon DEF FilesGrow
  <2>7. ASSUME NEW d \in Chains, d # c PROVE FilesGrow(d)
    <3>1. active'[d] = active[d] /\ rotated'[d] = rotated[d] /\ log'[d] = log[d]
      BY <2>1, <2>7 DEF LineAdded, StoreTypes, FileTypes, HistoryTypes
    <3> QED BY <2>5, <3>1 DEF FilesGrow
  <2> QED BY <1>3, <2>2, <2>6, <2>7
<1>11. ASSUME NEW t \in Writers, NEW c \in Chains, AppendFails(t, c)
       PROVE  ViewInv'
  <2>1. /\ reading' = reading /\ rotated' = rotated /\ log' = log /\ faults' # 0
        /\ \A d \in Chains : Outcomes(active'[d]) = Outcomes(active[d])
    BY <1>11, AppendFailsReadable
  <2>2. \A d \in Chains : FilesGrow(d)
    BY <2>1 DEF FilesGrow
  <2> QED BY <1>3, <2>1, <2>2
<1>12. ASSUME NEW t \in Writers, NEW c \in Chains, Unlink(t, c) \/ Rename(t, c)
       PROVE  ViewInv'
  <2>1. /\ reading' = [u \in Readers |-> AfterRotation(reading[u], c)]
        /\ log' = log /\ faults' = faults
    <3>1. reading' = Disturbed(c) /\ log' = log /\ faults' = faults
      BY <1>12 DEF Unlink, Rename, bounds, history
    <3>2. Disturbed(c) = [u \in Readers |-> AfterRotation(reading[u], c)]
      BY Zenon DEF Disturbed, AfterRotation
    <3> QED BY <3>1, <3>2
  <2>2. \A d \in Chains : d # c => active'[d] = active[d] /\ rotated'[d] = rotated[d]
    BY <1>12 DEF Unlink, Rename, StoreTypes, FileTypes
  <2>3. ASSUME NEW u \in Readers PROVE reading'[u] \in Readings /\ ReadOf(reading[u])'
    <3>1. PICK r \in Readings : r = reading[u]
      BY <1>2
    <3>2. reading'[u] = AfterRotation(r, c) /\ ReadOf(r)
      BY <1>2, <2>1, <3>1
    <3>3. AfterRotation(r, c) \in Readings /\ ReadOf(AfterRotation(r, c))'
      BY <2>1, <2>2, <3>2, RotationDisturbs
    <3> QED BY <3>2, <3>3
  <2>4. reading' \in [Readers -> Readings]
    <3>1. \A u \in Readers : AfterRotation(reading[u], c) \in Readings
      BY <2>1, <2>3
    <3> QED BY <2>1, <3>1
  <2> QED BY <1>1, <2>3, <2>4 DEF ViewInv
<1>13. ASSUME NEW t \in Readers, NEW c \in Chains, NEW limit \in Limits,
              BeginRead(t, c, limit)
       PROVE  ViewInv'
  <2>1. \A d \in Chains : FilesGrow(d)
    BY <1>4, <1>13 DEF BeginRead, bounds, history
  <2> QED BY <1>5, <1>13, <2>1, BeginReadKeeps
<1>14. ASSUME NEW t \in Readers, ReadActive(t) \/ ReadRotated(t)
       PROVE  ViewInv'
  <2>1. \A d \in Chains : FilesGrow(d)
    BY <1>4, <1>14 DEF ReadActive, ReadRotated, bounds, history
  <2> QED BY <1>5, <1>14, <2>1, ReadActiveKeeps, ReadRotatedKeeps
<1>15. ASSUME NEW t \in Readers, EndRead(t)
       PROVE  ViewInv'
  <2>1. \A d \in Chains : FilesGrow(d)
    BY <1>4, <1>15 DEF EndRead, bounds, history
  <2>2. reading' = [reading EXCEPT ![t] = NotReading] /\ NotReading \in Readings
    BY <1>15, ReadingTypes DEF EndRead
  <2>3. ReadOf(NotReading)'
    BY ReadingTypes DEF ReadOf
  <2> QED BY <1>5, <2>1, <2>2, <2>3
<1>16. CASE Restart
  <2>1. reading' = [r \in Readers |-> NotReading]
    BY <1>16 DEF Restart
  <2>2. NotReading \in Readings /\ ReadOf(NotReading)'
    BY ReadingTypes DEF ReadOf
  <2> QED BY <1>1, <2>1, <2>2 DEF ViewInv
<1> QED
  BY <1>6, <1>7, <1>8, <1>9, <1>10, <1>11, <1>12, <1>13, <1>14, <1>15, <1>16 DEF Next

(* Nothing is committed and nobody reads at first.                         *)
LEMMA InitView == Init => ViewInv
<1> SUFFICES ASSUME Init PROVE ViewInv
  OBVIOUS
<1>1. Outcomes(<<>>) = <<>>
  <2>1. <<>> \in Seq(Line) /\ Torn \in Line
    BY DEF Line
  <2> QED BY <2>1, OutcomesAppended
<1>2. ASSUME NEW c \in Chains PROVE FilesOf(c)
  <2>1. /\ log[c] = <<>> /\ active[c] = <<>> /\ rotation = <<>>
        /\ InFiles(c) = <<>> \o <<>>
    BY <1>1 DEF Init, InFiles
  <2>2. InFiles(c) = <<>>
    BY <2>1
  <2>3. /\ InOrder(<<>>) /\ Among(<<>>, <<>>) /\ NoneSpoilt(<<>>)
        /\ EndsAt(<<>>, <<>>, Len(<<>>)) /\ Len(<<>>) = 0
    BY DEF InOrder, Among, NoneSpoilt, EndsAt
  <2>4. \A t \in Writers : rotation # <<t, c>>
    BY <2>1
  <2>5. \A i \in 1..Len(log[c]) : log[c][i].step <= attempts
    BY <2>1
  <2> QED BY <2>1, <2>2, <2>3, <2>4, <2>5, Zenon DEF FilesOf
<1>3. reading = [r \in Readers |-> NotReading] /\ NotReading \in Readings
  BY ReadingTypes DEF Init
<1>4. ReadOf(NotReading)
  BY ReadingTypes DEF ReadOf
<1> QED BY <1>2, <1>3, <1>4 DEF ViewInv, FilesInv

(* The last n outcomes of a sequence are a piece that ends where it ends,  *)
(* and not empty unless it is.                                             *)
LEMMA LastNPiece ==
  ASSUME NEW s \in Seq(Recorded), NEW n \in Nat \ {0}
  PROVE  /\ LastN(s, n) \in Seq(Recorded) /\ EndsAt(LastN(s, n), s, Len(s))
         /\ s # <<>> => LastN(s, n) # <<>>
<1> DEFINE m == IF Len(s) > n THEN Len(s) - n + 1 ELSE 1
           u == SubSeq(s, m, Len(s))
<1>1. Len(s) \in Nat /\ m \in Nat \ {0} /\ m <= Len(s) + 1
  OBVIOUS
<1>2. \A i \in m..Len(s) : s[i] \in Recorded
  <2>1. \A i \in m..Len(s) : i \in 1..Len(s)
    BY <1>1
  <2> QED BY <2>1
<1> HIDE DEF m
<1>3. m \in Int /\ Len(s) \in Int
  BY <1>1
<1>4. /\ u \in Seq(Recorded)
      /\ Len(u) = IF m <= Len(s) THEN Len(s) - m + 1 ELSE 0
      /\ \A i \in 1..Len(s) - m + 1 : u[i] = s[m + i - 1]
  BY <1>2, <1>3, SubSeqProperties
<1>5. LastN(s, n) = u
  BY DEF LastN, m
<1> HIDE DEF u
<1>6. Len(u) = Len(s) - m + 1
  BY <1>1, <1>4
<1>7. ASSUME NEW i \in 1..Len(u) PROVE u[i] = s[Len(s) - Len(u) + i]
  <2>1. Len(s) - Len(u) + i = m + i - 1
    BY <1>1, <1>6
  <2>2. u[i] = s[m + i - 1]
    BY <1>4, <1>6
  <2> QED BY <2>1, <2>2
<1>8. EndsAt(u, s, Len(s))
  BY <1>1, <1>6, <1>7 DEF EndsAt
<1>9. s # <<>> => u # <<>>
  <2> SUFFICES ASSUME s # <<>> PROVE u # <<>>
    OBVIOUS
  <2>1. Len(s) > 0 /\ m <= Len(s)
    BY <1>1 DEF m
  <2>2. Len(u) > 0
    BY <1>1, <1>6, <2>1
  <2> QED BY <2>2
<1> QED BY <1>4, <1>5, <1>8, <1>9

(* A view that no rotation disturbs shows outcomes in the order of their   *)
(* commits, each once and each committed; while no write has failed it     *)
(* leaves out none between two of them, and, if anything was committed     *)
(* when it began, shows something as new, whatever is committed while the  *)
(* files are read without the lock (build_history).                        *)
THEOREM StoreViewFaithful == Spec => []ViewFaithful
<1>1. StoreTypes /\ ViewInv => ViewFaithful
  <2> SUFFICES ASSUME StoreTypes, ViewInv, NEW t \in Readers,
                      reading[t].at = "stats", ~reading[t].disturbed
               PROVE  LET r == reading[t]
                          seen == View(r).lastN
                      IN  /\ \A i, j \in DOMAIN seen : i < j => seen[i].step < seen[j].step
                          /\ \A i \in DOMAIN seen : seen[i] \in ToSet(log[r.chain])
                          /\ faults = 0 =>
                               /\ \E k \in Len(seen)..Len(log[r.chain]) :
                                    seen = SubSeq(log[r.chain], k - Len(seen) + 1, k)
                               /\ r.before # <<>> =>
                                    seen # <<>> /\ Last(seen).step >= Last(r.before).step
    BY Zenon DEF ViewFaithful
  <2> DEFINE r == reading[t]
             c == r.chain
             L == log[c]
             s == r.outs
             seen == LastN(s, r.limit)
  <2>1. r \in Underway /\ r.at = "stats" /\ ~r.disturbed /\ ReadOf(r)
    BY ReadingTypes DEF ViewInv
  <2>2. /\ c \in Chains /\ r.before \in Seq(Recorded) /\ s \in Seq(Recorded)
        /\ r.limit \in Nat \ {0}
    BY <2>1, ReadingTypes
  <2>3. L \in Seq(Recorded) /\ Len(L) \in Nat /\ InOrder(L)
    BY <2>2, FilesTypes DEF ViewInv, FilesInv, FilesOf
  <2>4. /\ Prefix(r.before, L) /\ InOrder(s) /\ Among(s, L)
        /\ faults = 0 =>
             /\ \E k \in Len(r.before)..Len(L) : EndsAt(s, L, k)
             /\ r.before # <<>> => s # <<>>
    BY <2>1 DEF ReadOf, Read
  <2>5. View(r).lastN = seen
    BY DEF View
  <2>6. /\ seen \in Seq(Recorded) /\ EndsAt(seen, s, Len(s))
        /\ s # <<>> => seen # <<>>
    BY <2>2, LastNPiece
  <2> HIDE DEF r, c, L, s, seen
  <2>7. DOMAIN seen = 1..Len(seen) /\ Len(seen) \in Nat /\ Len(s) \in Int
        /\ DOMAIN L = 1..Len(L)
    BY <2>2, <2>3, <2>6
  <2>8. InOrder(seen) /\ Among(seen, L)
    BY <2>2, <2>3, <2>4, <2>6, <2>7, PieceOfPiece
  <2>9. \A i, j \in DOMAIN seen : i < j => seen[i].step < seen[j].step
    BY <2>7, <2>8 DEF InOrder
  <2>10. \A i \in DOMAIN seen : seen[i] \in ToSet(L)
    BY <2>7, <2>8 DEF Among, ToSet
  <2>11. ASSUME faults = 0
         PROVE  /\ \E k \in Len(seen)..Len(L) : seen = SubSeq(L, k - Len(seen) + 1, k)
                /\ r.before # <<>> =>
                     seen # <<>> /\ Last(seen).step >= Last(r.before).step
    <3>1. PICK k \in Len(r.before)..Len(L) : EndsAt(s, L, k)
      BY <2>4, <2>11
    <3>2. k \in Int /\ Len(r.before) \in Nat /\ Len(r.before) <= k
      BY <2>2, <2>3
    <3>3. EndsAt(seen, L, k - Len(s) + Len(s))
      BY <2>2, <2>3, <2>6, <2>7, <3>1, <3>2, PieceOfPiece
    <3>4. k - Len(s) + Len(s) = k
      BY <2>7, <3>2
    <3>5. /\ Len(seen) <= k /\ k <= Len(L)
          /\ \A i \in 1..Len(seen) : seen[i] = L[k - Len(seen) + i]
      BY <3>3, <3>4 DEF EndsAt
    <3>6. seen = SubSeq(L, k - Len(seen) + 1, k)
      <4> DEFINE m == k - Len(seen) + 1
                 u == SubSeq(L, m, k)
      <4>1. m \in Int /\ k \in Int /\ m >= 1 /\ k - m + 1 = Len(seen)
        BY <2>7, <3>2, <3>5
      <4>2. \A i \in m..k : L[i] \in Recorded
        <5>1. \A i \in m..k : i \in 1..Len(L)
          BY <2>3, <3>2, <3>5, <4>1
        <5> QED BY <2>3, <5>1
      <4> HIDE DEF m
      <4>3. /\ u \in Seq(Recorded)
            /\ Len(u) = IF m <= k THEN k - m + 1 ELSE 0
            /\ \A i \in 1..k - m + 1 : u[i] = L[m + i - 1]
        BY <4>1, <4>2, SubSeqProperties
      <4> HIDE DEF u
      <4>4. Len(u) = Len(seen)
        BY <2>7, <4>1, <4>3
      <4>5. ASSUME NEW i \in 1..Len(seen) PROVE seen[i] = u[i]
        <5>1. m + i - 1 = k - Len(seen) + i
          BY <2>7, <3>2 DEF m
        <5>2. u[i] = L[m + i - 1]
          BY <4>1, <4>3
        <5> QED BY <3>5, <5>1, <5>2
      <4>6. seen = u
        BY <2>6, <4>3, <4>4, <4>5, SeqEqual
      <4> QED BY <4>6 DEF u, m
    <3>7. k \in Len(seen)..Len(L)
      BY <2>3, <2>7, <3>2, <3>5
    <3>8. ASSUME r.before # <<>>
          PROVE  seen # <<>> /\ Last(seen).step >= Last(r.before).step
      <4>1. seen # <<>>
        BY <2>4, <2>6, <2>11, <3>8
      <4>2. Len(seen) \in 1..Len(seen) /\ k - Len(seen) + Len(seen) = k
        BY <2>6, <2>7, <3>2, <4>1
      <4>3. Last(seen) = L[k]
        BY <3>5, <4>2 DEF Last
      <4> DEFINE b == Len(r.before)
      <4>4. b \in 1..Len(L) /\ b <= k /\ k \in 1..Len(L) /\ b \in 1..Len(r.before)
        BY <2>2, <2>3, <3>2, <3>5, <3>8
      <4>5. Last(r.before) = L[b]
        BY <2>4, <4>4 DEF Last, Prefix
      <4> HIDE DEF b
      <4>6. L[b].step <= L[k].step
        <5>1. CASE b = k
          <6>1. L[k] \in Recorded
            BY <2>3, <4>4
          <6>2. L[k].step \in Nat
            BY <6>1 DEF Recorded
          <6> QED BY <5>1, <6>2
        <5>2. CASE b # k
          <6>1. b < k
            BY <4>4, <5>2
          <6>2. L[b] \in Recorded /\ L[k] \in Recorded
            BY <2>3, <4>4
          <6>3. L[b].step \in Nat /\ L[k].step \in Nat
            BY <6>2 DEF Recorded
          <6> QED BY <2>3, <4>4, <6>1, <6>3 DEF InOrder
        <5> QED BY <5>1, <5>2
      <4>7. L[b].step \in Nat /\ L[k].step \in Nat
        <5>1. L[b] \in Recorded /\ L[k] \in Recorded
          BY <2>3, <4>4
        <5> QED BY <5>1 DEF Recorded
      <4> QED BY <4>1, <4>3, <4>5, <4>6, <4>7
    <3> QED BY <3>6, <3>7, <3>8
  <2> QED BY <2>5, <2>9, <2>10, <2>11, Zenon DEF r, L, c
<1>2. StoreTypes /\ ViewInv /\ [Next]_vars => ViewInv'
  BY NextKeepsView
<1> QED BY <1>1, <1>2, InitTypes, NextTypes, InitView, PTL DEF Spec

-----------------------------------------------------------------------------
(* The stores side by side. *)

(* Feeding the other stores adds nothing to what a FileStore does: what is  *)
(* shown of it alone holds beside them (StoreProtocol).                    *)
THEOREM StoresImplementFileStore == StoresSpec => Spec
<1>1. StoresInit => Init
  BY DEF StoresInit
<1>2. [StoresNext]_svars => [Next]_vars
  BY DEF StoresNext, svars
<1> QED BY <1>1, <1>2, PTL DEF StoresSpec, Spec

-----------------------------------------------------------------------------
(* Windows: the last outcomes of a chain. *)

(* How many outcomes a window has, and where its first is.                 *)
LEMMA LastNLength ==
  ASSUME NEW s \in Seq(Recorded), NEW n \in Nat \ {0}
  PROVE  Len(LastN(s, n)) = Least(Len(s), n)
<1> DEFINE m == IF Len(s) > n THEN Len(s) - n + 1 ELSE 1
<1>1. Len(s) \in Nat /\ m \in Nat \ {0} /\ m <= Len(s) + 1
  OBVIOUS
<1>2. \A i \in m..Len(s) : s[i] \in Recorded
  <2>1. \A i \in m..Len(s) : i \in 1..Len(s)
    BY <1>1
  <2> QED BY <2>1
<1>3. LastN(s, n) = SubSeq(s, m, Len(s))
  BY DEF LastN
<1>4. Least(Len(s), n) = Len(s) - m + 1
  <2>1. PICK k \in Nat : k = Len(s)
    BY <1>1
  <2>2. Least(k, n) = k - (IF k > n THEN k - n + 1 ELSE 1) + 1
    BY DEF Least
  <2> QED BY <2>1, <2>2
<1> HIDE DEF m
<1>5. m \in Int /\ Len(s) \in Int
  BY <1>1
<1>6. Len(SubSeq(s, m, Len(s))) = IF m <= Len(s) THEN Len(s) - m + 1 ELSE 0
  BY <1>2, <1>5, SubSeqProperties
<1> QED BY <1>1, <1>3, <1>4, <1>6

(* Two pieces as long as each other that end at the same place are equal.  *)
LEMMA SamePiece ==
  ASSUME NEW s \in Seq(Recorded), NEW t \in Seq(Recorded), NEW all, NEW k,
         EndsAt(s, all, k), EndsAt(t, all, k), Len(s) = Len(t)
  PROVE  s = t
<1>1. \A i \in 1..Len(s) : s[i] = t[i]
  BY DEF EndsAt
<1> QED BY <1>1, SeqEqual

(* The window of an end of the outcomes is theirs, if the end has as many  *)
(* outcomes as the window asks for (MemoryStore.commit; build_history).    *)
LEMMA WindowOfEnd ==
  ASSUME NEW s \in Seq(Recorded), NEW t \in Seq(Recorded), NEW n \in Nat \ {0},
         EndsAt(s, t, Len(t)), Len(s) >= Least(n, Len(t))
  PROVE  LastN(s, n) = LastN(t, n)
<1> DEFINE u == LastN(s, n)
           v == LastN(t, n)
<1>1. /\ u \in Seq(Recorded) /\ EndsAt(u, s, Len(s))
      /\ v \in Seq(Recorded) /\ EndsAt(v, t, Len(t))
  BY LastNPiece
<1>2. Len(u) = Least(Len(s), n) /\ Len(v) = Least(Len(t), n)
  BY LastNLength
<1>3. Len(s) \in Int /\ Len(t) \in Int /\ Len(s) <= Len(t)
  BY DEF EndsAt
<1>4. Len(u) = Len(v)
  BY <1>2, <1>3 DEF Least
<1> HIDE DEF u, v
<1>5. EndsAt(u, t, Len(t) - Len(s) + Len(s))
  BY <1>1, <1>3, PieceOfPiece
<1>6. Len(t) - Len(s) + Len(s) = Len(t)
  BY <1>3
<1> QED BY <1>1, <1>4, <1>5, <1>6, SamePiece DEF u, v

(* The window of a chain with one more outcome is that of its window with  *)
(* it (MemoryStore.commit drops what is beyond its cap at each commit).    *)
LEMMA WindowAppended ==
  ASSUME NEW t \in Seq(Recorded), NEW o \in Recorded, NEW n \in Nat \ {0}
  PROVE  LastN(Append(LastN(t, n), o), n) = LastN(Append(t, o), n)
<1> DEFINE u == LastN(t, n)
<1>1. u \in Seq(Recorded) /\ EndsAt(u, t, Len(t)) /\ Len(u) = Least(Len(t), n)
  BY LastNPiece, LastNLength
<1> HIDE DEF u
<1>2. /\ Append(u, o) \in Seq(Recorded) /\ Len(Append(u, o)) = Len(u) + 1
      /\ Append(t, o) \in Seq(Recorded) /\ Len(Append(t, o)) = Len(t) + 1
      /\ Len(t) \in Nat /\ Len(u) \in Nat
  BY <1>1, AppendProperties
<1>3. EndsAt(Append(u, o), Append(t, o), Len(Append(t, o)))
  <2> DEFINE a == Append(u, o)
             b == Append(t, o)
  <2>1. /\ a[Len(u) + 1] = o /\ b[Len(t) + 1] = o
        /\ \A i \in 1..Len(u) : a[i] = u[i]
        /\ \A i \in 1..Len(t) : b[i] = t[i]
    BY <1>1, AppendProperties
  <2>2. Len(a) = Len(u) + 1 /\ Len(b) = Len(t) + 1
    BY <1>2
  <2> HIDE DEF a, b
  <2>3. Len(u) <= Len(t) /\ \A i \in 1..Len(u) : u[i] = t[Len(t) - Len(u) + i]
    BY <1>1 DEF EndsAt
  <2>4. ASSUME NEW i \in 1..Len(a) PROVE a[i] = b[Len(b) - Len(a) + i]
    <3>1. Len(b) - Len(a) + i = Len(t) - Len(u) + i
      BY <1>2, <2>2
    <3>2. CASE i = Len(u) + 1
      <4>1. Len(t) - Len(u) + i = Len(t) + 1
        BY <1>2, <3>2
      <4> QED BY <2>1, <3>1, <3>2, <4>1
    <3>3. CASE i # Len(u) + 1
      <4>1. i \in 1..Len(u) /\ Len(t) - Len(u) + i \in 1..Len(t)
        BY <1>2, <2>2, <2>3, <3>3
      <4> QED BY <2>1, <2>3, <3>1, <4>1
    <3> QED BY <3>2, <3>3
  <2>5. Len(a) <= Len(b)
    BY <1>2, <2>2, <2>3
  <2>6. EndsAt(a, b, Len(b))
    BY <1>2, <2>2, <2>4, <2>5 DEF EndsAt
  <2> QED BY <2>6 DEF a, b
<1>4. Len(Append(u, o)) >= Least(n, Len(Append(t, o)))
  BY <1>1, <1>2 DEF Least
<1> QED BY <1>2, <1>3, <1>4, WindowOfEnd DEF u

(* The smaller of two numbers.                                             *)
LEMMA MinOfTwo ==
  ASSUME NEW a \in Nat, NEW b \in Nat
  PROVE  Min({a, b}) = Least(a, b)
<1>1. \A x \in {a, b} : x <= a + b
  OBVIOUS
<1>2. {a, b} \in SUBSET Nat /\ {a, b} # {} /\ a + b \in Nat
  OBVIOUS
<1>3. Min({a, b}) \in {a, b} /\ \A x \in {a, b} : Min({a, b}) <= x
  BY <1>1, <1>2, MinMax
<1> QED BY <1>3 DEF Least

(* The failures at the end of a window are those at the end of all the     *)
(* outcomes, unless the whole window failed (MemoryStore.build_history     *)
(* counts them in the window, FileStore keeps them running).               *)
LEMMA FailuresInWindow ==
  ASSUME NEW s \in Seq(Recorded), NEW n \in Nat \ {0}
  PROVE  TrailingFailures(LastN(s, n)) =
            Min({TrailingFailures(s), Len(LastN(s, n))})
<1> DEFINE u == LastN(s, n)
           k == Len(s)
           m == Len(u)
           d == k - m
           oks(q) == {i \in DOMAIN q : q[i].status = "ok"}
<1>1. u \in Seq(Recorded) /\ EndsAt(u, s, Len(s)) /\ m \in Nat /\ k \in Nat
  BY LastNPiece
<1>2. m <= k /\ \A i \in 1..m : u[i] = s[k - m + i]
  BY <1>1 DEF EndsAt
<1>3. DOMAIN u = 1..m /\ DOMAIN s = 1..k
  BY <1>1
<1>4. /\ oks(u) \in SUBSET (1..m) /\ oks(s) \in SUBSET (1..k)
      /\ \A i \in 1..m : i \in oks(u) <=> u[i].status = "ok"
      /\ \A i \in 1..k : i \in oks(s) <=> s[i].status = "ok"
  BY <1>3
<1>5. /\ TrailingFailures(u) = m - (IF oks(u) = {} THEN 0 ELSE Max(oks(u)))
      /\ TrailingFailures(s) = k - (IF oks(s) = {} THEN 0 ELSE Max(oks(s)))
  BY Zenon DEF TrailingFailures, oks, m, k
<1>6. \A a, b \in Nat : Min({a, b}) = Least(a, b)
  BY MinOfTwo
<1> HIDE DEF oks, u, k, m
<1>7. oks(u) # {} => /\ Max(oks(u)) \in oks(u) /\ \A i \in oks(u) : i <= Max(oks(u))
  <2> SUFFICES ASSUME oks(u) # {}
               PROVE  Max(oks(u)) \in oks(u) /\ \A i \in oks(u) : i <= Max(oks(u))
    OBVIOUS
  <2>1. oks(u) \in SUBSET Nat /\ \A i \in oks(u) : i <= m
    BY <1>1, <1>4
  <2> QED BY <1>1, <2>1, MinMax
<1>8. oks(s) # {} => /\ Max(oks(s)) \in oks(s) /\ \A i \in oks(s) : i <= Max(oks(s))
  <2> SUFFICES ASSUME oks(s) # {}
               PROVE  Max(oks(s)) \in oks(s) /\ \A i \in oks(s) : i <= Max(oks(s))
    OBVIOUS
  <2>1. oks(s) \in SUBSET Nat /\ \A i \in oks(s) : i <= k
    BY <1>1, <1>4
  <2> QED BY <1>1, <2>1, MinMax
<1>9. d \in Nat
  BY <1>1, <1>2
<1>10. \A i \in 1..m : d + i \in 1..k /\ (i \in oks(u) <=> d + i \in oks(s))
  <2> SUFFICES ASSUME NEW i \in 1..m
               PROVE  d + i \in 1..k /\ (i \in oks(u) <=> d + i \in oks(s))
    OBVIOUS
  <2>1. d + i \in 1..k
    BY <1>1, <1>2
  <2>2. u[i] = s[d + i]
    BY <1>2
  <2> QED BY <1>4, <2>1, <2>2
<1>11. k = d + m
  BY <1>1
<1> HIDE DEF d
<1>12. CASE oks(u) = {}
  <2>1. TrailingFailures(u) = m
    BY <1>1, <1>5, <1>12
  <2>2. TrailingFailures(s) \in Nat /\ TrailingFailures(s) >= m
    <3>1. CASE oks(s) = {}
      BY <1>1, <1>2, <1>5, <3>1
    <3>2. CASE oks(s) # {}
      <4>1. PICK x \in Nat : x = Max(oks(s)) /\ x \in oks(s) /\ x \in 1..k
        BY <1>4, <1>8, <3>2
      <4>2. x <= d
        <5> SUFFICES ASSUME x > d PROVE FALSE
          BY <1>9, <4>1
        <5>1. PICK y \in Int : y = x - d
          BY <1>9, <4>1
        <5>2. y \in 1..m /\ d + y = x
          BY <1>1, <1>9, <1>11, <4>1, <5>1
        <5> QED BY <1>10, <1>12, <4>1, <5>2
      <4>3. TrailingFailures(s) = k - x
        BY <1>5, <3>2, <4>1
      <4> QED BY <1>1, <1>9, <1>11, <4>1, <4>2, <4>3
    <3> QED BY <3>1, <3>2
  <2>3. Least(TrailingFailures(s), m) = m
    BY <1>1, <2>2 DEF Least
  <2> QED BY <1>1, <1>6, <2>1, <2>2, <2>3 DEF u, m
<1>13. CASE oks(u) # {}
  <2>1. PICK x \in Nat : x = Max(oks(u)) /\ x \in oks(u) /\ x \in 1..m
    BY <1>4, <1>7, <1>13
  <2>2. d + x \in oks(s) /\ oks(s) # {}
    BY <1>10, <2>1
  <2>3. PICK y \in Nat : y = Max(oks(s)) /\ y \in oks(s) /\ y \in 1..k
    BY <1>4, <1>8, <2>2
  <2>4. d + x <= y
    BY <1>8, <2>2, <2>3
  <2>5. y <= d + x
    <3>1. PICK z \in Int : z = y - d
      BY <1>9, <2>3
    <3>2. z \in 1..m /\ d + z = y
      BY <1>1, <1>9, <1>11, <2>1, <2>3, <2>4, <3>1
    <3>3. z \in oks(u)
      BY <1>10, <2>3, <3>2
    <3>4. z <= x
      BY <1>7, <2>1, <3>3
    <3> QED BY <1>9, <2>1, <2>3, <3>1, <3>4
  <2>6. TrailingFailures(u) = m - x /\ TrailingFailures(s) = k - y
    BY <1>5, <1>13, <2>1, <2>2, <2>3
  <2>7. m - x = k - y /\ m - x \in Nat /\ m - x <= m
    BY <1>1, <1>9, <1>11, <2>1, <2>3, <2>4, <2>5
  <2>8. TrailingFailures(s) \in Nat /\ Least(TrailingFailures(s), m) = TrailingFailures(u)
    BY <1>1, <2>6, <2>7 DEF Least
  <2> QED BY <1>1, <1>6, <2>8 DEF u, m
<1> QED BY <1>12, <1>13

-----------------------------------------------------------------------------
(* The rows of a chain. *)

Rows == [chain : Chains, outcome : Recorded]

\* The rows as the lines of a file in which those of other chains are spoilt.
AsLines(all, c) ==
  [i \in 1..Len(all) |-> IF all[i].chain = c THEN all[i].outcome ELSE Corrupt]

(* They are selected as such lines are read.                               *)
LEMMA RowsAsLines ==
  ASSUME NEW table \in Seq(Rows), NEW c \in Chains
  PROVE  RowsOf(table, c) = Outcomes(AsLines(table, c)) /\ AsLines(table, c) \in Seq(Line)
<1> DEFINE n == Len(table)
           lines == AsLines(table, c)
           IsSelecting(g) ==
             g = [i \in 0..n |-> IF i = 0 THEN <<>> ELSE Selected(g[i - 1], table[i], c)]
<1>1. n \in Nat /\ \A i \in 1..n : table[i] \in Rows
  OBVIOUS
<1>2. /\ Len(lines) = n
      /\ \A i \in 1..n : lines[i] = IF table[i].chain = c THEN table[i].outcome ELSE Corrupt
  BY <1>1 DEF AsLines
<1>3. \A i \in 1..n : lines[i] \in Line
  <2> SUFFICES ASSUME NEW i \in 1..n PROVE lines[i] \in Line
    OBVIOUS
  <2>1. table[i].outcome \in Recorded
    BY <1>1 DEF Rows
  <2> QED BY <1>2, <2>1 DEF Line
<1>4. lines \in Seq(Line)
  <2>1. lines \in [1..n -> Line]
    <3>1. lines = [i \in 1..n |-> lines[i]]
      BY DEF AsLines
    <3> QED BY <1>3, <3>1
  <2> QED BY <1>1, <2>1
<1> HIDE DEF n, lines
<1>5. \A outs : \A i \in 1..n : Selected(outs, table[i], c) = Taken(outs, lines[i])
  <2> SUFFICES ASSUME NEW outs, NEW i \in 1..n
               PROVE  Selected(outs, table[i], c) = Taken(outs, lines[i])
    OBVIOUS
  <2>1. CASE table[i].chain = c
    <3>1. table[i].outcome.step # 0
      BY <1>1 DEF Rows, Recorded
    <3> QED BY <1>2, <2>1, <3>1 DEF Selected, Taken
  <2>2. CASE table[i].chain # c
    <3>1. lines[i].step = 0
      BY <1>2, <2>2 DEF Corrupt
    <3> QED BY <2>2, <3>1 DEF Selected, Taken
  <2> QED BY <2>1, <2>2
<1>6. \A g : IsSelecting(g) <=> IsReading(lines, n, g)
  <2> SUFFICES ASSUME NEW g PROVE IsSelecting(g) <=> IsReading(lines, n, g)
    OBVIOUS
  <2> DEFINE a(i) == IF i = 0 THEN <<>> ELSE Selected(g[i - 1], table[i], c)
             b(i) == IF i = 0 THEN <<>> ELSE Taken(g[i - 1], lines[i])
  <2>1. \A i \in 0..n : a(i) = b(i)
    <3> SUFFICES ASSUME NEW i \in 0..n, i # 0 PROVE a(i) = b(i)
      OBVIOUS
    <3>1. i \in 1..n
      BY <1>1
    <3> QED BY <1>5, <3>1
  <2>2. IsSelecting(g) <=> g = [i \in 0..n |-> a(i)]
    OBVIOUS
  <2>3. IsReading(lines, n, g) <=> g = [i \in 0..n |-> b(i)]
    BY Zenon DEF IsReading
  <2> HIDE DEF a, b, IsSelecting
  <2>4. [i \in 0..n |-> a(i)] = [i \in 0..n |-> b(i)]
    BY <2>1
  <2> QED BY <2>2, <2>3, <2>4
<1> DEFINE w == CHOOSE g : IsSelecting(g)
<1>7. RowsOf(table, c) = w[n]
  BY Zenon DEF RowsOf, n, w, IsSelecting
<1> HIDE DEF IsSelecting
<1>8. PICK h : IsReading(lines, n, h) /\ ReadTo(lines, n) = h[n]
  BY <1>1, ReadingExists
<1>9. IsReading(lines, n, w)
  <2>1. IsSelecting(h)
    BY <1>6, <1>8
  <2>2. IsSelecting(w)
    BY <2>1, Zenon
  <2> QED BY <1>6, <2>2
<1> HIDE DEF w
<1>10. w[n] = h[n]
  <2>1. SameUpTo(lines, lines, n) /\ n <= n
    BY <1>1 DEF SameUpTo
  <2> QED BY <1>1, <1>8, <1>9, <2>1, ReadSame
<1>11. Outcomes(lines) = ReadTo(lines, n)
  BY <1>2, Zenon DEF Outcomes, ReadTo
<1> QED BY <1>4, <1>7, <1>8, <1>10, <1>11 DEF lines

(* One row more is one outcome more of its chain, and of no other.         *)
LEMMA RowInserted ==
  ASSUME rows \in Seq(Rows), NEW c \in Chains, NEW d \in Chains, NEW o \in Recorded,
         rows' = Inserted(c, o)
  PROVE  /\ rows' \in Seq(Rows)
         /\ RowsOf(rows', d) =
              IF d = c THEN Append(RowsOf(rows, d), o) ELSE RowsOf(rows, d)
<1> DEFINE row == [chain |-> c, outcome |-> o]
           n == Len(rows)
           line == IF d = c THEN o ELSE Corrupt
           before == AsLines(rows, d)
           after == AsLines(rows', d)
<1>1. row \in Rows /\ rows' = Append(rows, row)
  BY DEF Rows, Inserted
<1>2. line \in Line /\ line # Torn
  BY LinesDiffer DEF Line
<1>3. /\ rows' \in Seq(Rows) /\ Len(rows') = n + 1 /\ n \in Nat /\ rows'[n + 1] = row
      /\ \A i \in 1..n : rows'[i] = rows[i]
  BY <1>1, AppendProperties
<1>4. /\ RowsOf(rows, d) = Outcomes(before) /\ before \in Seq(Line)
      /\ RowsOf(rows', d) = Outcomes(after) /\ after \in Seq(Line)
  BY <1>3, RowsAsLines
<1>5. after = Append(before, line)
  <2>1. /\ Len(before) = n /\ Len(after) = n + 1
        /\ \A i \in 1..n : before[i] = IF rows[i].chain = d THEN rows[i].outcome ELSE Corrupt
        /\ \A i \in 1..n + 1 :
             after[i] = IF rows'[i].chain = d THEN rows'[i].outcome ELSE Corrupt
    BY <1>3 DEF AsLines
  <2>2. /\ Len(Append(before, line)) = n + 1 /\ Append(before, line) \in Seq(Line)
        /\ Append(before, line)[n + 1] = line
        /\ \A i \in 1..n : Append(before, line)[i] = before[i]
    BY <1>2, <1>4, <2>1, AppendProperties
  <2> HIDE DEF before, after
  <2>3. ASSUME NEW i \in 1..n + 1 PROVE after[i] = Append(before, line)[i]
    <3>1. CASE i = n + 1
      <4>1. rows'[i].chain = c /\ rows'[i].outcome = o
        BY <1>3, <3>1
      <4> QED BY <2>1, <2>2, <3>1, <4>1
    <3>2. CASE i # n + 1
      <4>1. i \in 1..n
        BY <1>3, <3>2
      <4> QED BY <1>3, <2>1, <2>2, <4>1
    <3> QED BY <3>1, <3>2
  <2> QED BY <1>4, <2>1, <2>2, <2>3, SeqEqual
<1>6. \/ AppendedLine(before, line) = after
      \/ before # <<>> /\ Last(before) = Torn
  BY <1>5 DEF AppendedLine
<1>7. ~(before # <<>> /\ Last(before) = Torn)
  <2> SUFFICES ASSUME before # <<>> PROVE Last(before) # Torn
    OBVIOUS
  <2>1. /\ Len(before) = n
        /\ \A i \in 1..n : before[i] = IF rows[i].chain = d THEN rows[i].outcome ELSE Corrupt
    BY <1>3 DEF AsLines
  <2>2. n \in 1..n /\ Last(before) = before[n]
    <3>1. Len(before) # 0
      BY <1>4
    <3> QED BY <1>3, <2>1, <3>1 DEF Last
  <2>3. rows[n] \in Rows
    BY <2>2
  <2>4. rows[n].outcome \in Recorded
    BY <2>3 DEF Rows
  <2> QED BY <2>1, <2>2, <2>4, LinesDiffer
<1>8. Outcomes(after) = Taken(Outcomes(before), line)
  <2> HIDE DEF before, after, line
  <2> QED BY <1>2, <1>4, <1>6, <1>7, OutcomesAppended
<1>9. Taken(Outcomes(before), line) =
        IF d = c THEN Append(Outcomes(before), o) ELSE Outcomes(before)
  <2>1. o.step # 0 /\ Corrupt.step = 0
    BY DEF Recorded, Corrupt
  <2> QED BY <2>1 DEF Taken
<1> QED BY <1>3, <1>4, <1>8, <1>9

(* The newest rows, put back in order, are the window of the chain's rows  *)
(* (PgStore.build_history: ORDER BY id DESC LIMIT, then reversed).         *)
LEMMA NewestAreWindow ==
  ASSUME NEW c \in Chains, RowsOf(rows, c) \in Seq(Recorded), NEW n \in Nat \ {0},
         n <= MaxOutcomes
  PROVE  Reverse(NewestRows(c, n)) = LastN(RowsOf(rows, c), n)
<1> DEFINE s == RowsOf(rows, c)
           k == Len(s)
           rev == Reverse(s)
           m == Least(k, n)
           newest == SubSeq(rev, 1, m)
           w == Reverse(newest)
<1>1. k \in Nat /\ m \in Nat /\ m <= k
  BY DEF Least
<1>2. Len(rev) = k /\ \A i \in 1..k : rev[i] = s[k - i + 1]
  BY <1>1 DEF Reverse
<1>3. ClampedLimit(n, MaxOutcomes) = n
  BY StoresAssumption DEF ClampedLimit
<1>4. Min({k, n}) = m
  BY <1>1, MinOfTwo
<1>5. NewestRows(c, n) = newest
  BY <1>2, <1>3, <1>4, Zenon DEF NewestRows, newest, rev
<1>6. \A i \in 1..m : rev[i] \in Recorded
  <2> SUFFICES ASSUME NEW i \in 1..m PROVE rev[i] \in Recorded
    OBVIOUS
  <2>1. i \in 1..k /\ k - i + 1 \in 1..k
    BY <1>1
  <2>2. s[k - i + 1] \in Recorded
    BY <2>1
  <2> QED BY <1>2, <2>1, <2>2
<1>7. /\ Len(newest) = m /\ \A i \in 1..m : newest[i] = rev[i]
  <2> HIDE DEF rev, m
  <2>1. m \in Int /\ 1 \in Int
    BY <1>1
  <2>2. /\ Len(newest) = IF 1 <= m THEN m - 1 + 1 ELSE 0
        /\ \A i \in 1..m - 1 + 1 : newest[i] = rev[1 + i - 1]
    BY <1>6, <2>1, SubSeqProperties
  <2>3. Len(newest) = m
    BY <1>1, <2>2
  <2>4. ASSUME NEW i \in 1..m PROVE newest[i] = rev[i]
    <3>1. i \in 1..m - 1 + 1 /\ 1 + i - 1 = i
      BY <1>1
    <3> QED BY <2>2, <3>1
  <2> QED BY <2>3, <2>4
<1> HIDE DEF newest, rev, m
<1>8. Len(w) = m /\ \A i \in 1..m : w[i] = s[k - m + i]
  <2>1. w = [i \in 1..m |-> newest[(m - i) + 1]]
    BY <1>7 DEF Reverse
  <2>2. Len(w) = m
    BY <1>1, <2>1
  <2>3. ASSUME NEW i \in 1..m PROVE w[i] = s[k - m + i]
    <3>1. PICK j \in 1..m : j = (m - i) + 1
      BY <1>1
    <3>2. w[i] = newest[j] /\ newest[j] = rev[j]
      BY <1>7, <2>1, <3>1
    <3>3. j \in 1..k /\ k - j + 1 = k - m + i
      BY <1>1, <3>1
    <3> QED BY <1>2, <3>2, <3>3
  <2> QED BY <2>2, <2>3
<1>9. w \in Seq(Recorded)
  <2>1. w = [i \in 1..m |-> newest[(m - i) + 1]]
    BY <1>7 DEF Reverse
  <2>2. ASSUME NEW i \in 1..m PROVE newest[(m - i) + 1] \in Recorded
    <3>1. (m - i) + 1 \in 1..m
      BY <1>1
    <3> QED BY <1>6, <1>7, <3>1
  <2>3. w \in [1..m -> Recorded]
    BY <2>1, <2>2
  <2> QED BY <1>1, <2>3
<1>10. EndsAt(w, s, k)
  BY <1>1, <1>8 DEF EndsAt
<1>11. /\ LastN(s, n) \in Seq(Recorded) /\ EndsAt(LastN(s, n), s, k)
       /\ Len(LastN(s, n)) = m
  BY LastNPiece, LastNLength DEF m
<1> HIDE DEF w, s, k
<1>12. w = LastN(s, n)
  BY <1>8, <1>9, <1>10, <1>11, SamePiece
<1> QED BY <1>5, <1>12 DEF w, s

-----------------------------------------------------------------------------
(* What the other stores hold, and what a reader of this one has. *)

\* What was committed: to the statistics since the process began, to a
\* MemoryStore up to its cap, to a PgStore altogether.
Beside(c) ==
  /\ crashes = 0 => counted[c] = log[c]
  /\ chains[c] = LastN(log[c], MaxOutcomes)
  /\ RowsOf(rows, c) = log[c]

\* Every line of both files can be read.
Whole(c) ==
  faults = 0 => /\ Len(Outcomes(active[c])) = Len(active[c])
                /\ Len(Outcomes(rotated[c])) = Len(rotated[c])

\* While nothing is committed after a reader began, the files it reads stay.
Current(r) ==
  r.before = log[r.chain] =>
    /\ \A t \in Writers : rotation # <<t, r.chain>>
    /\ r.at = "rotated" => r.outs = Outcomes(active[r.chain])
    /\ r.at = "stats" =>
         \/ r.outs = InFiles(r.chain)
         \/ r.outs = Outcomes(active[r.chain]) /\ Len(r.outs) >= r.limit
Reader(r) ==
  r.at # "idle" =>
    /\ r.limit <= MaxHistory
    /\ crashes = 0 /\ r.fresh => r.before = <<>>
    /\ ~r.fresh => stats[r.chain] # <<>>
    /\ Current(r)

SideInv ==
  /\ rows \in Seq(Rows) /\ chains \in [Chains -> Seq(Recorded)]
  /\ \A c \in Chains : Beside(c) /\ Whole(c)
  /\ \A t \in Readers : Reader(reading[t])

\* A step that a reader of c may see: it commits to c, or leaves the files of c
\* as they are to read, or is of a rotation of c that was under way.
Seen(c) ==
  /\ crashes' = crashes
  /\ stats[c] # <<>> => stats'[c] # <<>>
  /\ \/ \E o \in Recorded : log'[c] = Append(log[c], o)
     \/ /\ log'[c] = log[c] /\ rotated'[c] = rotated[c]
        /\ Outcomes(active'[c]) = Outcomes(active[c])
        /\ \A t \in Writers : rotation' = <<t, c>> => rotation = <<t, c>>
     \/ log'[c] = log[c] /\ \E t \in Writers : rotation = <<t, c>>

\* The same reading, disturbed or not.
SameReading(q, r) ==
  /\ q.at = r.at /\ q.chain = r.chain /\ q.limit = r.limit
  /\ q.fresh = r.fresh /\ q.before = r.before /\ q.outs = r.outs

(* A reader that does nothing stays right about the files it reads.        *)
LEMMA ReaderStays ==
  ASSUME StoreTypes, NEW r \in Underway, ReadOf(r), Reader(r), Seen(r.chain),
         NEW q \in Underway, SameReading(q, r)
  PROVE  Reader(q)'
<1> DEFINE c == r.chain
           L == log[c]
<1>1. /\ r.at # "idle" /\ c \in Chains /\ r.before \in Seq(Recorded)
      /\ L \in Seq(Recorded) /\ Len(L) \in Nat
  BY ReadingTypes, FilesTypes
<1>2. Prefix(r.before, L)
  BY <1>1 DEF ReadOf
<1>3. /\ r.limit <= MaxHistory /\ (crashes = 0 /\ r.fresh => r.before = <<>>)
      /\ (~r.fresh => stats[c] # <<>>) /\ Current(r)
  BY <1>1 DEF Reader
<1>4. /\ crashes' = crashes /\ (stats[c] # <<>> => stats'[c] # <<>>)
      /\ \/ \E o \in Recorded : log'[c] = Append(L, o)
         \/ /\ log'[c] = L /\ rotated'[c] = rotated[c]
            /\ Outcomes(active'[c]) = Outcomes(active[c])
            /\ \A t \in Writers : rotation' = <<t, c>> => rotation = <<t, c>>
         \/ log'[c] = L /\ \E t \in Writers : rotation = <<t, c>>
  BY DEF Seen
<1>5. /\ q.at = r.at /\ q.chain = c /\ q.limit = r.limit
      /\ q.fresh = r.fresh /\ q.before = r.before /\ q.outs = r.outs
  BY DEF SameReading
<1>6. /\ q.limit <= MaxHistory /\ (crashes' = 0 /\ q.fresh => q.before = <<>>)
      /\ (~q.fresh => stats'[q.chain] # <<>>)
  BY <1>3, <1>4, <1>5, Zenon
<1>7. Current(q)'
  <2> SUFFICES ASSUME r.before = log'[c]
               PROVE  /\ \A t \in Writers : rotation' # <<t, c>>
                      /\ r.at = "rotated" => r.outs = Outcomes(active'[c])
                      /\ r.at = "stats" =>
                           \/ r.outs = Outcomes(rotated'[c]) \o Outcomes(active'[c])
                           \/ r.outs = Outcomes(active'[c]) /\ Len(r.outs) >= r.limit
    BY <1>5, Zenon DEF Current, InFiles
  <2>1. ~(\E o \in Recorded : log'[c] = Append(L, o))
    <3> SUFFICES ASSUME NEW o \in Recorded, log'[c] = Append(L, o) PROVE FALSE
      OBVIOUS
    <3>1. Len(r.before) = Len(L) + 1
      BY <1>1, AppendProperties
    <3> QED BY <1>1, <1>2, <3>1 DEF Prefix
  <2>2. r.before = L
    BY <1>4, <2>1
  <2>3. \A t \in Writers : rotation # <<t, c>>
    BY <1>3, <2>2 DEF Current
  <2>4. /\ rotated'[c] = rotated[c] /\ Outcomes(active'[c]) = Outcomes(active[c])
        /\ \A t \in Writers : rotation' = <<t, c>> => rotation = <<t, c>>
    BY <1>4, <2>1, <2>3
  <2>5. /\ r.at = "rotated" => r.outs = Outcomes(active[c])
        /\ r.at = "stats" =>
             \/ r.outs = Outcomes(rotated[c]) \o Outcomes(active[c])
             \/ r.outs = Outcomes(active[c]) /\ Len(r.outs) >= r.limit
    BY <1>3, <2>2, Zenon DEF Current, InFiles
  <2> QED BY <2>3, <2>4, <2>5, Zenon
<1> QED BY <1>6, <1>7 DEF Reader

(* So does every reader while none of them does anything.                  *)
LEMMA ReadersStay ==
  ASSUME StoreTypes, ViewInv, SideInv, NEW t \in Readers,
         \A c \in Chains : Seen(c), reading'[t] = reading[t]
  PROVE  Reader(reading[t])'
<1>1. PICK r \in Readings : r = reading[t]
  BY DEF ViewInv
<1>2. ReadOf(r) /\ Reader(r) /\ reading'[t] = r
  BY <1>1 DEF ViewInv, SideInv
<1>3. CASE r.at = "idle"
  BY <1>2, <1>3 DEF Reader
<1>4. CASE r.at # "idle"
  <2>1. r \in Underway /\ r.chain \in Chains
    BY <1>4, ReadingTypes
  <2>2. SameReading(r, r)
    BY DEF SameReading
  <2>3. Seen(r.chain)
    BY <2>1
  <2>4. Reader(r)'
    BY <1>2, <2>1, <2>2, <2>3, ReaderStays
  <2> QED BY <1>2, <2>4
<1> QED BY <1>3, <1>4

(* And all of them when one of them reads on.                              *)
LEMMA OneReads ==
  ASSUME StoreTypes, ViewInv, SideInv, NEW t \in Readers, NEW r \in Readings,
         reading' = [reading EXCEPT ![t] = r], Reader(r)', \A c \in Chains : Seen(c)
  PROVE  \A u \in Readers : Reader(reading[u])'
<1> SUFFICES ASSUME NEW u \in Readers PROVE Reader(reading[u])'
  OBVIOUS
<1>1. reading \in [Readers -> Readings]
  BY DEF ViewInv
<1>2. CASE u = t
  <2>1. reading'[u] = r
    BY <1>1, <1>2
  <2> QED BY <2>1
<1>3. CASE u # t
  <2>1. reading'[u] = reading[u]
    BY <1>1, <1>3
  <2> QED BY <2>1, ReadersStay
<1> QED BY <1>2, <1>3

\* What the other stores hold stays right, and so does what is read.
OthersKept ==
  /\ rows' \in Seq(Rows) /\ chains' \in [Chains -> Seq(Recorded)]
  /\ \A c \in Chains : Beside(c)' /\ Whole(c)'

(* A step that neither commits nor touches the files changes nothing here. *)
LEMMA NothingCommitted ==
  ASSUME StoreTypes, SideInv,
         UNCHANGED <<active, rotated, log, counted, crashes, stats, chains, rows>>,
         faults' = faults \/ faults' = faults + 1,
         rotation' = rotation \/ rotation' = <<>>
  PROVE  OthersKept /\ \A c \in Chains : Seen(c)
<1>1. rows' \in Seq(Rows) /\ chains' \in [Chains -> Seq(Recorded)]
  BY DEF SideInv
<1>2. ASSUME NEW c \in Chains PROVE Beside(c)' /\ Whole(c)' /\ Seen(c)
  <2>1. Beside(c) /\ Whole(c)
    BY DEF SideInv
  <2>2. Beside(c)'
    BY <2>1, Zenon DEF Beside
  <2>3. faults' = 0 => faults = 0
    BY DEF StoreTypes, HistoryTypes
  <2>4. Whole(c)'
    BY <2>1, <2>3 DEF Whole
  <2>5. \A t \in Writers : rotation' = <<t, c>> => rotation = <<t, c>>
    BY DEF Seen
  <2>6. Seen(c)
    BY <2>5, Zenon DEF Seen
  <2> QED BY <2>2, <2>4, <2>6
<1> QED BY <1>1, <1>2 DEF OthersKept

(* A commit is given to the other stores (StoreProtocol.commit).           *)
LEMMA CommitBeside ==
  ASSUME StoreTypes, ViewInv, SideInv, NEW t \in Writers, NEW c \in Chains,
         Commit(t, c), Fed
  PROVE  OthersKept /\ \A d \in Chains : Seen(d)
<1>1. PICK o : LineAdded(c, o)
  BY CommitLine
<1>2. /\ o \in Recorded /\ log'[c] = Append(log[c], o) /\ rotated'[c] = rotated[c]
      /\ \/ Outcomes(active'[c]) = Append(Outcomes(active[c]), o)
         \/ Outcomes(active'[c]) = Outcomes(active[c]) /\ faults # 0
      /\ faults = 0 => NoneSpoilt(active'[c])
  <2>1. FilesOf(c)
    BY DEF ViewInv, FilesInv
  <2> QED BY <1>1, <2>1, CommitReadable
<1>3. /\ active' = [active EXCEPT ![c] = AppendedLine(active[c], o)]
      /\ log' = [log EXCEPT ![c] = Append(log[c], o)]
      /\ rotated' = rotated /\ faults' = faults
  BY <1>1 DEF LineAdded
<1>4. rotation' \in {<<t, c>>, <<>>}
  BY CommitLine
<1>5. crashes' = crashes
  BY DEF Commit
<1>6. PICK p \in Recorded, s \in Statistics :
           /\ stats' = [stats EXCEPT ![c] = s]
           /\ counted' = [counted EXCEPT ![c] = Append(counted[c], p)]
           /\ log' = [log EXCEPT ![c] = Append(log[c], p)]
  <2>1. PICK q \in Recorded, new \in Statistics :
           LET kept == [new EXCEPT !.sinceRotate = new.sinceRotate + 1] IN
           /\ new = CountOutcome(StatsOf(c), q, context)
           /\ kept \in Statistics
           /\ active' = [active EXCEPT ![c] = AppendedLine(active[c], q)]
           /\ stats' = [stats EXCEPT ![c] = kept]
           /\ counted' = [counted EXCEPT ![c] = Append(counted[c], q)]
           /\ log' = [log EXCEPT ![c] = Append(log[c], q)]
           /\ \/ /\ FlushDue(new)
                 /\ flushing' = [flushing EXCEPT ![t] = <<<<c, new, counted'[c]>>>>]
              \/ ~FlushDue(new) /\ flushing' = flushing
           /\ \/ RotationDue(kept.sinceRotate) /\ rotation' = <<t, c>>
              \/ rotation' = <<>>
    BY CommitEffect
  <2>2. PICK s : s = [new EXCEPT !.sinceRotate = new.sinceRotate + 1]
    OBVIOUS
  <2>3. /\ s \in Statistics /\ stats' = [stats EXCEPT ![c] = s]
        /\ counted' = [counted EXCEPT ![c] = Append(counted[c], q)]
        /\ log' = [log EXCEPT ![c] = Append(log[c], q)]
    BY <2>1, <2>2, Zenon
  <2> QED BY <2>3, Zenon
<1>7. /\ active \in [Chains -> Seq(Line)] /\ rotated \in [Chains -> Seq(Line)]
      /\ log \in [Chains -> Seq(Recorded)] /\ counted \in [Chains -> Seq(Recorded)]
      /\ stats \in [Chains -> Statistics \cup {<<>>}] /\ faults \in Nat
  BY DEF StoreTypes, FileTypes, HistoryTypes, StatsTypes
<1>8. /\ log[c] \in Seq(Recorded) /\ Len(log[c]) \in Nat /\ Len(log'[c]) = Len(log[c]) + 1
      /\ log'[c] # log[c] /\ Last(log'[c]) = o
  <2>1. log[c] \in Seq(Recorded)
    BY FilesTypes
  <2>2. Len(Append(log[c], o)) = Len(log[c]) + 1 /\ Append(log[c], o)[Len(log[c]) + 1] = o
    BY <1>2, <2>1, AppendProperties
  <2>3. Last(log'[c]) = o
    BY <1>2, <2>2 DEF Last
  <2> QED BY <1>2, <2>1, <2>2, <2>3
<1>9. p = o
  <2>1. log'[c] = Append(log[c], p)
    BY <1>6, <1>7
  <2>2. Append(log[c], p)[Len(log[c]) + 1] = p /\ Append(log[c], o)[Len(log[c]) + 1] = o
    BY <1>2, <1>8, AppendProperties
  <2> QED BY <1>2, <2>1, <2>2
<1>10. \A d \in Chains : log'[d] = IF d = c THEN Append(log[c], o) ELSE log[d]
  BY <1>3, <1>7
<1>11. /\ chains' = [chains EXCEPT ![c] = MemoryAppended(chains[c], o)]
       /\ rows' = Inserted(c, o)
  <2>1. log' # log
    BY <1>8
  <2>2. (CHOOSE d \in Chains : log'[d] # log[d]) = c
    <3>1. \A d \in Chains : log'[d] # log[d] <=> d = c
      BY <1>8, <1>10
    <3> QED BY <3>1
  <2>3. LET d == CHOOSE d \in Chains : log'[d] # log[d]
            q == Last(log'[d])
        IN  /\ chains' = [chains EXCEPT ![d] = MemoryAppended(chains[d], q)]
            /\ rows' = Inserted(d, q)
    BY <2>1, Zenon DEF Fed
  <2> QED BY <1>8, <2>2, <2>3
<1>12. rows \in Seq(Rows) /\ MaxOutcomes \in Nat \ {0}
  BY StoresAssumption DEF SideInv
<1>13. rows' \in Seq(Rows)
  BY <1>2, <1>11, <1>12, RowInserted
<1>14. chains' \in [Chains -> Seq(Recorded)]
  <2>1. Append(chains[c], o) \in Seq(Recorded)
    BY <1>2, AppendProperties DEF SideInv
  <2>2. MemoryAppended(chains[c], o) \in Seq(Recorded)
    BY <1>12, <2>1, LastNPiece DEF MemoryAppended
  <2> QED BY <1>11, <2>2 DEF SideInv
<1>15. ASSUME NEW d \in Chains PROVE Beside(d)'
  <2>1. Beside(d)
    BY DEF SideInv
  <2>2. crashes' = 0 => counted'[d] = log'[d]
    BY <1>5, <1>6, <1>7, <1>9, <1>10, <2>1 DEF Beside
  <2>3. chains'[d] = LastN(log'[d], MaxOutcomes)
    <3>1. CASE d = c
      <4>1. chains'[c] = LastN(Append(LastN(log[c], MaxOutcomes), o), MaxOutcomes)
        BY <1>11, <2>1, <3>1 DEF SideInv, Beside, MemoryAppended
      <4> QED BY <1>2, <1>8, <1>12, <3>1, <4>1, WindowAppended
    <3>2. CASE d # c
      BY <1>10, <1>11, <2>1, <3>2 DEF SideInv, Beside
    <3> QED BY <3>1, <3>2
  <2>4. RowsOf(rows', d) = log'[d]
    <3>1. RowsOf(rows', d) = IF d = c THEN Append(RowsOf(rows, d), o) ELSE RowsOf(rows, d)
      BY <1>2, <1>11, <1>12, RowInserted
    <3> QED BY <1>10, <2>1, <3>1 DEF Beside
  <2> QED BY <2>2, <2>3, <2>4 DEF Beside
<1>16. ASSUME NEW d \in Chains PROVE Whole(d)'
  <2> SUFFICES ASSUME faults' = 0
               PROVE  /\ Len(Outcomes(active'[d])) = Len(active'[d])
                      /\ Len(Outcomes(rotated'[d])) = Len(rotated'[d])
    BY DEF Whole
  <2>1. /\ Len(Outcomes(active[d])) = Len(active[d])
        /\ Len(Outcomes(rotated'[d])) = Len(rotated'[d])
    BY <1>3 DEF SideInv, Whole
  <2>2. CASE d # c
    <3>1. active'[d] = active[d]
      BY <1>3, <1>7, <2>2
    <3> QED BY <2>1, <3>1
  <2>3. CASE d = c
    <3>1. Outcomes(active'[c]) = Append(Outcomes(active[c]), o) /\ NoneSpoilt(active[c])
      BY <1>2, <1>3 DEF ViewInv, FilesInv, FilesOf
    <3>2. active[c] \in Seq(Line) /\ o \in Line /\ Outcomes(active[c]) \in Seq(Recorded)
      BY <1>2, FilesTypes DEF Line
    <3>3. ~(active[c] # <<>> /\ Last(active[c]) = Torn)
      <4>1. active[c] # <<>> => Len(active[c]) \in 1..Len(active[c])
        BY <3>2
      <4> QED BY <3>1, <4>1 DEF NoneSpoilt, Last
    <3>4. active'[c] = Append(active[c], o)
      <4>1. AppendedLine(active[c], o) = Append(active[c], o)
        BY <3>3 DEF AppendedLine
      <4> QED BY <1>3, <1>7, <4>1
    <3>5. /\ Len(Append(active[c], o)) = Len(active[c]) + 1
          /\ Len(Append(Outcomes(active[c]), o)) = Len(Outcomes(active[c])) + 1
      BY <1>2, <3>2, AppendProperties
    <3> QED BY <2>1, <2>3, <3>1, <3>4, <3>5
  <2> QED BY <2>2, <2>3
<1>17. ASSUME NEW d \in Chains PROVE Seen(d)
  <2>1. stats[d] # <<>> => stats'[d] # <<>>
    BY <1>6, <1>7, StatisticsNotEmpty
  <2>2. CASE d = c
    BY <1>2, <1>5, <2>1, <2>2 DEF Seen
  <2>3. CASE d # c
    <3>1. log'[d] = log[d] /\ rotated'[d] = rotated[d] /\ active'[d] = active[d]
      BY <1>3, <1>7, <2>3
    <3>2. \A u \in Writers : rotation' = <<u, d>> => rotation = <<u, d>>
      BY <1>4, <2>3
    <3> QED BY <1>5, <2>1, <3>1, <3>2 DEF Seen
  <2> QED BY <2>2, <2>3
<1> QED BY <1>13, <1>14, <1>15, <1>16, <1>17 DEF OthersKept

(* A line that fails is given to no other store.                           *)
LEMMA AppendFailsBeside ==
  ASSUME StoreTypes, SideInv, NEW t \in Writers, NEW c \in Chains, AppendFails(t, c), Fed
  PROVE  OthersKept /\ \A d \in Chains : Seen(d)
<1>1. /\ \A d \in Chains : Outcomes(active'[d]) = Outcomes(active[d])
      /\ rotated' = rotated /\ log' = log /\ rotation' = rotation /\ faults' # 0
  BY AppendFailsReadable
<1>2. counted' = counted /\ crashes' = crashes /\ stats' = stats
  BY DEF AppendFails, history
<1>3. chains' = chains /\ rows' = rows
  BY <1>1 DEF Fed
<1>4. \A d \in Chains : Beside(d)' /\ Whole(d)'
  BY <1>1, <1>2, <1>3 DEF SideInv, Beside, Whole
<1>5. \A d \in Chains : Seen(d)
  BY <1>1, <1>2 DEF Seen
<1> QED BY <1>3, <1>4, <1>5 DEF OthersKept, SideInv

(* Nor are they told of a rotation, which moves whole lines.               *)
LEMMA RotateBeside ==
  ASSUME StoreTypes, StoreTypes', SideInv, NEW t \in Writers, NEW c \in Chains,
         Unlink(t, c) \/ Rename(t, c), Fed
  PROVE  OthersKept /\ \A d \in Chains : Seen(d)
<1>1. /\ rotation = <<t, c>> /\ rotation' \in {rotation, <<>>}
      /\ log' = log /\ counted' = counted /\ crashes' = crashes /\ faults' = faults
  BY DEF Unlink, Rename, bounds, history
<1>2. chains' = chains /\ rows' = rows
  BY <1>1 DEF Fed
<1>3. active \in [Chains -> Seq(Line)] /\ rotated \in [Chains -> Seq(Line)]
  BY DEF StoreTypes, FileTypes
<1>4. ASSUME NEW d \in Chains, d # c
      PROVE  active'[d] = active[d] /\ rotated'[d] = rotated[d]
  BY <1>3, <1>4 DEF Unlink, Rename
<1>5. ASSUME NEW d \in Chains PROVE stats[d] # <<>> => stats'[d] # <<>>
  <2>1. CASE Unlink(t, c)
    BY <2>1 DEF Unlink
  <2>2. CASE Rename(t, c)
    <3>1. stats' = [stats EXCEPT ![c] = [stats[c] EXCEPT !.sinceRotate = 0]]
      BY <2>2 DEF Rename
    <3>2. /\ stats \in [Chains -> Statistics \cup {<<>>}]
          /\ c \in Known(stats)
      BY <1>1 DEF StoreTypes, StatsTypes, LockTypes
    <3>3. stats[c] \in Statistics
      BY <3>2 DEF Known
    <3>4. [stats[c] EXCEPT !.sinceRotate = 0] \in Statistics
      BY <3>3 DEF Statistics, Fields
    <3>5. [stats[c] EXCEPT !.sinceRotate = 0] # <<>>
      BY <3>4, StatisticsNotEmpty
    <3> QED BY <3>1, <3>2, <3>5
  <2> QED BY <2>1, <2>2
<1>6. \A d \in Chains : Beside(d)'
  BY <1>1, <1>2, Zenon DEF SideInv, Beside
<1>7. ASSUME NEW d \in Chains PROVE Whole(d)'
  <2>1. Whole(d) /\ Whole(c)
    BY DEF SideInv
  <2>2. Outcomes(<<>>) = <<>>
    <3>1. <<>> \in Seq(Line) /\ Torn \in Line
      BY DEF Line
    <3> QED BY <3>1, OutcomesAppended
  <2>3. CASE d # c
    BY <1>1, <1>4, <2>1, <2>3 DEF Whole
  <2>4. CASE d = c /\ Unlink(t, c)
    <3>1. active' = active /\ rotated'[c] = <<>>
      BY <1>3, <2>4 DEF Unlink
    <3> QED BY <1>1, <2>1, <2>2, <2>4, <3>1 DEF Whole
  <2>5. CASE d = c /\ Rename(t, c)
    <3>1. active'[c] = <<>> /\ rotated'[c] = active[c]
      BY <1>3, <2>5 DEF Rename
    <3> QED BY <1>1, <2>1, <2>2, <2>5, <3>1 DEF Whole
  <2> QED BY <2>3, <2>4, <2>5
<1>8. ASSUME NEW d \in Chains PROVE Seen(d)
  <2>1. CASE d = c
    BY <1>1, <1>5, <2>1 DEF Seen
  <2>2. CASE d # c
    <3>1. \A u \in Writers : rotation' = <<u, d>> => rotation = <<u, d>>
      BY <1>1
    <3> QED BY <1>1, <1>4, <1>5, <2>2, <3>1 DEF Seen
  <2> QED BY <2>1, <2>2
<1> QED BY <1>2, <1>6, <1>7, <1>8 DEF OthersKept, SideInv

(* A reader begins with what was committed, and with no statistics only if *)
(* nothing was.                                                            *)
LEMMA BeginReadSide ==
  ASSUME StoreTypes, AccountInv, ViewInv, SideInv, NEW t \in Readers, NEW c \in Chains,
         NEW limit \in Limits, BeginRead(t, c, limit)
  PROVE  \E r \in Readings : reading' = [reading EXCEPT ![t] = r] /\ Reader(r)'
<1> DEFINE begun ==
             [at |-> "active", chain |-> c, limit |-> ClampedLimit(limit, MaxHistory),
              fresh |-> stats[c] = <<>>, before |-> log[c], outs |-> <<>>,
              disturbed |-> FALSE]
<1>0. PICK r : r = begun
  OBVIOUS
<1>1. /\ reading' = [reading EXCEPT ![t] = r] /\ log' = log /\ stats' = stats
      /\ crashes' = crashes /\ rotation = <<>> /\ rotation' = rotation
  BY <1>0 DEF BeginRead, LockFree, bounds, history
<1>2. log[c] \in Seq(Recorded) /\ (stats[c] = <<>>) \in BOOLEAN /\ <<>> \in Seq(Recorded)
  BY FilesTypes
<1>3. r \in Underway
  BY <1>0, <1>2, LimitTypes DEF Underway
<1>4. /\ r.at = "active" /\ r.before = log[c] /\ r.chain = c
      /\ (r.fresh <=> stats[c] = <<>>) /\ r.limit = ClampedLimit(limit, MaxHistory)
  BY <1>0
<1> HIDE DEF begun
<1>5. r.limit <= MaxHistory
  <2>1. limit \in Int /\ MaxHistory \in Nat \ {0}
    BY FileStoreAssumption
  <2> QED BY <1>4, <2>1 DEF ClampedLimit
<1>6. ASSUME crashes = 0, stats[c] = <<>> PROVE log[c] = <<>>
  <2>1. counted[c] = log[c]
    BY <1>6 DEF SideInv, Beside
  <2>2. StatsOf(c).total = Len(counted[c])
    BY DEF AccountInv, AccountOf, Account, CountsOf
  <2>3. StatsOf(c).total = 0
    BY <1>6 DEF StatsOf, FreshStats
  <2>4. Len(log[c]) = 0
    BY <2>1, <2>2, <2>3, Zenon
  <2> QED BY <1>2, <2>4
<1>7. Current(r)'
  BY <1>1, <1>4 DEF Current
<1>8. Reader(r)'
  BY <1>1, <1>4, <1>5, <1>6, <1>7 DEF Reader
<1> QED BY <1>1, <1>3, <1>8, ReadingTypes

(* It reads the active file, and the older one if that had too little.     *)
LEMMA ReadOnSide ==
  ASSUME StoreTypes, ViewInv, SideInv, NEW t \in Readers, ReadActive(t) \/ ReadRotated(t)
  PROVE  \E r \in Readings : reading' = [reading EXCEPT ![t] = r] /\ Reader(r)'
<1>1. PICK q \in Readings : q = reading[t]
  BY DEF ViewInv
<1>2. q \in Underway /\ ReadOf(q) /\ Reader(q) /\ q.at # "idle"
  BY <1>1, ReadingTypes DEF ReadActive, ReadRotated, ViewInv, SideInv
<1> DEFINE c == q.chain
           A == Outcomes(active[c])
           R == Outcomes(rotated[c])
<1>3. /\ active' = active /\ rotated' = rotated /\ log' = log /\ stats' = stats
      /\ crashes' = crashes /\ rotation' = rotation
  BY DEF ReadActive, ReadRotated, bounds, history
<1>4. /\ c \in Chains /\ A \in Seq(Recorded) /\ R \in Seq(Recorded)
      /\ q.limit \in Nat \ {0} /\ q.outs \in Seq(Recorded)
      /\ R \o q.outs \in Seq(Recorded)
  <2>1. c \in Chains /\ q.limit \in Nat \ {0} /\ q.outs \in Seq(Recorded)
    BY <1>2, ReadingTypes
  <2>2. A \in Seq(Recorded) /\ R \in Seq(Recorded)
    BY <2>1, FilesTypes
  <2> QED BY <2>1, <2>2, Together
<1>5. /\ q.limit <= MaxHistory /\ (crashes = 0 /\ q.fresh => q.before = <<>>)
      /\ (~q.fresh => stats[c] # <<>>) /\ Current(q)
  BY <1>2 DEF Reader
<1>6. ASSUME NEW r \in Underway, reading' = [reading EXCEPT ![t] = r],
             r.chain = c, r.limit = q.limit, r.fresh = q.fresh, r.before = q.before,
             \/ r.at = "rotated" /\ r.outs = A
             \/ r.at = "stats" /\ r.outs = A /\ Len(A) >= q.limit
             \/ r.at = "stats" /\ r.outs = R \o q.outs /\ q.at = "rotated"
      PROVE  \E s \in Readings : reading' = [reading EXCEPT ![t] = s] /\ Reader(s)'
  <2>1. Current(r)'
    <3> SUFFICES ASSUME q.before = log[c]
                 PROVE  /\ \A u \in Writers : rotation # <<u, c>>
                        /\ r.at = "rotated" => r.outs = A
                        /\ r.at = "stats" =>
                             \/ r.outs = R \o A
                             \/ r.outs = A /\ Len(r.outs) >= r.limit
      BY <1>3, <1>6, Zenon DEF Current, InFiles
    <3>1. /\ \A u \in Writers : rotation # <<u, c>>
          /\ q.at = "rotated" => q.outs = A
      BY <1>5 DEF Current
    <3> HIDE DEF A, R, c
    <3> QED BY <1>6, <3>1
  <2>2. Reader(r)'
    BY <1>3, <1>5, <1>6, <2>1, Zenon DEF Reader
  <2> QED BY <1>6, <2>2, ReadingTypes
<1>7. CASE ReadActive(t)
  <2> DEFINE next == [q EXCEPT !.outs = A,
                               !.at = IF Len(A) < q.limit THEN "rotated" ELSE "stats"]
  <2>1. reading' = [reading EXCEPT ![t].outs = A,
                       ![t].at = IF Len(A) < q.limit THEN "rotated" ELSE "stats"]
    BY <1>1, <1>7 DEF ReadActive
  <2>2. reading \in [Readers -> Readings] /\ q = reading[t]
    BY <1>1 DEF ViewInv
  <2>3. reading' = [reading EXCEPT ![t] = next]
    BY <2>1, <2>2
  <2>4. /\ next \in Underway /\ next.chain = c /\ next.limit = q.limit
        /\ next.fresh = q.fresh /\ next.before = q.before /\ next.outs = A
        /\ next.at = IF Len(A) < q.limit THEN "rotated" ELSE "stats"
    BY <1>2, <1>4 DEF Underway
  <2>5. Len(A) < q.limit \/ Len(A) >= q.limit
    <3>1. Len(A) \in Nat
      BY <1>4
    <3> QED BY <1>4, <3>1
  <2> HIDE DEF next, A, R, c
  <2> QED BY <1>6, <2>3, <2>4, <2>5
<1>8. CASE ReadRotated(t)
  <2> DEFINE next == [q EXCEPT !.outs = R \o q.outs, !.at = "stats"]
  <2>1. reading' = [reading EXCEPT ![t].outs = R \o reading[t].outs, ![t].at = "stats"]
    BY <1>1, <1>8 DEF ReadRotated
  <2>2. reading \in [Readers -> Readings] /\ q = reading[t] /\ q.at = "rotated"
    BY <1>1, <1>8 DEF ViewInv, ReadRotated
  <2>3. reading' = [reading EXCEPT ![t] = next]
    BY <2>1, <2>2
  <2>4. /\ next \in Underway /\ next.chain = c /\ next.limit = q.limit
        /\ next.fresh = q.fresh /\ next.before = q.before /\ next.outs = R \o q.outs
        /\ next.at = "stats"
    BY <1>2, <1>4 DEF Underway
  <2> HIDE DEF next, A, R, c
  <2> QED BY <1>6, <2>2, <2>3, <2>4
<1> QED BY <1>7, <1>8

(* Every step of the stores keeps what they hold and what is read.         *)
LEMMA NextSide ==
  StoreTypes /\ StoreTypes' /\ AccountInv /\ ViewInv /\ SideInv /\ [StoresNext]_svars
    => SideInv'
<1> SUFFICES ASSUME StoreTypes, StoreTypes', AccountInv, ViewInv, SideInv, [StoresNext]_svars
             PROVE  SideInv'
  OBVIOUS
<1>1. ASSUME OthersKept, \A c \in Chains : Seen(c), reading' = reading
      PROVE  SideInv'
  <2>1. \A t \in Readers : Reader(reading[t])'
    BY <1>1, ReadersStay
  <2> QED BY <1>1, <2>1 DEF OthersKept, SideInv
<1>2. ASSUME OthersKept, \A c \in Chains : Seen(c), NEW t \in Readers, NEW r \in Readings,
             reading' = [reading EXCEPT ![t] = r], Reader(r)'
      PROVE  SideInv'
  <2>1. \A u \in Readers : Reader(reading[u])'
    BY <1>2, OneReads
  <2> QED BY <1>2, <2>1 DEF OthersKept, SideInv
<1>3. CASE UNCHANGED svars
  <2>1. /\ UNCHANGED <<active, rotated, log, counted, crashes, stats, chains, rows>>
        /\ faults' = faults /\ rotation' = rotation /\ reading' = reading
    BY <1>3 DEF svars, vars, bounds, history
  <2>2. OthersKept /\ \A c \in Chains : Seen(c)
    BY <2>1, NothingCommitted
  <2> QED BY <1>1, <2>1, <2>2
<1>4. CASE StoresNext
  <2>0. Next /\ Fed
    BY <1>4 DEF StoresNext
  <2>1. ASSUME UNCHANGED <<active, rotated, log, counted, crashes, stats>>,
               faults' = faults \/ faults' = faults + 1,
               rotation' = rotation \/ rotation' = <<>>
        PROVE  OthersKept /\ \A c \in Chains : Seen(c)
    <3>1. chains' = chains /\ rows' = rows
      BY <2>0, <2>1 DEF Fed
    <3> QED BY <2>1, <3>1, NothingCommitted
  <2>2. CASE SetBudgetContext
    BY <1>1, <2>1, <2>2 DEF SetBudgetContext, bounds, history
  <2>3. ASSUME NEW t \in Writers, Close(t) \/ WriteStats(t) PROVE SideInv'
    <3>1. /\ UNCHANGED <<active, rotated, log, counted, crashes, stats>>
          /\ reading' = reading /\ rotation' = rotation
          /\ faults' = faults \/ faults' = faults + 1
      BY <2>3 DEF Close, WriteStats, bounds, history
    <3> QED BY <1>1, <2>1, <3>1
  <2>4. ASSUME NEW t \in Writers, NEW c \in Chains, RotationFails(t, c) PROVE SideInv'
    BY <1>1, <2>1, <2>4 DEF RotationFails, history
  <2>5. ASSUME NEW t \in Writers, NEW c \in Chains, Commit(t, c) PROVE SideInv'
    <3>1. reading' = reading
      BY <2>5 DEF Commit
    <3> QED BY <1>1, <2>0, <2>5, <3>1, CommitBeside
  <2>6. ASSUME NEW t \in Writers, NEW c \in Chains, AppendFails(t, c) PROVE SideInv'
    <3>1. reading' = reading
      BY <2>6 DEF AppendFails
    <3> QED BY <1>1, <2>0, <2>6, <3>1, AppendFailsBeside
  <2>7. ASSUME NEW t \in Writers, NEW c \in Chains, Unlink(t, c) \/ Rename(t, c)
        PROVE  SideInv'
    <3>1. OthersKept /\ \A d \in Chains : Seen(d)
      BY <2>0, <2>7, RotateBeside
    <3>2. reading' = [u \in Readers |-> AfterRotation(reading[u], c)]
      <4>1. reading' = Disturbed(c)
        BY <2>7 DEF Unlink, Rename
      <4>2. Disturbed(c) = [u \in Readers |-> AfterRotation(reading[u], c)]
        BY Zenon DEF Disturbed, AfterRotation
      <4> QED BY <4>1, <4>2
    <3>3. ASSUME NEW u \in Readers PROVE Reader(reading[u])'
      <4>1. PICK r \in Readings : r = reading[u]
        BY DEF ViewInv
      <4>2. PICK q : q = AfterRotation(r, c)
        OBVIOUS
      <4>3. reading'[u] = q /\ ReadOf(r) /\ Reader(r)
        BY <3>2, <4>1, <4>2 DEF ViewInv, SideInv
      <4>4. CASE r.at = "idle"
        BY <4>2, <4>3, <4>4 DEF AfterRotation, Reader
      <4>5. CASE r.at # "idle"
        <5>1. r \in Underway /\ r.chain \in Chains
          BY <4>5, ReadingTypes
        <5>2. q \in Underway /\ SameReading(q, r)
          BY <4>2, <5>1 DEF AfterRotation, Underway, SameReading
        <5>3. Seen(r.chain)
          BY <3>1, <5>1
        <5>4. Reader(q)'
          BY <4>3, <5>1, <5>2, <5>3, ReaderStays
        <5> QED BY <4>3, <5>4
      <4> QED BY <4>4, <4>5
    <3> QED BY <3>1, <3>3 DEF OthersKept, SideInv
  <2>8. ASSUME NEW t \in Readers,
               \/ \E c \in Chains, limit \in Limits : BeginRead(t, c, limit)
               \/ ReadActive(t) \/ ReadRotated(t) \/ EndRead(t)
        PROVE  SideInv'
    <3>1. OthersKept /\ \A c \in Chains : Seen(c)
      BY <2>1, <2>8 DEF BeginRead, ReadActive, ReadRotated, EndRead, bounds, history
    <3>2. \E r \in Readings : reading' = [reading EXCEPT ![t] = r] /\ Reader(r)'
      <4>1. CASE \E c \in Chains, limit \in Limits : BeginRead(t, c, limit)
        BY <4>1, BeginReadSide
      <4>2. CASE ReadActive(t) \/ ReadRotated(t)
        BY <4>2, ReadOnSide
      <4>3. CASE EndRead(t)
        <5>1. reading' = [reading EXCEPT ![t] = NotReading] /\ NotReading \in Readings
          BY <4>3, ReadingTypes DEF EndRead
        <5>2. Reader(NotReading)'
          BY ReadingTypes DEF Reader
        <5> QED BY <5>1, <5>2
      <4> QED BY <2>8, <4>1, <4>2, <4>3
    <3> QED BY <1>2, <3>1, <3>2
  <2>9. CASE Restart
    <3>1. /\ active' = active /\ rotated' = rotated /\ log' = log /\ faults' = faults
          /\ crashes' # 0 /\ reading' = [r \in Readers |-> NotReading]
      <4>1. crashes' = crashes + 1 /\ crashes \in Nat
        BY <2>9 DEF Restart, StoreTypes, HistoryTypes
      <4> QED BY <2>9, <4>1 DEF Restart
    <3>2. chains' = chains /\ rows' = rows
      BY <2>0, <3>1 DEF Fed
    <3>3. ASSUME NEW c \in Chains PROVE Beside(c)' /\ Whole(c)'
      <4>1. Beside(c) /\ Whole(c)
        BY DEF SideInv
      <4> QED BY <3>1, <3>2, <4>1 DEF Beside, Whole
    <3>4. \A t \in Readers : Reader(reading[t])'
      <4>1. Reader(NotReading)'
        BY ReadingTypes DEF Reader
      <4> QED BY <3>1, <4>1
    <3> QED BY <3>2, <3>3, <3>4 DEF SideInv
  <2> QED
    BY <2>0, <2>2, <2>3, <2>4, <2>5, <2>6, <2>7, <2>8, <2>9 DEF Next
<1> QED BY <1>3, <1>4

(* The stores are empty at first.                                          *)
LEMMA InitSide == StoresInit => SideInv
<1> SUFFICES ASSUME StoresInit PROVE SideInv
  OBVIOUS
<1>1. /\ log = [c \in Chains |-> <<>>] /\ counted = [c \in Chains |-> <<>>]
      /\ active = [c \in Chains |-> <<>>] /\ rotated = [c \in Chains |-> <<>>]
      /\ reading = [r \in Readers |-> NotReading]
      /\ chains = [c \in Chains |-> <<>>] /\ rows = <<>>
  BY DEF StoresInit, Init
<1>2. Outcomes(<<>>) = <<>>
  <2>1. <<>> \in Seq(Line) /\ Torn \in Line
    BY DEF Line
  <2> QED BY <2>1, OutcomesAppended
<1>3. rows \in Seq(Rows) /\ chains \in [Chains -> Seq(Recorded)]
  BY <1>1
<1>4. ASSUME NEW c \in Chains PROVE Beside(c) /\ Whole(c)
  <2>1. LastN(<<>>, MaxOutcomes) = <<>>
    <3>1. <<>> \in Seq(Recorded) /\ Len(<<>>) = 0
      OBVIOUS
    <3>2. /\ LastN(<<>>, MaxOutcomes) \in Seq(Recorded)
          /\ Len(LastN(<<>>, MaxOutcomes)) = Least(0, MaxOutcomes)
      BY <3>1, StoresAssumption, LastNPiece, LastNLength
    <3>3. Least(0, MaxOutcomes) = 0
      BY StoresAssumption DEF Least
    <3> QED BY <3>2, <3>3
  <2>2. RowsOf(rows, c) = <<>>
    <3>1. RowsOf(rows, c) = Outcomes(AsLines(rows, c))
      BY <1>3, RowsAsLines
    <3>2. AsLines(rows, c) = <<>>
      BY <1>1 DEF AsLines
    <3> QED BY <1>2, <3>1, <3>2
  <2> QED BY <1>1, <1>2, <2>1, <2>2 DEF Beside, Whole
<1>5. \A t \in Readers : Reader(reading[t])
  BY <1>1, ReadingTypes DEF Reader
<1> QED BY <1>3, <1>4, <1>5 DEF SideInv

(* Read between the same commits, with no failure, no restart and a limit  *)
(* that the files can meet, the three stores show the same outcomes and    *)
(* cost, and the streak of failures that FileStore keeps running is the    *)
(* one the others count in the window, unless the whole window failed      *)
(* (build_history of FileStore, MemoryStore and PgStore).                  *)
THEOREM StoresShowTheSame == StoresSpec => []StoresAgree
<1>1. StoreTypes /\ AccountInv /\ ViewInv /\ SideInv => StoresAgree
  <2> SUFFICES ASSUME StoreTypes, AccountInv, ViewInv, SideInv, NEW t \in Readers,
                      reading[t].at = "stats", reading[t].before = log[reading[t].chain],
                      faults = 0, crashes = 0,
                      HasLines(reading[t].chain, reading[t].limit)
               PROVE  LET r == reading[t]
                          file == View(r)
                          memory == MemoryView(r.chain, r.limit)
                      IN  /\ memory = PgView(r.chain, r.limit)
                          /\ file.lastN = memory.lastN
                          /\ file.rollingCost = memory.rollingCost
                          /\ file.depth = memory.depth
                          /\ memory.failureStreak = Min({file.failureStreak, file.depth})
    BY Zenon DEF StoresAgree
  <2> DEFINE r == reading[t]
             c == r.chain
             n == r.limit
             L == log[c]
             s == r.outs
             A == Outcomes(active[c])
             R == Outcomes(rotated[c])
             window == LastN(L, n)
             running == IF r.fresh THEN FreshStats ELSE stats[c]
  <2>1. r \in Underway /\ r.at = "stats" /\ r.before = L /\ Reader(r)
    BY ReadingTypes DEF ViewInv, SideInv
  <2>2. c \in Chains /\ s \in Seq(Recorded) /\ n \in Nat \ {0}
    BY <2>1, ReadingTypes
  <2>3. /\ L \in Seq(Recorded) /\ Len(L) \in Nat /\ A \in Seq(Recorded)
        /\ R \in Seq(Recorded) /\ Len(A) \in Nat /\ Len(R) \in Nat
    BY <2>2, FilesTypes
  <2>4. n <= MaxOutcomes /\ MaxOutcomes \in Nat \ {0} /\ n <= MaxHistory
    <3>1. n <= MaxHistory
      BY <2>1 DEF Reader
    <3> QED BY <2>2, <3>1, StoresAssumption, FileStoreAssumption
  <2>5. Beside(c) /\ Whole(c) /\ FilesOf(c) /\ AccountOf(c)
    BY <2>2 DEF SideInv, ViewInv, FilesInv, AccountInv
  <2>6. EndsAt(R \o A, L, Len(L))
    BY <2>5 DEF FilesOf, InFiles
  <2>7. s = R \o A \/ (s = A /\ Len(A) >= n)
    BY <2>1 DEF Reader, Current, InFiles
  <2>8. Len(R) + Len(A) >= Least(n, Len(L))
    <3>1. Len(rotated[c]) + Len(active[c]) >= Min({n, Len(L)})
      BY DEF HasLines
    <3>2. Min({n, Len(L)}) = Least(n, Len(L))
      BY <2>2, <2>3, MinOfTwo
    <3> QED BY <2>5, <3>1, <3>2 DEF Whole
  <2>9. LastN(s, n) = window
    <3>1. CASE s = R \o A
      <4>1. R \o A \in Seq(Recorded) /\ Len(R \o A) = Len(R) + Len(A)
        BY <2>3, Together
      <4> HIDE DEF L, n, s, A, R
      <4> QED BY <2>2, <2>3, <2>6, <2>8, <3>1, <4>1, WindowOfEnd
    <3>2. CASE s = A /\ Len(A) >= n
      <4> HIDE DEF L, n, s, A, R
      <4>1. /\ R \o A \in Seq(Recorded) /\ EndsAt(A, R \o A, Len(R \o A))
            /\ Len(R \o A) \in Int
        BY <2>3, Together
      <4>2. EndsAt(A, L, Len(L) - Len(R \o A) + Len(R \o A))
        <5>1. \A k \in Int : EndsAt(R \o A, L, k) =>
                EndsAt(A, L, k - Len(R \o A) + Len(R \o A))
          BY <2>3, <4>1, PieceOfPiece
        <5>2. Len(L) \in Int
          BY <2>3
        <5> QED BY <2>6, <5>1, <5>2
      <4>3. Len(L) - Len(R \o A) + Len(R \o A) = Len(L)
        BY <2>3, <4>1
      <4>4. Len(A) >= Least(n, Len(L))
        BY <2>2, <2>3, <3>2 DEF Least
      <4> QED BY <2>2, <2>3, <3>2, <4>2, <4>3, <4>4, WindowOfEnd
    <3> QED BY <2>7, <3>1, <3>2
  <2>10. LastN(chains[c], ClampedLimit(n, MaxOutcomes)) = window
    <3>1. ClampedLimit(n, MaxOutcomes) = n
      BY <2>2, <2>4 DEF ClampedLimit
    <3>2. chains[c] = LastN(L, MaxOutcomes)
      BY <2>5 DEF Beside
    <3> HIDE DEF L, n
    <3>3. /\ LastN(L, MaxOutcomes) \in Seq(Recorded)
          /\ EndsAt(LastN(L, MaxOutcomes), L, Len(L))
          /\ Len(LastN(L, MaxOutcomes)) = Least(Len(L), MaxOutcomes)
      BY <2>3, <2>4, LastNPiece, LastNLength
    <3>4. Len(LastN(L, MaxOutcomes)) >= Least(n, Len(L))
      BY <2>2, <2>3, <2>4, <3>3 DEF Least
    <3>5. LastN(LastN(L, MaxOutcomes), n) = LastN(L, n)
      BY <2>2, <2>3, <3>3, <3>4, WindowOfEnd
    <3> QED BY <3>1, <3>2, <3>5 DEF L, n
  <2>11. Reverse(NewestRows(c, n)) = window
    <3>1. RowsOf(rows, c) = L
      BY <2>5 DEF Beside
    <3> HIDE DEF L, n, c
    <3> QED BY <2>2, <2>3, <2>4, <3>1, NewestAreWindow
  <2>12. running.failure = TrailingFailures(L)
    <3>1. counted[c] = L
      BY <2>5 DEF Beside
    <3>2. StatsOf(c).failure = TrailingFailures(L)
      BY <2>5, <3>1 DEF AccountOf, Account, CountsOf
    <3>3. CASE r.fresh
      <4>1. L = <<>>
        BY <2>1, <3>3 DEF Reader
      <4>2. FreshStats.failure = TrailingFailures(<<>>)
        BY FreshAccount DEF Account, CountsOf
      <4> QED BY <3>3, <4>1, <4>2, Zenon DEF running
    <3>4. CASE ~r.fresh
      <4>1. stats[c] # <<>>
        BY <2>1, <3>4 DEF Reader
      <4> QED BY <3>2, <3>4, <4>1, Zenon DEF StatsOf, running
    <3> QED BY <3>3, <3>4
  <2>13. TrailingFailures(window) = Min({TrailingFailures(L), Len(window)})
    <3> HIDE DEF L, n
    <3> QED BY <2>2, <2>3, FailuresInWindow
  <2>14. /\ View(r).lastN = window /\ View(r).rollingCost = RollingCost(window)
         /\ View(r).depth = Len(window) /\ View(r).failureStreak = TrailingFailures(L)
    <3> HIDE DEF window
    <3>1. LastN(r.outs, r.limit) = window
      BY <2>9
    <3> QED BY <2>12, <3>1 DEF View
  <2>15. /\ MemoryView(c, n) = WindowView(window) /\ PgView(c, n) = WindowView(window)
    BY <2>10, <2>11, Zenon DEF MemoryView, PgView
  <2>16. /\ WindowView(window).lastN = window
         /\ WindowView(window).rollingCost = RollingCost(window)
         /\ WindowView(window).depth = Len(window)
         /\ WindowView(window).failureStreak = TrailingFailures(window)
    BY DEF WindowView
  <2> HIDE DEF window, L
  <2>17. /\ MemoryView(c, n) = PgView(c, n)
         /\ View(r).lastN = MemoryView(c, n).lastN
         /\ View(r).rollingCost = MemoryView(c, n).rollingCost
         /\ View(r).depth = MemoryView(c, n).depth
         /\ MemoryView(c, n).failureStreak = Min({View(r).failureStreak, View(r).depth})
    BY <2>13, <2>14, <2>15, <2>16, Zenon
  <2> QED BY <2>17, Zenon
<1>2. StoresInit => Init
  BY DEF StoresInit
<1>3. [StoresNext]_svars => [Next]_vars
  BY DEF StoresNext, svars
<1> QED
  BY <1>1, <1>2, <1>3, InitTypes, NextTypes, InitAccounts, NextAccounts, InitView,
     NextKeepsView, InitSide, NextSide, PTL DEF StoresSpec

=============================================================================
