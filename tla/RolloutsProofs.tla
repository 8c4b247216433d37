--------------------------- MODULE RolloutsProofs ---------------------------
(***************************************************************************)
(* The gates of the rollout pipeline, for any number of rollouts, any      *)
(* limit of the history and any interleaving of the endpoints.             *)
(***************************************************************************)
EXTENDS Rollouts, TLAPS

(* Every call leaves the state well typed and the histories within their   *)
(* limit, and only policies the distributor accepts go live.               *)
LEMMA TypesKept == TypeOK /\ [Next]_vars => TypeOK'
<1> SUFFICES ASSUME TypeOK, [Next]_vars PROVE TypeOK'
  OBVIOUS
<1> USE RolloutAssumption DEF RolloutAssumption, TypeOK
<1>1. ASSUME NEW r \in Rollouts, NEW target \in States, Accepts(r, target), Moved(r, target)
      PROVE  /\ state' \in [Rollouts -> States \cup {"none"}]
             /\ history' \in [Rollouts -> Seq(States)]
             /\ \A s \in Rollouts : Len(history'[s]) <= MaxHistory
  <2>1. history' = [history EXCEPT ![r] = Append(history[r], target)]
    BY <1>1 DEF Moved
  <2>2. Append(history[r], target) \in Seq(States)
        /\ Len(Append(history[r], target)) = Len(history[r]) + 1
        /\ Len(history[r]) < MaxHistory /\ Len(history[r]) \in Nat
    BY <1>1 DEF Accepts
  <2>3. state' \in [Rollouts -> States \cup {"none"}]
    BY <1>1 DEF Moved
  <2>4. Len(Append(history[r], target)) <= MaxHistory
    BY <2>2
  <2> QED
    BY <2>1, <2>2, <2>3, <2>4
<1>2. ASSUME NEW r \in Rollouts, NEW target \in States, Transition(r, target),
             UNCHANGED <<version, live>>
      PROVE  TypeOK'
  <2>1. result' \in [Rollouts -> 1..MaxVersion \cup {NoResult}]
    BY <1>2 DEF Transition
  <2> QED
    BY <1>1, <1>2, <2>1 DEF Transition
<1>3. ASSUME NEW r \in Rollouts, Create(r) PROVE TypeOK'
  BY <1>3 DEF Create, States
<1>4. ASSUME NEW r \in Rollouts, RollBack(r) PROVE TypeOK'
  BY <1>2, <1>4 DEF RollBack, States
<1>5. ASSUME NEW r \in Rollouts, NEW v \in 1..MaxVersion, SetSimulationResult(r, v)
      PROVE  TypeOK'
  BY <1>5 DEF SetSimulationResult
<1>6. ASSUME NEW r \in Rollouts, Simulate(r) PROVE TypeOK'
  <2>1. version' \in 1..MaxVersion /\ live' = live
    BY <1>6 DEF Simulate
  <2>2. CASE state[r] = "draft" /\ Len(history[r]) < MaxHistory
    <3>1. Accepts(r, "simulated") /\ Moved(r, "simulated")
      BY <1>6, <2>2 DEF Simulate, Accepts, Allowed
    <3>2. result' \in [Rollouts -> 1..MaxVersion \cup {NoResult}]
      BY <1>6, <2>1 DEF Simulate
    <3> QED
      BY <1>1, <2>1, <3>1, <3>2 DEF States
  <2>3. CASE ~(state[r] = "draft" /\ Len(history[r]) < MaxHistory)
    BY <1>6, <2>1, <2>3 DEF Simulate
  <2> QED
    BY <2>2, <2>3
<1>7. ASSUME NEW r \in Rollouts, Approve(r) \/ Promote(r) \/ Revoke(r) PROVE TypeOK'
  BY <1>2, <1>7 DEF Approve, Promote, Revoke, States
<1>8. ASSUME NEW r \in Rollouts, Activate(r) PROVE TypeOK'
  <2>1. /\ version' \in 1..MaxVersion
        /\ live' = [live EXCEPT ![ChainOf[r]] = [rollout |-> r, version |-> version']]
        /\ r \in Rollouts \ Invalid
    BY <1>8 DEF Activate
  <2>2. live' \in [Chains -> [rollout : Rollouts \ Invalid, version : 1..MaxVersion]
                              \cup {NoBundle}]
    BY <2>1
  <2>3. CASE Transition(r, "active")
    <3>1. result' \in [Rollouts -> 1..MaxVersion \cup {NoResult}]
      BY <2>3 DEF Transition
    <3> QED
      BY <1>1, <2>1, <2>2, <2>3, <3>1 DEF Transition, States
  <2>4. CASE UNCHANGED <<state, history, result>>
    BY <2>1, <2>2, <2>4
  <2> QED
    BY <1>8, <2>3, <2>4 DEF Activate
<1>9. CASE UNCHANGED vars
  BY <1>9 DEF vars
<1> QED
  BY <1>3, <1>4, <1>5, <1>6, <1>7, <1>8, <1>9 DEF Next

(* The state of the pipeline is well typed, its histories within           *)
(* _MAX_HISTORY_LENGTH, and what is live was accepted by the distributor.  *)
THEOREM RolloutTypeCorrect == Spec => []TypeOK
<1>1. Init => TypeOK
  BY RolloutAssumption DEF RolloutAssumption, Init, TypeOK
<1> QED
  BY <1>1, TypesKept, PTL DEF Spec

-----------------------------------------------------------------------------
(* The gates *)

\* What a rollout's history shows of the gates it has passed since it was
\* last a draft.
Simulated(r) == \E i \in SinceDraft(r) : history[r][i] = "simulated"

Approved(r) ==
  \E i, j \in SinceDraft(r) :
    i < j /\ history[r][i] = "simulated" /\ history[r][j] = "approved"

WasPromoted(r) ==
  \E i, j, k \in SinceDraft(r) :
    /\ i < j /\ j < k
    /\ history[r][i] = "simulated"
    /\ history[r][j] = "approved"
    /\ history[r][k] = "promoted"

\* The inductive invariant: each stage has the gates before it behind it.
Gates(r) ==
  /\ state[r] = "simulated" => Simulated(r)
  /\ state[r] = "approved" => Approved(r)
  /\ state[r] \in {"promoted", "active"} => WasPromoted(r)
  /\ r \in Invalid => state[r] \in {"none", "draft", "revoked"}

(* Appending a state other than draft keeps every gate passed so far, and  *)
(* the state is the newest entry (transition: history.append).             *)
LEMMA HistoryGrows ==
  ASSUME TypeOK, NEW r \in Rollouts, NEW target \in States \ {"draft"}, Moved(r, target)
  PROVE  /\ SinceDraft(r) \subseteq SinceDraft(r)'
         /\ Len(history[r]) + 1 \in SinceDraft(r)'
         /\ \A i \in SinceDraft(r) : i < Len(history[r]) + 1 /\ history'[r][i] = history[r][i]
         /\ history'[r][Len(history[r]) + 1] = target
<1> DEFINE n == Len(history[r])
<1>1. history'[r] = Append(history[r], target) /\ history[r] \in Seq(States)
  BY DEF Moved, TypeOK
<1>2. /\ n \in Nat
      /\ Len(history'[r]) = n + 1
      /\ history'[r][n + 1] = target
      /\ \A i \in 1..n : history'[r][i] = history[r][i]
  BY <1>1
<1> HIDE DEF n
<1>3. ASSUME NEW i \in SinceDraft(r) PROVE i \in SinceDraft(r)'
  <2>1. i \in 1..n /\ \A j \in i..n : history[r][j] # "draft"
    BY DEF SinceDraft, n
  <2>2. i \in 1..(n + 1)
    BY <1>2, <2>1
  <2>3. ASSUME NEW j \in i..(n + 1) PROVE history'[r][j] # "draft"
    <3>1. CASE j = n + 1
      BY <1>2, <3>1
    <3>2. CASE j # n + 1
      <4>1. j \in i..n /\ j \in 1..n
        BY <1>2, <2>1, <3>2
      <4> QED
        BY <1>2, <2>1, <4>1
    <3> QED
      BY <3>1, <3>2
  <2> QED
    BY <1>2, <2>2, <2>3 DEF SinceDraft
<1>4. n + 1 \in SinceDraft(r)'
  BY <1>2 DEF SinceDraft
<1>5. ASSUME NEW i \in SinceDraft(r) PROVE i < n + 1 /\ history'[r][i] = history[r][i]
  <2>1. i \in 1..n
    BY DEF SinceDraft, n
  <2> QED
    BY <1>2, <2>1
<1> QED
  BY <1>2, <1>3, <1>4, <1>5 DEF n

(* A rollout moved from one state to another keeps the gates behind it,    *)
(* for each of VALID_TRANSITIONS.                                          *)
LEMMA GatesMoved ==
  ASSUME TypeOK, NEW r \in Rollouts, NEW target \in States, Gates(r),
         target \in Allowed(state[r]), Moved(r, target),
         r \in Invalid => target # "simulated"
  PROVE  Gates(r)'
<1>0. state'[r] = target
  BY DEF Moved, TypeOK
<1>1. CASE target \in {"draft", "revoked"}
  BY <1>0, <1>1 DEF Gates
<1>2. CASE target = "simulated"
  <2>1. Len(history[r]) + 1 \in SinceDraft(r)'
        /\ history'[r][Len(history[r]) + 1] = "simulated"
    BY <1>2, HistoryGrows
  <2> QED
    BY <1>0, <1>2, <2>1 DEF Gates, Simulated
<1>3. CASE target = "approved"
  <2>0. state[r] \in {"simulated", "promoted"}
    BY <1>3 DEF Allowed, TypeOK, States
  <2>1. PICK i \in SinceDraft(r) : history[r][i] = "simulated"
    BY <2>0 DEF Gates, Simulated, WasPromoted
  <2>2. /\ i \in SinceDraft(r)'
        /\ Len(history[r]) + 1 \in SinceDraft(r)'
        /\ i < Len(history[r]) + 1
        /\ history'[r][i] = "simulated"
        /\ history'[r][Len(history[r]) + 1] = "approved"
    BY <1>3, <2>1, HistoryGrows
  <2> QED
    BY <1>0, <1>3, <2>0, <2>2 DEF Gates, Approved
<1>4. CASE target = "promoted"
  <2>0. state[r] = "approved"
    BY <1>4 DEF Allowed, TypeOK, States
  <2>1. PICK i \in SinceDraft(r), j \in SinceDraft(r) :
           i < j /\ history[r][i] = "simulated" /\ history[r][j] = "approved"
    BY <2>0 DEF Gates, Approved
  <2>2. /\ i \in SinceDraft(r)' /\ j \in SinceDraft(r)'
        /\ Len(history[r]) + 1 \in SinceDraft(r)'
        /\ j < Len(history[r]) + 1
        /\ history'[r][i] = "simulated" /\ history'[r][j] = "approved"
        /\ history'[r][Len(history[r]) + 1] = "promoted"
    BY <1>4, <2>1, HistoryGrows
  <2>3. WasPromoted(r)'
    BY <2>1, <2>2 DEF WasPromoted
  <2> QED
    BY <1>0, <1>4, <2>0, <2>3 DEF Gates
<1>5. CASE target = "active"
  <2>0. state[r] = "promoted"
    BY <1>5 DEF Allowed, TypeOK, States
  <2>1. PICK i \in SinceDraft(r), j \in SinceDraft(r), k \in SinceDraft(r) :
           /\ i < j /\ j < k
           /\ history[r][i] = "simulated"
           /\ history[r][j] = "approved"
           /\ history[r][k] = "promoted"
    BY <2>0 DEF Gates, WasPromoted
  <2>2. /\ i \in SinceDraft(r)' /\ j \in SinceDraft(r)' /\ k \in SinceDraft(r)'
        /\ history'[r][i] = "simulated" /\ history'[r][j] = "approved"
        /\ history'[r][k] = "promoted"
    BY <1>5, <2>1, HistoryGrows
  <2>3. WasPromoted(r)'
    BY <2>1, <2>2 DEF WasPromoted
  <2> QED
    BY <1>0, <1>5, <2>0, <2>3 DEF Gates
<1> QED
  BY <1>1, <1>2, <1>3, <1>4, <1>5 DEF States

(* What is not called on a rollout leaves its gates as they were.          *)
LEMMA GatesSame ==
  ASSUME NEW r, state'[r] = state[r], history'[r] = history[r], Gates(r)
  PROVE  Gates(r)'
BY DEF Gates, Simulated, Approved, WasPromoted, SinceDraft

(* Every endpoint and every direct call of the registry keeps the gates of *)
(* every rollout.                                                          *)
LEMMA GatesKept ==
  TypeOK /\ (\A r \in Rollouts : Gates(r)) /\ [Next]_vars => (\A r \in Rollouts : Gates(r))'
<1> SUFFICES ASSUME TypeOK, \A r \in Rollouts : Gates(r), [Next]_vars, NEW s \in Rollouts
             PROVE  Gates(s)'
  OBVIOUS
<1>1. ASSUME NEW r \in Rollouts, NEW target \in States, target \in Allowed(state[r]),
             Moved(r, target), r \in Invalid => target # "simulated"
      PROVE  Gates(s)'
  <2>1. CASE s = r
    BY <1>1, <2>1, GatesMoved
  <2>2. CASE s # r
    <3>1. state'[s] = state[s] /\ history'[s] = history[s]
      BY <1>1, <2>2 DEF Moved, TypeOK
    <3> QED
      BY <3>1, GatesSame
  <2> QED
    BY <2>1, <2>2
<1>2. ASSUME state' = state, history' = history PROVE Gates(s)'
  BY <1>2, GatesSame
<1>3. ASSUME NEW r \in Rollouts, NEW target \in States \ {"simulated"}, Transition(r, target)
      PROVE  Gates(s)'
  BY <1>1, <1>3 DEF Transition, Accepts
<1>4. ASSUME NEW r \in Rollouts, Create(r) PROVE Gates(s)'
  <2>1. CASE s = r
    <3>1. state'[s] = "draft"
      BY <1>4, <2>1 DEF Create, TypeOK
    <3> QED
      BY <3>1 DEF Gates
  <2>2. CASE s # r
    <3>1. state'[s] = state[s] /\ history'[s] = history[s]
      BY <1>4, <2>2 DEF Create, TypeOK
    <3> QED
      BY <3>1, GatesSame
  <2> QED
    BY <2>1, <2>2
<1>5. ASSUME NEW r \in Rollouts, RollBack(r) \/ Approve(r) \/ Promote(r) \/ Revoke(r)
      PROVE  Gates(s)'
  BY <1>3, <1>5 DEF RollBack, Approve, Promote, Revoke, States
<1>6. ASSUME NEW r \in Rollouts, NEW v \in 1..MaxVersion, SetSimulationResult(r, v)
      PROVE  Gates(s)'
  BY <1>2, <1>6 DEF SetSimulationResult
<1>7. ASSUME NEW r \in Rollouts, Simulate(r) PROVE Gates(s)'
  <2>1. CASE state[r] = "draft" /\ Moved(r, "simulated")
    BY <1>1, <1>7, <2>1 DEF Simulate, Allowed, States
  <2>2. CASE UNCHANGED <<state, history>>
    BY <1>2, <2>2
  <2> QED
    BY <1>7, <2>1, <2>2 DEF Simulate
<1>8. ASSUME NEW r \in Rollouts, Activate(r) PROVE Gates(s)'
  BY <1>2, <1>3, <1>8 DEF Activate, States
<1>9. CASE UNCHANGED vars
  BY <1>2, <1>9 DEF vars
<1> QED
  BY <1>4, <1>5, <1>6, <1>7, <1>8, <1>9 DEF Next

(* No rollout is created past a gate (create).                             *)
LEMMA GatesInit == Init => \A r \in Rollouts : Gates(r)
BY DEF Init, Gates

(* A rollout is active only after it was simulated, approved and promoted, *)
(* all since it was last a draft (transition: VALID_TRANSITIONS).          *)
THEOREM RolloutActiveWasReviewed == Spec => []ActiveWasReviewed
<1>1. (\A r \in Rollouts : Gates(r)) => ActiveWasReviewed
  BY DEF Gates, WasPromoted, ActiveWasReviewed
<1> QED
  BY <1>1, GatesInit, GatesKept, RolloutTypeCorrect, PTL DEF Spec

(* A rollout whose policy the distributor refuses gets nowhere but to      *)
(* revoked (simulate: 422, activate: 409).                                 *)
THEOREM RolloutInvalidGoesNowhere == Spec => []InvalidGoesNowhere
<1>1. (\A r \in Rollouts : Gates(r)) => InvalidGoesNowhere
  BY RolloutAssumption DEF RolloutAssumption, Gates, InvalidGoesNowhere
<1> QED
  BY <1>1, GatesInit, GatesKept, RolloutTypeCorrect, PTL DEF Spec

-----------------------------------------------------------------------------
(* What was reviewed is what was simulated *)

\* Past draft a rollout has a result, and no bundle is newer than the
\* distributor's count.
Bundled ==
  /\ \A r \in Rollouts : state[r] \in Reviewed => result[r] # NoResult
  /\ \A c \in Chains : live[c] # NoBundle => live[c].version <= version

\* The bodies of the two action properties.
Stands ==
  \A r \in Rollouts :
    (state[r] \in Reviewed /\ state'[r] # "draft") =>
      result[r] # NoResult /\ result'[r] = result[r]

GoesLive ==
  \A r \in Rollouts :
    (state[r] # "active" /\ state'[r] = "active") =>
      /\ live'[ChainOf[r]] # NoBundle
      /\ live'[ChainOf[r]].rollout = r
      /\ \A c \in Chains : live[c] # NoBundle =>
           live[c].version < live'[ChainOf[r]].version

(* A transition leaves the result of a rollout alone unless it goes back   *)
(* to draft, and only a rollout with a result moves on to a reviewed state *)
(* (transition).                                                           *)
LEMMA TransitionKeepsResult ==
  ASSUME TypeOK, Bundled, NEW r \in Rollouts, NEW target \in States \ {"simulated"},
         Transition(r, target)
  PROVE  /\ Stands
         /\ \A s \in Rollouts : state'[s] \in Reviewed => result'[s] # NoResult
         /\ \A s \in Rollouts : s # r => state'[s] = state[s]
         /\ state'[r] = target
<1>1. /\ state' = [state EXCEPT ![r] = target]
      /\ target \in Allowed(state[r])
      /\ state \in [Rollouts -> States \cup {"none"}]
      /\ result \in [Rollouts -> 1..MaxVersion \cup {NoResult}]
  BY DEF Transition, Accepts, Moved, TypeOK
<1>2. state'[r] = target /\ \A s \in Rollouts : s # r => state'[s] = state[s]
  BY <1>1
<1>3. CASE target = "draft"
  <2>1. result' = [result EXCEPT ![r] = NoResult]
    BY <1>3 DEF Transition
  <2>2. \A s \in Rollouts : s # r => result'[s] = result[s]
    BY <1>1, <2>1
  <2> QED
    BY <1>2, <1>3, <2>2 DEF Bundled, Stands, Reviewed
<1>4. CASE target # "draft"
  <2>1. result' = result
    BY <1>4 DEF Transition
  <2>2. target \in Reviewed => state[r] \in Reviewed
    BY <1>1, <1>4 DEF Allowed, Reviewed, States
  <2> QED
    BY <1>2, <2>1, <2>2 DEF Bundled, Stands
<1> QED
  BY <1>3, <1>4

(* Every call keeps the results of reviewed rollouts, and a rollout is     *)
(* moved to active only by the call that makes its policy live.            *)
LEMMA BundledKept == TypeOK /\ Bundled /\ [Next]_vars => Bundled' /\ Stands /\ GoesLive
<1> SUFFICES ASSUME TypeOK, Bundled, [Next]_vars PROVE Bundled' /\ Stands /\ GoesLive
  OBVIOUS
<1>0. /\ state \in [Rollouts -> States \cup {"none"}]
      /\ result \in [Rollouts -> 1..MaxVersion \cup {NoResult}]
      /\ version \in 0..MaxVersion
      /\ live \in [Chains -> [rollout : Rollouts \ Invalid, version : 1..MaxVersion]
                               \cup {NoBundle}]
  BY DEF TypeOK
<1>1. ASSUME NEW r \in Rollouts, NEW target \in States \ {"simulated", "active"},
             Transition(r, target), UNCHANGED <<version, live>>
      PROVE  Bundled' /\ Stands /\ GoesLive
  <2>1. /\ Stands
        /\ \A s \in Rollouts : state'[s] \in Reviewed => result'[s] # NoResult
        /\ \A s \in Rollouts : s # r => state'[s] = state[s]
        /\ state'[r] = target
    BY <1>1, TransitionKeepsResult
  <2> QED
    BY <1>1, <2>1 DEF Bundled, GoesLive
<1>2. ASSUME NEW r \in Rollouts, Create(r) PROVE Bundled' /\ Stands /\ GoesLive
  <2>1. /\ state[r] = "none" /\ state'[r] = "draft"
        /\ \A s \in Rollouts : s # r => state'[s] = state[s]
        /\ UNCHANGED <<version, live, result>>
    BY <1>0, <1>2 DEF Create
  <2> QED
    BY <2>1 DEF Bundled, Stands, GoesLive, Reviewed
<1>3. ASSUME NEW r \in Rollouts, RollBack(r) \/ Approve(r) \/ Promote(r) \/ Revoke(r)
      PROVE  Bundled' /\ Stands /\ GoesLive
  BY <1>1, <1>3 DEF RollBack, Approve, Promote, Revoke, States
<1>4. ASSUME NEW r \in Rollouts, NEW v \in 1..MaxVersion, SetSimulationResult(r, v)
      PROVE  Bundled' /\ Stands /\ GoesLive
  <2>1. /\ state[r] = "draft"
        /\ \A s \in Rollouts : s # r => result'[s] = result[s]
        /\ UNCHANGED <<version, live, state>>
    BY <1>0, <1>4 DEF SetSimulationResult
  <2> QED
    BY <2>1 DEF Bundled, Stands, GoesLive, Reviewed
<1>5. ASSUME NEW r \in Rollouts, Simulate(r) PROVE Bundled' /\ Stands /\ GoesLive
  <2>1. version' = version + 1 /\ live' = live
    BY <1>5 DEF Simulate
  <2>2. (\A c \in Chains : live[c] # NoBundle => live[c].version <= version)'
    <3>1. ASSUME NEW c \in Chains, live[c] # NoBundle PROVE live[c].version <= version'
      BY <1>0, <2>1, <3>1 DEF Bundled
    <3> QED
      BY <2>1, <3>1
  <2>3. CASE state[r] = "draft"
    <3>1. /\ version + 1 # NoResult
          /\ result' = [result EXCEPT ![r] = version + 1]
      BY <1>0, <1>5, <2>1, <2>3, RolloutAssumption DEF Simulate, RolloutAssumption
    <3>2. /\ result'[r] # NoResult
          /\ \A s \in Rollouts : s # r => result'[s] = result[s]
      BY <1>0, <3>1
    <3>3. /\ state'[r] \in {"draft", "simulated"}
          /\ \A s \in Rollouts : s # r => state'[s] = state[s]
      BY <1>0, <1>5, <2>3 DEF Simulate, Moved
    <3>4. (\A s \in Rollouts : state[s] \in Reviewed => result[s] # NoResult)'
      BY <3>2, <3>3 DEF Bundled
    <3> QED
      BY <2>2, <2>3, <3>2, <3>3, <3>4 DEF Bundled, Stands, GoesLive, Reviewed
  <2>4. CASE UNCHANGED <<state, history, result>>
    BY <2>2, <2>4 DEF Bundled, Stands, GoesLive
  <2> QED
    BY <1>5, <2>3, <2>4 DEF Simulate
<1>6. ASSUME NEW r \in Rollouts, Activate(r) PROVE Bundled' /\ Stands /\ GoesLive
  <2> DEFINE bundle == [rollout |-> r, version |-> version + 1]
  <2>1. /\ bundle.rollout = r /\ bundle.version = version + 1
        /\ version + 1 \in 1..MaxVersion
        /\ bundle # NoBundle
    BY <1>0, <1>6, RolloutAssumption DEF Activate, RolloutAssumption
  <2>2. version' = version + 1 /\ live' = [live EXCEPT ![ChainOf[r]] = bundle]
    BY <1>6 DEF Activate
  <2>3. ChainOf[r] \in Chains
    BY RolloutAssumption DEF RolloutAssumption
  <2> HIDE DEF bundle
  <2>4. /\ live'[ChainOf[r]] = bundle
        /\ \A c \in Chains : c # ChainOf[r] => live'[c] = live[c]
    BY <1>0, <2>2, <2>3
  <2>5. \A c \in Chains : live[c] # NoBundle =>
          live[c].version < bundle.version /\ live[c].version <= version + 1
    BY <1>0, <2>1 DEF Bundled
  <2>6. (\A c \in Chains : live[c] # NoBundle => live[c].version <= version)'
    <3>1. ASSUME NEW c \in Chains, live'[c] # NoBundle PROVE live'[c].version <= version + 1
      <4>1. CASE c = ChainOf[r]
        BY <1>0, <2>1, <2>4, <4>1
      <4>2. CASE c # ChainOf[r]
        BY <2>4, <2>5, <3>1, <4>2
      <4> QED
        BY <4>1, <4>2
    <3> QED
      BY <2>2, <3>1
  <2>7. CASE Transition(r, "active")
    <3>1. /\ Stands
          /\ \A s \in Rollouts : state'[s] \in Reviewed => result'[s] # NoResult
          /\ \A s \in Rollouts : s # r => state'[s] = state[s]
      BY <2>7, TransitionKeepsResult DEF States
    <3> QED
      BY <2>1, <2>4, <2>5, <2>6, <3>1 DEF Bundled, GoesLive
  <2>8. CASE UNCHANGED <<state, history, result>>
    BY <2>6, <2>8 DEF Bundled, Stands, GoesLive
  <2> QED
    BY <1>6, <2>7, <2>8 DEF Activate
<1>7. CASE UNCHANGED vars
  BY <1>7 DEF vars, Bundled, Stands, GoesLive
<1> QED
  BY <1>2, <1>3, <1>4, <1>5, <1>6, <1>7 DEF Next

(* A rollout starts with no result and no chain has a bundle (create).     *)
LEMMA BundledInit == Init => Bundled
BY DEF Init, Bundled, Reviewed

(* What was approved is what was simulated: past draft a rollout has a     *)
(* result, and no call changes it until it is a draft again (simulate,     *)
(* set_simulation_result, transition).                                     *)
THEOREM RolloutResultStands == Spec => ResultStands
<1>1. TypeOK /\ Bundled /\ [Next]_vars => [Stands]_vars
  BY BundledKept
<1> QED
  BY <1>1, BundledInit, BundledKept, RolloutTypeCorrect, PTL
     DEF Spec, ResultStands, Stands

(* A rollout that becomes active is live in the same call, under a version *)
(* newer than any before (activate: the policy is registered first).       *)
THEOREM RolloutActiveIsLive == Spec => ActiveIsLive
<1>1. TypeOK /\ Bundled /\ [Next]_vars => [GoesLive]_vars
  BY BundledKept
<1> QED
  BY <1>1, BundledInit, BundledKept, RolloutTypeCorrect, PTL
     DEF Spec, ActiveIsLive, GoesLive

=============================================================================
