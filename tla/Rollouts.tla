------------------------------ MODULE Rollouts ------------------------------
(***************************************************************************)
(* The rollout pipeline: RolloutRegistry, the life of every rollout, and   *)
(* the endpoints of its router, which take a policy through simulation,    *)
(* approval and promotion until it is live in the policy registry.         *)
(*                                                                         *)
(* An endpoint is a coroutine that never waits: the event loop runs it as  *)
(* a whole, and each is one action, answers 409 and 422 included when they *)
(* leave something changed.  Rollbacks have no endpoint; they, and the     *)
(* deprecated set_simulation_result, are calls of the registry itself.     *)
(***************************************************************************)
EXTENDS Integers, Sequences

CONSTANTS
  Rollouts, Chains,
  ChainOf,        \* the chain of a rollout's policy
  Invalid,        \* rollouts whose policy the distributor refuses
  NoResult,       \* simulation_result is None
  NoBundle,       \* the policy registry holds nothing for the chain
  BareResults,    \* is set_simulation_result called?
  MaxHistory,     \* _MAX_HISTORY_LENGTH
  MaxVersion      \* bound: bundles distributed

ASSUME RolloutAssumption ==
  /\ ChainOf \in [Rollouts -> Chains]
  /\ Invalid \subseteq Rollouts
  /\ BareResults \in BOOLEAN
  /\ MaxHistory \in Nat /\ MaxVersion \in Nat
  /\ NoResult \notin Nat
  /\ NoBundle \notin [rollout : Rollouts, version : 1..MaxVersion]

VARIABLES
  version,   \* _version of the distributor
  live,      \* _store of the policy registry: chain -> [rollout, version]
  state,     \* of each rollout; "none" before it is created
  history,   \* the states it has been moved to
  result     \* the version its simulation distributed

vars == <<version, live, state, history, result>>

States == {"draft", "simulated", "approved", "promoted", "active", "revoked"}

\* Mutant: a draft may be approved.
AllowedSkipping(from) ==
  CASE from = "draft" -> {"simulated", "approved", "revoked"}
    [] from = "simulated" -> {"approved", "revoked", "draft"}
    [] from = "approved" -> {"promoted", "revoked", "draft"}
    [] from = "promoted" -> {"active", "revoked", "approved"}
    [] from = "active" -> {"revoked"}
    [] OTHER -> {}

\* VALID_TRANSITIONS, and nothing for a rollout that is not there.
Allowed(from) ==
  CASE from = "draft" -> {"simulated", "revoked"}
    [] from = "simulated" -> {"approved", "revoked", "draft"}
    [] from = "approved" -> {"promoted", "revoked", "draft"}
    [] from = "promoted" -> {"active", "revoked", "approved"}
    [] from = "active" -> {"revoked"}
    [] OTHER -> {}

TypeOK ==
  /\ version \in 0..MaxVersion
  /\ live \in [Chains -> [rollout : Rollouts \ Invalid, version : 1..MaxVersion]
                           \cup {NoBundle}]
  /\ state \in [Rollouts -> States \cup {"none"}]
  /\ history \in [Rollouts -> Seq(States)]
  /\ \A r \in Rollouts : Len(history[r]) <= MaxHistory
  /\ result \in [Rollouts -> 1..MaxVersion \cup {NoResult}]

Init ==
  /\ version = 0
  /\ live = [c \in Chains |-> NoBundle]
  /\ state = [r \in Rollouts |-> "none"]
  /\ history = [r \in Rollouts |-> <<>>]
  /\ result = [r \in Rollouts |-> NoResult]

-----------------------------------------------------------------------------
(* RolloutRegistry *)

\* Mutant: a history has no limit.
AcceptsAlways(r, target) == target \in Allowed(state[r])

\* Does transition accept the target?
Accepts(r, target) == target \in Allowed(state[r]) /\ Len(history[r]) < MaxHistory

\* What it changes when it does.
Moved(r, target) ==
  /\ state' = [state EXCEPT ![r] = target]
  /\ history' = [history EXCEPT ![r] = Append(@, target)]

\* transition: a rollout that goes back to draft loses its result.
Transition(r, target) ==
  /\ Accepts(r, target)
  /\ Moved(r, target)
  /\ result' = IF target = "draft" THEN [result EXCEPT ![r] = NoResult] ELSE result

\* create, and its endpoint
Create(r) ==
  /\ state[r] = "none"
  /\ state' = [state EXCEPT ![r] = "draft"]
  /\ UNCHANGED <<version, live, history, result>>

\* transition called for a rollback, with no endpoint in front of it.
RollBack(r) ==
  /\ \/ Transition(r, "draft")
     \/ state[r] = "promoted" /\ Transition(r, "approved")
  /\ UNCHANGED <<version, live>>

\* Mutant: the state of the rollout is not looked at.
SetSimulationResultAnyState(r, v) ==
  /\ BareResults
  /\ state[r] # "none"
  /\ result' = [result EXCEPT ![r] = v]
  /\ UNCHANGED <<version, live, state, history>>

SetSimulationResult(r, v) ==
  /\ BareResults
  /\ state[r] = "draft"
  /\ result' = [result EXCEPT ![r] = v]
  /\ UNCHANGED <<version, live, state, history>>

\* Mutant: that the policy is refused is only logged.
SimulateRefused(r) ==
  /\ state[r] # "none"
  /\ version < MaxVersion
  /\ version' = version + 1
  /\ \/ /\ state[r] = "draft"
        /\ result' = [result EXCEPT ![r] = version']
        /\ IF Len(history[r]) < MaxHistory THEN Moved(r, "simulated")
                                           ELSE UNCHANGED <<state, history>>
     \/ state[r] # "draft" /\ UNCHANGED <<state, history, result>>
  /\ UNCHANGED live

\* The endpoint distributes the policy (422 if it is refused), whatever state
\* the rollout is in; simulate then wants a draft, and stores the result
\* before it looks at the length of the history.
Simulate(r) ==
  /\ state[r] # "none"
  /\ r \notin Invalid
  /\ version < MaxVersion
  /\ version' = version + 1
  /\ \/ /\ state[r] = "draft"
        /\ result' = [result EXCEPT ![r] = version']
        /\ IF Len(history[r]) < MaxHistory THEN Moved(r, "simulated")
                                           ELSE UNCHANGED <<state, history>>
     \/ state[r] # "draft" /\ UNCHANGED <<state, history, result>>
  /\ UNCHANGED live

-----------------------------------------------------------------------------
(* The other endpoints *)

Approve(r) == Transition(r, "approved") /\ UNCHANGED <<version, live>>

Promote(r) == Transition(r, "promoted") /\ UNCHANGED <<version, live>>

Revoke(r) == Transition(r, "revoked") /\ UNCHANGED <<version, live>>

\* Mutant: the transition comes first and a refused policy is only logged.
ActivateFirst(r) ==
  /\ state[r] = "promoted"
  /\ Transition(r, "active")
  /\ \/ /\ version < MaxVersion
        /\ version' = version + 1
        /\ live' = [live EXCEPT ![ChainOf[r]] = [rollout |-> r, version |-> version']]
     \/ UNCHANGED <<version, live>>

\* The policy is registered (409 and nothing has changed if it is refused),
\* and only then is the rollout moved: it is live even if that answers 409.
Activate(r) ==
  /\ state[r] # "none"
  /\ r \notin Invalid
  /\ version < MaxVersion
  /\ version' = version + 1
  /\ live' = [live EXCEPT ![ChainOf[r]] = [rollout |-> r, version |-> version']]
  /\ \/ Transition(r, "active")
     \/ ~Accepts(r, "active") /\ UNCHANGED <<state, history, result>>

Next ==
  \E r \in Rollouts :
    \/ Create(r)
    \/ RollBack(r)
    \/ \E v \in 1..MaxVersion : SetSimulationResult(r, v)
    \/ Simulate(r)
    \/ Approve(r)
    \/ Promote(r)
    \/ Activate(r)
    \/ Revoke(r)

Spec == Init /\ [][Next]_vars

-----------------------------------------------------------------------------
(* Properties. *)

Reviewed == {"simulated", "approved", "promoted", "active"}

\* The places of a rollout's history since it was last a draft.
SinceDraft(r) ==
  {i \in 1..Len(history[r]) : \A j \in i..Len(history[r]) : history[r][j] # "draft"}

(* A rollout is active only after it was simulated, approved and promoted, *)
(* all since it was last a draft (transition: VALID_TRANSITIONS).          *)
ActiveWasReviewed ==
  \A r \in Rollouts : state[r] = "active" =>
    \E i, j, k \in SinceDraft(r) :
      /\ i < j /\ j < k
      /\ history[r][i] = "simulated"
      /\ history[r][j] = "approved"
      /\ history[r][k] = "promoted"

(* What was approved is what was simulated: past draft a rollout has a     *)
(* result, and no call changes it until it is a draft again (simulate,     *)
(* set_simulation_result, transition).                                     *)
ResultStands ==
  [][\A r \in Rollouts :
       (state[r] \in Reviewed /\ state'[r] # "draft") =>
         result[r] # NoResult /\ result'[r] = result[r]]_vars

(* A rollout whose policy the distributor refuses gets nowhere but to      *)
(* revoked (simulate: 422, activate: 409).                                 *)
InvalidGoesNowhere == \A r \in Invalid : state[r] \in {"none", "draft", "revoked"}

(* A rollout that becomes active is live in the same call, under a version *)
(* newer than any before (activate: the policy is registered first).       *)
ActiveIsLive ==
  [][\A r \in Rollouts :
       (state[r] # "active" /\ state'[r] = "active") =>
         /\ live'[ChainOf[r]] # NoBundle
         /\ live'[ChainOf[r]].rollout = r
         /\ \A c \in Chains : live[c] # NoBundle =>
              live[c].version < live'[ChainOf[r]].version]_vars

(* The policy in force is that of a rollout which became active (activate: *)
(* a promoted policy is not enforced yet, any other order is a 409).       *)
LiveWasActivated ==
  \A c \in Chains : live[c] # NoBundle =>
    \E i \in 1..Len(history[live[c].rollout]) : history[live[c].rollout][i] = "active"

=============================================================================
