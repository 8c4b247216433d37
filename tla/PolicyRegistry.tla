--------------------------- MODULE PolicyRegistry ---------------------------
(***************************************************************************)
(* PolicyRegistry and the PolicyDistributor it wraps: the latest policy of *)
(* every chain, each with a version.  A caller registers a policy outright *)
(* or updates fields of the one in place, presenting the version it read.  *)
(*                                                                         *)
(* Both classes are documented as thread-safe, so the callers are threads: *)
(* each lock region is one action.  distribute() takes the distributor's   *)
(* lock only, between the two regions of the registry's own lock.          *)
(***************************************************************************)
EXTENDS Integers

CONSTANTS
  Chains, Callers,
  Fields,         \* fields of a policy an update may override
  Values,         \* their values
  Invalid,        \* values PolicyDistributor.validate refuses
  NoBundle,       \* the registry holds nothing for the chain
  Idle,           \* the caller is not in a call
  MaxVersion      \* bound: bundles distributed

ASSUME RegistryAssumption ==
  /\ Invalid \subseteq Values
  /\ MaxVersion \in Nat

VARIABLES
  version,   \* _version of the distributor
  stored,    \* _store: chain -> bundle
  call,      \* where each caller is in its call
  wins       \* history: the updates that succeeded

vars == <<version, stored, call, wins>>

Policies == [Fields -> Values]

Valid(policy) == \A f \in Fields : policy[f] \notin Invalid

Bundles == [policy : {p \in Policies : Valid(p)}, version : 1..MaxVersion]
Calls == [op : {"register"}, chain : Chains, bundle : Bundles]
           \cup [op : {"checked"}, chain : Chains, token : 1..MaxVersion,
                 fields : SUBSET Fields, policy : Policies]
           \cup [op : {"distributed"}, chain : Chains, token : 1..MaxVersion,
                 fields : SUBSET Fields, bundle : Bundles]

TypeOK ==
  /\ version \in 0..MaxVersion
  /\ stored \in [Chains -> Bundles \cup {NoBundle}]
  /\ call \in [Callers -> Calls \cup {Idle}]
  /\ wins \subseteq [chain : Chains, token : 1..MaxVersion, version : 1..MaxVersion]

Init ==
  /\ version = 0
  /\ stored = [c \in Chains |-> NoBundle]
  /\ call = [t \in Callers |-> Idle]
  /\ wins = {}

\* Mutant: the version is not advanced.
SameVersion == version < MaxVersion /\ version' = IF version = 0 THEN 1 ELSE version

\* _next_version, under the distributor's lock.
NextVersion == version < MaxVersion /\ version' = version + 1

-----------------------------------------------------------------------------
(* register *)

\* distribute: an invalid policy raises and nothing has happened.
RegisterDistribute(t, c, policy) ==
  /\ call[t] = Idle
  /\ Valid(policy)
  /\ NextVersion
  /\ call' = [call EXCEPT ![t] = [op |-> "register", chain |-> c,
                                  bundle |-> [policy |-> policy, version |-> version']]]
  /\ UNCHANGED <<stored, wins>>

\* Whatever the chain has is replaced.
RegisterStore(t) ==
  /\ call[t] # Idle
  /\ call[t].op = "register"
  /\ stored' = [stored EXCEPT ![call[t].chain] = call[t].bundle]
  /\ call' = [call EXCEPT ![t] = Idle]
  /\ UNCHANGED <<version, wins>>

-----------------------------------------------------------------------------
(* update *)

\* The first lock region: an unknown chain or a stale version raises; the
\* updated policy is built from the one in place and the fields given, any
\* of them or none.
UpdateCheck(t, c, token, fields, values) ==
  /\ call[t] = Idle
  /\ stored[c] # NoBundle
  /\ stored[c].version = token
  /\ call' = [call EXCEPT ![t] =
       [op |-> "checked", chain |-> c, token |-> token, fields |-> fields,
        policy |-> [f \in Fields |-> IF f \in fields THEN values[f]
                                     ELSE stored[c].policy[f]]]]
  /\ UNCHANGED <<version, stored, wins>>

\* distribute: a policy that is invalid once updated raises.
UpdateDistribute(t) ==
  /\ call[t] # Idle
  /\ call[t].op = "checked"
  /\ \/ /\ ~Valid(call[t].policy)
        /\ call' = [call EXCEPT ![t] = Idle]
        /\ UNCHANGED version
     \/ /\ Valid(call[t].policy)
        /\ NextVersion
        /\ call' = [call EXCEPT ![t] =
             [op |-> "distributed", chain |-> @.chain, token |-> @.token, fields |-> @.fields,
              bundle |-> [policy |-> @.policy, version |-> version']]]
  /\ UNCHANGED <<stored, wins>>

\* Mutant: the version is not looked at again after distributing.
UpdateStoreUnchecked(t) ==
  /\ call[t] # Idle
  /\ call[t].op = "distributed"
  /\ stored' = [stored EXCEPT ![call[t].chain] = call[t].bundle]
  /\ wins' = wins \cup {[chain |-> call[t].chain, token |-> call[t].token,
                         version |-> call[t].bundle.version]}
  /\ call' = [call EXCEPT ![t] = Idle]
  /\ UNCHANGED version

\* Mutant: an older version than the one in place is all that is refused.
UpdateStoreIfNewer(t) ==
  /\ call[t] # Idle
  /\ call[t].op = "distributed"
  /\ IF stored[call[t].chain].version <= call[t].bundle.version
       THEN /\ stored' = [stored EXCEPT ![call[t].chain] = call[t].bundle]
            /\ wins' = wins \cup {[chain |-> call[t].chain, token |-> call[t].token,
                                   version |-> call[t].bundle.version]}
       ELSE UNCHANGED <<stored, wins>>
  /\ call' = [call EXCEPT ![t] = Idle]
  /\ UNCHANGED version

\* The second lock region: stored only if the version is still the caller's.
UpdateStore(t) ==
  /\ call[t] # Idle
  /\ call[t].op = "distributed"
  /\ LET c == call[t].chain IN
     \/ /\ stored[c] # NoBundle /\ stored[c].version = call[t].token
        /\ stored' = [stored EXCEPT ![c] = call[t].bundle]
        /\ wins' = wins \cup {[chain |-> c, token |-> call[t].token,
                               version |-> call[t].bundle.version]}
     \/ /\ stored[c] = NoBundle \/ stored[c].version # call[t].token
        /\ UNCHANGED <<stored, wins>>
  /\ call' = [call EXCEPT ![t] = Idle]
  /\ UNCHANGED version

Next ==
  \E t \in Callers :
    \/ \E c \in Chains, policy \in Policies : RegisterDistribute(t, c, policy)
    \/ RegisterStore(t)
    \/ \E c \in Chains, token \in 1..MaxVersion, fields \in SUBSET Fields :
         \E values \in [fields -> Values] : UpdateCheck(t, c, token, fields, values)
    \/ UpdateDistribute(t)
    \/ UpdateStore(t)

Spec == Init /\ [][Next]_vars

-----------------------------------------------------------------------------
(* Properties. *)

\* Caller t completes an update and its bundle is stored.
Updates(t) == /\ call[t] # Idle /\ call[t].op = "distributed"
              /\ call'[t] = Idle /\ stored' # stored

(* An update never replaces a policy by an older one, whatever registers   *)
(* and updates it overlaps with (update: the version is looked at again    *)
(* after the bundle got its own).                                          *)
UpdateRaisesVersion ==
  [][\A t \in Callers : Updates(t) =>
       stored'[call[t].chain].version > stored[call[t].chain].version]_vars

(* A version names one bundle: no two bundles, stored or on their way,     *)
(* share one, so a token cannot be valid again (_next_version).            *)
VersionsDistinct ==
  LET inStore == {c \in Chains : stored[c] # NoBundle}
      onTheWay == {t \in Callers : call[t] # Idle /\ call[t].op # "checked"}
  IN  /\ \A c, d \in inStore : c # d => stored[c].version # stored[d].version
      /\ \A t, u \in onTheWay : t # u => call[t].bundle.version # call[u].bundle.version
      /\ \A c \in inStore, t \in onTheWay : stored[c].version # call[t].bundle.version

(* Of the updates that present the same version of a chain, one succeeds   *)
(* (update: optimistic concurrency, stale versions refused).               *)
TokenWinsOnce ==
  \A w, x \in wins : (w.chain = x.chain /\ w.token = x.token) => w = x

(* An update changes the fields it was given and no other: what others     *)
(* stored since it read the policy is not undone (update: the TOCTOU       *)
(* guard).                                                                 *)
NoFieldLost ==
  [][\A t \in Callers : Updates(t) =>
       \A f \in Fields \ call[t].fields :
         stored'[call[t].chain].policy[f] = stored[call[t].chain].policy[f]]_vars

=============================================================================
