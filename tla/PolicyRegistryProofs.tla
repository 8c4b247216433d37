------------------------ MODULE PolicyRegistryProofs ------------------------
(***************************************************************************)
(* The policy registry for any chains, callers, fields and values, and any *)
(* interleaving of their calls.                                            *)
(*                                                                         *)
(* None of the properties is inductive: that a token cannot be valid again *)
(* needs that no bundle on its way has the version of a token that was     *)
(* presented or has won, which needs that all of them are below the next   *)
(* version.                                                                *)
(***************************************************************************)
EXTENDS PolicyRegistry, TLAPS

OnTheWay(t) == call[t] # Idle /\ call[t].op # "checked"
HasToken(t) == call[t] # Idle /\ call[t].op # "register"

(* The policy a caller has built from the one it found. *)
Built(t) == IF call[t].op = "checked" THEN call[t].policy ELSE call[t].bundle.policy

(* Versions that are in use, presented or spent were distributed. *)
VersionsKnown ==
  /\ \A c \in Chains : stored[c] # NoBundle => stored[c].version <= version
  /\ \A t \in Callers : OnTheWay(t) => call[t].bundle.version <= version
  /\ \A t \in Callers : HasToken(t) => call[t].token <= version
  /\ \A w \in wins : w.token <= version

(* A token was the version of a bundle in place, so of none on its way. *)
TokensWereStored ==
  \A t, u \in Callers : HasToken(t) /\ OnTheWay(u) =>
    /\ call[t].token # call[u].bundle.version
    /\ t = u => call[t].token < call[t].bundle.version

(* A token that has won is no version any more. *)
TokensSpent ==
  \A w \in wins :
    /\ \A c \in Chains : stored[c] # NoBundle => stored[c].version # w.token
    /\ \A t \in Callers : OnTheWay(t) => call[t].bundle.version # w.token

(* As long as its token is the version in place, what a caller has built   *)
(* differs from the policy in place in the fields that were given.         *)
Differ(t) ==
  \A g \in Fields \ call[t].fields : Built(t)[g] = stored[call[t].chain].policy[g]
GivenFields ==
  \A t \in Callers :
    HasToken(t) /\ stored[call[t].chain] # NoBundle
      /\ stored[call[t].chain].version = call[t].token
    => Differ(t)

Versions == VersionsDistinct /\ VersionsKnown /\ TokensWereStored /\ TokensSpent
              /\ TokenWinsOnce
IInv == TypeOK /\ Versions /\ GivenFields

(* The fields a call has, by its stage. *)
LEMMA CallFields ==
  ASSUME TypeOK, NEW t \in Callers, call[t] # Idle
  PROVE  /\ call[t].op \in {"register", "checked", "distributed"}
         /\ call[t].chain \in Chains
         /\ OnTheWay(t) => call[t].bundle \in Bundles
         /\ HasToken(t) => call[t].token \in 1..MaxVersion /\ call[t].fields \in SUBSET Fields
         /\ call[t].op = "checked" => call[t].policy \in Policies
<1>1. call[t] \in Calls
  BY DEF TypeOK
<1>2. CASE call[t] \in [op : {"register"}, chain : Chains, bundle : Bundles]
  BY <1>2 DEF OnTheWay, HasToken
<1>3. CASE call[t] \in [op : {"checked"}, chain : Chains, token : 1..MaxVersion,
                        fields : SUBSET Fields, policy : Policies]
  BY <1>3 DEF OnTheWay, HasToken
<1>4. CASE call[t] \in [op : {"distributed"}, chain : Chains, token : 1..MaxVersion,
                        fields : SUBSET Fields, bundle : Bundles]
  BY <1>4 DEF OnTheWay, HasToken
<1> QED
  BY <1>1, <1>2, <1>3, <1>4 DEF Calls

(* Every step leaves the state well typed: what is stored, or on its way,  *)
(* was validated.                                                          *)
LEMMA TypesKept == TypeOK /\ [Next]_vars => TypeOK'
<1> SUFFICES ASSUME TypeOK, [Next]_vars PROVE TypeOK'
  OBVIOUS
<1> USE RegistryAssumption DEF RegistryAssumption
<1>1. ASSUME NEW t \in Callers, NEW c \in Chains, NEW policy \in Policies,
             RegisterDistribute(t, c, policy)
      PROVE  TypeOK'
  <2>1. version' \in 1..MaxVersion
    BY <1>1 DEF RegisterDistribute, NextVersion, TypeOK
  <2> DEFINE b == [policy |-> policy, version |-> version']
  <2>2. b \in Bundles
    BY <1>1, <2>1 DEF RegisterDistribute, Bundles
  <2> HIDE DEF b
  <2>3. [op |-> "register", chain |-> c, bundle |-> b] \in Calls
    BY <2>2 DEF Calls
  <2>4. call' = [call EXCEPT ![t] = [op |-> "register", chain |-> c, bundle |-> b]]
    BY <1>1 DEF RegisterDistribute, b
  <2> QED
    BY <1>1, <2>1, <2>3, <2>4 DEF RegisterDistribute, TypeOK
<1>2. ASSUME NEW t \in Callers, RegisterStore(t) PROVE TypeOK'
  <2>1. call[t].bundle \in Bundles
    BY <1>2, CallFields DEF RegisterStore, OnTheWay
  <2> QED
    BY <1>2, <2>1 DEF RegisterStore, TypeOK
<1>3. ASSUME NEW t \in Callers, NEW c \in Chains, NEW token \in 1..MaxVersion,
             NEW F \in SUBSET Fields, NEW v \in [F -> Values], UpdateCheck(t, c, token, F, v)
      PROVE  TypeOK'
  <2> DEFINE p == [g \in Fields |-> IF g \in F THEN v[g] ELSE stored[c].policy[g]]
  <2>1. p \in Policies
    BY <1>3 DEF UpdateCheck, TypeOK, Bundles, Policies
  <2> HIDE DEF p
  <2>2. [op |-> "checked", chain |-> c, token |-> token, fields |-> F, policy |-> p] \in Calls
    BY <2>1 DEF Calls
  <2>3. call' = [call EXCEPT ![t] =
                   [op |-> "checked", chain |-> c, token |-> token, fields |-> F, policy |-> p]]
    BY <1>3 DEF UpdateCheck, p
  <2> QED
    BY <1>3, <2>2, <2>3 DEF UpdateCheck, TypeOK
<1>4. ASSUME NEW t \in Callers, UpdateDistribute(t) PROVE TypeOK'
  <2>1. CASE ~Valid(call[t].policy)
    BY <1>4, <2>1 DEF UpdateDistribute, TypeOK
  <2>2. CASE Valid(call[t].policy)
    <3>1. version' \in 1..MaxVersion /\ UNCHANGED <<stored, wins>>
      BY <1>4, <2>2 DEF UpdateDistribute, NextVersion, TypeOK
    <3>2. call[t].policy \in Policies /\ call[t].chain \in Chains
          /\ call[t].token \in 1..MaxVersion /\ call[t].fields \in SUBSET Fields
      BY <1>4, CallFields DEF UpdateDistribute, HasToken
    <3> DEFINE b == [policy |-> call[t].policy, version |-> version']
               d == [op |-> "distributed", chain |-> call[t].chain,
                     token |-> call[t].token, fields |-> call[t].fields, bundle |-> b]
    <3>3. b \in Bundles
      BY <2>2, <3>1, <3>2 DEF Bundles
    <3>4. call' = [call EXCEPT ![t] = d]
      BY <1>4, <2>2 DEF UpdateDistribute, TypeOK
    <3> HIDE DEF b
    <3>5. d \in Calls
      BY <3>2, <3>3 DEF Calls
    <3> HIDE DEF d
    <3> QED
      BY <3>1, <3>4, <3>5 DEF TypeOK
  <2> QED
    BY <2>1, <2>2
<1>5. ASSUME NEW t \in Callers, UpdateStore(t) PROVE TypeOK'
  <2>1. /\ call[t].bundle \in Bundles /\ call[t].chain \in Chains
        /\ call[t].token \in 1..MaxVersion
    BY <1>5, CallFields DEF UpdateStore, OnTheWay, HasToken
  <2>2. call[t].bundle.version \in 1..MaxVersion
    BY <2>1 DEF Bundles
  <2> QED
    BY <1>5, <2>1, <2>2 DEF UpdateStore, TypeOK
<1>6. CASE UNCHANGED vars
  BY <1>6 DEF vars, TypeOK
<1> QED
  BY <1>1, <1>2, <1>3, <1>4, <1>5, <1>6 DEF Next

(* A caller gets a bundle with the next version: no other has it.          *)
LEMMA DistributeKeepsVersions ==
  ASSUME TypeOK, Versions, NEW t \in Callers, NEW r, NEW b,
         NextVersion, UNCHANGED <<stored, wins>>,
         call' = [call EXCEPT ![t] = r], r.bundle = b, b.version = version',
         \/ r.op = "register"
         \/ r.op = "distributed" /\ HasToken(t) /\ r.token = call[t].token
  PROVE  Versions'
<1> USE DEF Versions, OnTheWay, HasToken
<1>1. version \in Nat /\ version' = version + 1
  BY RegistryAssumption DEF RegistryAssumption, NextVersion, TypeOK
<1>2. /\ call'[t] = r
      /\ \A u \in Callers \ {t} : call'[u] = call[u]
  BY DEF TypeOK
<1>3. \A c \in Chains : stored[c] # NoBundle => stored[c].version \in Nat
  BY DEF TypeOK, Bundles
<1>4. \A u \in Callers : OnTheWay(u) => call[u].bundle.version \in Nat
  BY CallFields DEF Bundles
<1>5. /\ \A u \in Callers : HasToken(u) => call[u].token \in Nat
      /\ \A w \in wins : w.token \in Nat
  BY CallFields DEF TypeOK
<1>6. VersionsDistinct'
  BY <1>1, <1>2, <1>3, <1>4 DEF VersionsDistinct, VersionsKnown
<1>7. VersionsKnown'
  BY <1>1, <1>2, <1>3, <1>4, <1>5 DEF VersionsKnown
<1>8. TokensWereStored'
  BY <1>1, <1>2, <1>4, <1>5 DEF TokensWereStored, VersionsKnown
<1>9. TokensSpent' /\ TokenWinsOnce'
  BY <1>1, <1>2, <1>5 DEF TokensSpent, TokenWinsOnce, VersionsKnown
<1> QED
  BY <1>6, <1>7, <1>8, <1>9

(* A caller's bundle is stored, and its call ends. *)
LEMMA StoreKeepsVersions ==
  ASSUME TypeOK, Versions, NEW t \in Callers, OnTheWay(t), UNCHANGED version,
         stored' = [stored EXCEPT ![call[t].chain] = call[t].bundle],
         call' = [call EXCEPT ![t] = Idle],
         \/ wins' = wins
         \/ /\ HasToken(t) /\ stored[call[t].chain] # NoBundle
            /\ stored[call[t].chain].version = call[t].token
            /\ wins' = wins \cup {[chain |-> call[t].chain, token |-> call[t].token,
                                   version |-> call[t].bundle.version]}
  PROVE  Versions'
<1> USE DEF Versions, OnTheWay, HasToken
<1>1. /\ call'[t] = Idle
      /\ \A u \in Callers \ {t} : call'[u] = call[u]
  BY DEF TypeOK
<1>2. /\ call[t].chain \in Chains
      /\ stored'[call[t].chain] = call[t].bundle
      /\ \A c \in Chains \ {call[t].chain} : stored'[c] = stored[c]
  BY CallFields DEF TypeOK
<1>3. VersionsDistinct'
  BY <1>1, <1>2 DEF VersionsDistinct
<1>4. VersionsKnown'
  BY <1>1, <1>2 DEF VersionsKnown
<1>5. TokensWereStored'
  BY <1>1 DEF TokensWereStored
<1>6. TokensSpent'
  BY <1>1, <1>2 DEF TokensSpent, TokensWereStored, VersionsDistinct
<1>7. TokenWinsOnce'
  BY <1>2 DEF TokensSpent, TokenWinsOnce
<1> QED
  BY <1>3, <1>4, <1>5, <1>6, <1>7

(* Every lock region keeps versions distinct and spent tokens spent        *)
(* (distribute, register, update).                                         *)
LEMMA VersionsKept == TypeOK /\ Versions /\ [Next]_vars => Versions'
<1> SUFFICES ASSUME TypeOK, Versions, [Next]_vars PROVE Versions'
  OBVIOUS
<1>1. ASSUME NEW t \in Callers, NEW c \in Chains, NEW policy \in Policies,
             RegisterDistribute(t, c, policy)
      PROVE  Versions'
  <2> DEFINE b == [policy |-> policy, version |-> version']
             r == [op |-> "register", chain |-> c, bundle |-> b]
  <2>1. r.bundle = b /\ b.version = version' /\ r.op = "register"
    OBVIOUS
  <2>2. NextVersion /\ UNCHANGED <<stored, wins>> /\ call' = [call EXCEPT ![t] = r]
    BY <1>1 DEF RegisterDistribute
  <2> HIDE DEF b, r
  <2> QED
    BY <2>1, <2>2, DistributeKeepsVersions
<1>2. ASSUME NEW t \in Callers, RegisterStore(t) PROVE Versions'
  BY <1>2, StoreKeepsVersions DEF RegisterStore, OnTheWay
<1>3. ASSUME NEW t \in Callers, NEW c \in Chains, NEW token \in 1..MaxVersion,
             NEW F \in SUBSET Fields, NEW v \in [F -> Values], UpdateCheck(t, c, token, F, v)
      PROVE  Versions'
  <2> DEFINE r == [op |-> "checked", chain |-> c, token |-> token, fields |-> F,
                   policy |-> [g \in Fields |-> IF g \in F THEN v[g] ELSE stored[c].policy[g]]]
  <2>1. r.op = "checked" /\ r.token = token /\ call'[t] = r
        /\ \A u \in Callers \ {t} : call'[u] = call[u]
    BY <1>3 DEF UpdateCheck, TypeOK
  <2> HIDE DEF r
  <2>2. UNCHANGED <<version, stored, wins>>
        /\ stored[c] # NoBundle /\ stored[c].version = token
    BY <1>3 DEF UpdateCheck
  <2> USE DEF Versions, OnTheWay, HasToken
  <2>3. VersionsDistinct'
    BY <2>1, <2>2 DEF VersionsDistinct
  <2>4. VersionsKnown'
    BY <2>1, <2>2 DEF VersionsKnown
  <2>5. TokensWereStored'
    BY <2>1, <2>2 DEF TokensWereStored, VersionsDistinct
  <2>6. TokensSpent' /\ TokenWinsOnce'
    BY <2>1, <2>2 DEF TokensSpent, TokenWinsOnce
  <2> QED
    BY <2>3, <2>4, <2>5, <2>6
<1>4. ASSUME NEW t \in Callers, UNCHANGED <<version, stored, wins>>,
             call' = [call EXCEPT ![t] = Idle]
      PROVE  Versions'
  <2>1. /\ call'[t] = Idle
        /\ \A u \in Callers \ {t} : call'[u] = call[u]
    BY <1>4 DEF TypeOK
  <2> QED
    BY <1>4, <2>1 DEF Versions, OnTheWay, HasToken, VersionsDistinct, VersionsKnown,
                      TokensWereStored, TokensSpent, TokenWinsOnce
<1>5. ASSUME NEW t \in Callers, UpdateDistribute(t) PROVE Versions'
  <2>1. CASE Valid(call[t].policy)
    <3> DEFINE b == [policy |-> call[t].policy, version |-> version']
               r == [op |-> "distributed", chain |-> call[t].chain,
                     token |-> call[t].token, fields |-> call[t].fields, bundle |-> b]
    <3>1. r.bundle = b /\ b.version = version' /\ r.op = "distributed"
          /\ r.token = call[t].token
      OBVIOUS
    <3>2. NextVersion /\ UNCHANGED <<stored, wins>> /\ call' = [call EXCEPT ![t] = r]
          /\ HasToken(t)
      BY <1>5, <2>1 DEF UpdateDistribute, HasToken, TypeOK
    <3> HIDE DEF b, r
    <3> QED
      BY <3>1, <3>2, DistributeKeepsVersions
  <2>2. CASE ~Valid(call[t].policy)
    BY <1>4, <1>5, <2>2 DEF UpdateDistribute
  <2> QED
    BY <2>1, <2>2
<1>6. ASSUME NEW t \in Callers, UpdateStore(t) PROVE Versions'
  <2>1. OnTheWay(t) /\ HasToken(t)
    BY <1>6 DEF UpdateStore, OnTheWay, HasToken
  <2>2. CASE UNCHANGED <<stored, wins>>
    BY <1>4, <1>6, <2>2 DEF UpdateStore
  <2>3. CASE ~UNCHANGED <<stored, wins>>
    BY <1>6, <2>1, <2>3, StoreKeepsVersions DEF UpdateStore
  <2> QED
    BY <2>2, <2>3
<1>7. CASE UNCHANGED vars
  BY <1>7 DEF vars, Versions, OnTheWay, HasToken, VersionsDistinct, VersionsKnown,
              TokensWereStored, TokensSpent, TokenWinsOnce
<1> QED
  BY <1>1, <1>2, <1>3, <1>5, <1>6, <1>7 DEF Next

(* A bundle that gets into place has no version that a caller presents, so *)
(* what a caller has built is compared with the policy it found.           *)
LEMMA GivenFieldsKept == IInv /\ [Next]_vars => GivenFields'
<1> SUFFICES ASSUME IInv, [Next]_vars PROVE GivenFields'
  OBVIOUS
<1> USE DEF IInv, OnTheWay, HasToken
<1>1. ASSUME NEW t \in Callers, stored' = stored, NEW r,
             call' = [call EXCEPT ![t] = r],
             ~HasToken(t)' \/ (HasToken(t) /\ HasToken(t)' /\ r.chain = call[t].chain
                              /\ r.token = call[t].token /\ r.fields = call[t].fields
                              /\ Built(t)' = Built(t))
      PROVE  GivenFields'
  <2>1. \A u \in Callers \ {t} : call'[u] = call[u]
    BY <1>1 DEF TypeOK
  <2>2. ASSUME NEW u \in Callers, u # t
        PROVE  Differ(u)' <=> Differ(u)
    BY <1>1, <2>1, <2>2 DEF Differ, Built
  <2>3. call'[t] = r
    BY <1>1 DEF TypeOK
  <2> QED
    BY <1>1, <2>1, <2>2, <2>3 DEF GivenFields, Differ
<1>2. ASSUME NEW t \in Callers, OnTheWay(t),
             stored' = [stored EXCEPT ![call[t].chain] = call[t].bundle],
             call' = [call EXCEPT ![t] = Idle]
      PROVE  GivenFields'
  <2>1. /\ call'[t] = Idle
        /\ \A u \in Callers \ {t} : call'[u] = call[u]
    BY <1>2 DEF TypeOK
  <2>2. /\ call[t].chain \in Chains
        /\ stored'[call[t].chain] = call[t].bundle
        /\ \A c \in Chains \ {call[t].chain} : stored'[c] = stored[c]
    BY <1>2, CallFields DEF TypeOK
  <2>3. ASSUME NEW u \in Callers, HasToken(u)', stored'[call'[u].chain] # NoBundle,
               stored'[call'[u].chain].version = call'[u].token
        PROVE  Differ(u)'
    <3>1. u # t /\ call'[u] = call[u]
      BY <2>1, <2>3
    <3>2. call[u].chain # call[t].chain
      BY <1>2, <2>2, <2>3, <3>1 DEF Versions, TokensWereStored
    <3>3. stored'[call[u].chain] = stored[call[u].chain]
      BY <2>2, <2>3, <3>1, <3>2, CallFields
    <3> QED
      BY <2>3, <3>1, <3>3 DEF GivenFields, Differ, Built
  <2> QED
    BY <2>3 DEF GivenFields
<1>3. ASSUME NEW t \in Callers, NEW c \in Chains, NEW policy \in Policies,
             RegisterDistribute(t, c, policy)
      PROVE  GivenFields'
  <2> DEFINE r == [op |-> "register", chain |-> c,
                   bundle |-> [policy |-> policy, version |-> version']]
  <2>1. call' = [call EXCEPT ![t] = r] /\ stored' = stored /\ call'[t] = r
    BY <1>3 DEF RegisterDistribute, TypeOK
  <2>2. ~HasToken(t)'
    BY <2>1
  <2> HIDE DEF r
  <2> QED
    BY <1>1, <2>1, <2>2
<1>4. ASSUME NEW t \in Callers, RegisterStore(t) PROVE GivenFields'
  BY <1>2, <1>4 DEF RegisterStore
<1>5. ASSUME NEW t \in Callers, NEW c \in Chains, NEW token \in 1..MaxVersion,
             NEW F \in SUBSET Fields, NEW v \in [F -> Values], UpdateCheck(t, c, token, F, v)
      PROVE  GivenFields'
  <2> DEFINE p == [g \in Fields |-> IF g \in F THEN v[g] ELSE stored[c].policy[g]]
             r == [op |-> "checked", chain |-> c, token |-> token, fields |-> F, policy |-> p]
  <2>1. \A g \in Fields \ F : p[g] = stored[c].policy[g]
    OBVIOUS
  <2>2. r.op = "checked" /\ r.chain = c /\ r.policy = p /\ r.fields = F
    OBVIOUS
  <2>3. /\ call'[t] = r /\ stored' = stored
        /\ \A u \in Callers \ {t} : call'[u] = call[u]
    BY <1>5 DEF UpdateCheck, TypeOK
  <2> HIDE DEF p, r
  <2>4. Differ(t)'
    BY <2>1, <2>2, <2>3 DEF Differ, Built
  <2>5. ASSUME NEW u \in Callers \ {t}
        PROVE  Differ(u)' <=> Differ(u)
    BY <2>3, <2>5 DEF Differ, Built
  <2> QED
    BY <2>3, <2>4, <2>5 DEF GivenFields
<1>6. ASSUME NEW t \in Callers, call' = [call EXCEPT ![t] = Idle], stored' = stored
      PROVE  GivenFields'
  <2>1. ~HasToken(t)'
    BY <1>6 DEF TypeOK
  <2> QED
    BY <1>1, <1>6, <2>1
<1>7. ASSUME NEW t \in Callers, UpdateDistribute(t) PROVE GivenFields'
  <2>1. CASE Valid(call[t].policy)
    <3> DEFINE b == [policy |-> call[t].policy, version |-> version']
               r == [op |-> "distributed", chain |-> call[t].chain,
                     token |-> call[t].token, fields |-> call[t].fields, bundle |-> b]
    <3>1. /\ r.op = "distributed" /\ r.chain = call[t].chain /\ r.token = call[t].token
          /\ r.fields = call[t].fields
          /\ r.bundle = b /\ b.policy = call[t].policy
      OBVIOUS
    <3>2. /\ call' = [call EXCEPT ![t] = r] /\ call'[t] = r /\ stored' = stored
          /\ HasToken(t) /\ call[t].op = "checked"
      BY <1>7, <2>1 DEF UpdateDistribute, TypeOK
    <3> HIDE DEF b, r
    <3>3. Built(t)' = Built(t)
      BY <3>1, <3>2 DEF Built
    <3> QED
      BY <1>1, <3>1, <3>2, <3>3
  <2>2. CASE ~Valid(call[t].policy)
    BY <1>6, <1>7, <2>2 DEF UpdateDistribute
  <2> QED
    BY <2>1, <2>2
<1>8. ASSUME NEW t \in Callers, UpdateStore(t) PROVE GivenFields'
  <2>1. CASE stored' = stored
    BY <1>6, <1>8, <2>1 DEF UpdateStore
  <2>2. CASE stored' # stored
    BY <1>2, <1>8, <2>2 DEF UpdateStore
  <2> QED
    BY <2>1, <2>2
<1>9. CASE UNCHANGED vars
  BY <1>9 DEF vars, GivenFields, Differ, Built
<1> QED
  BY <1>3, <1>4, <1>5, <1>7, <1>8, <1>9 DEF Next

(* The parts of the invariant are kept together.                           *)
LEMMA InvKept == IInv /\ [Next]_vars => IInv'
BY TypesKept, VersionsKept, GivenFieldsKept DEF IInv

(* An empty registry has no version in use and no token spent (__init__).  *)
LEMMA InvFromInit == Init => IInv
<1> SUFFICES ASSUME Init PROVE IInv
  OBVIOUS
<1>1. TypeOK
  BY RegistryAssumption DEF RegistryAssumption, Init, TypeOK
<1>2. Versions /\ GivenFields
  BY DEF Init, Versions, VersionsDistinct, VersionsKnown, TokensWereStored, TokensSpent,
         TokenWinsOnce, GivenFields, OnTheWay, HasToken
<1> QED
  BY <1>1, <1>2 DEF IInv

(* The invariant holds in every reachable state.                           *)
LEMMA Invariance == Spec => []IInv
<1>1. Init => IInv
  BY InvFromInit
<1>2. IInv /\ [Next]_vars => IInv'
  BY InvKept
<1> QED
  BY <1>1, <1>2, PTL DEF Spec

(* Only a policy that validation accepts is stored or on its way there.    *)
THEOREM RegistryTypeCorrect == Spec => []TypeOK
<1>1. IInv => TypeOK
  BY DEF IInv
<1> QED
  BY <1>1, Invariance, PTL

(* No version names two bundles, however register and update interleave.   *)
THEOREM RegistryVersionsDistinct == Spec => []VersionsDistinct
<1>1. IInv => VersionsDistinct
  BY DEF IInv, Versions
<1> QED
  BY <1>1, Invariance, PTL

(* Of the updates that present one version of a chain, one succeeds.       *)
THEOREM RegistryTokenWinsOnce == Spec => []TokenWinsOnce
<1>1. IInv => TokenWinsOnce
  BY DEF IInv, Versions
<1> QED
  BY <1>1, Invariance, PTL

(* A caller whose update changes what is stored has just passed the second *)
(* look at the version.                                                    *)
LEMMA UpdateIsStore ==
  ASSUME IInv, [Next]_vars, NEW t \in Callers, Updates(t)
  PROVE  /\ OnTheWay(t) /\ HasToken(t) /\ call[t].chain \in Chains
         /\ stored[call[t].chain] # NoBundle
         /\ stored[call[t].chain].version = call[t].token
         /\ stored'[call[t].chain] = call[t].bundle
<1> USE DEF Updates
<1>1. OnTheWay(t) /\ HasToken(t) /\ call[t].chain \in Chains
  BY CallFields DEF IInv, OnTheWay, HasToken
<1>2. ASSUME NEW u \in Callers, u # t, NEW r, call' = [call EXCEPT ![u] = r]
      PROVE  FALSE
  BY <1>2 DEF IInv, TypeOK
<1>3. UpdateStore(t)
  <2>1. PICK u \in Callers :
          \/ RegisterStore(u) \/ UpdateStore(u)
    BY DEF Next, RegisterDistribute, UpdateCheck, UpdateDistribute, vars
  <2>2. u = t
    BY <1>2, <2>1 DEF RegisterStore, UpdateStore
  <2> QED
    BY <2>1, <2>2 DEF RegisterStore
<1> QED
  BY <1>1, <1>3 DEF UpdateStore, IInv, TypeOK

(* An update replaces a policy by a newer one. *)
THEOREM RegistryUpdateRaisesVersion == Spec => UpdateRaisesVersion
<1>1. ASSUME IInv, [Next]_vars, NEW t \in Callers, Updates(t)
      PROVE  stored'[call[t].chain].version > stored[call[t].chain].version
  <2>1. call[t].token < call[t].bundle.version
    BY <1>1, UpdateIsStore DEF IInv, Versions, TokensWereStored
  <2>2. call[t].token \in Nat /\ call[t].bundle.version \in Nat
    BY <1>1, UpdateIsStore, CallFields DEF IInv, Bundles, OnTheWay
  <2> QED
    BY <1>1, <2>1, <2>2, UpdateIsStore
<1>2. IInv /\ [Next]_vars =>
        [\A t \in Callers : Updates(t) =>
           stored'[call[t].chain].version > stored[call[t].chain].version]_vars
  BY <1>1
<1> QED
  BY <1>2, Invariance, PTL DEF Spec, UpdateRaisesVersion

(* An update changes the fields it was given of the policy in place, and   *)
(* no other.                                                               *)
THEOREM RegistryNoFieldLost == Spec => NoFieldLost
<1> DEFINE Kept(t) == \A f \in Fields \ call[t].fields :
             stored'[call[t].chain].policy[f] = stored[call[t].chain].policy[f]
<1>1. ASSUME IInv, [Next]_vars, NEW t \in Callers, Updates(t)
      PROVE  Kept(t)
  <2>1. Differ(t)
    BY <1>1, UpdateIsStore DEF IInv, GivenFields
  <2>2. Built(t) = stored'[call[t].chain].policy
    BY <1>1, UpdateIsStore DEF Built, OnTheWay
  <2> QED
    BY <2>1, <2>2 DEF Differ
<1>2. IInv /\ [Next]_vars => [\A t \in Callers : Updates(t) => Kept(t)]_vars
  BY <1>1
<1> QED
  BY <1>2, Invariance, PTL DEF Spec, NoFieldLost
=============================================================================
