--------------------------- MODULE TenantsProofs ----------------------------
(***************************************************************************)
(* The forest of tenants, for any ids, overrides and limits and however    *)
(* tenants are registered, changed, deleted and registered again under an  *)
(* id that was used before.                                                *)
(***************************************************************************)
EXTENDS Tenants, WellFoundedInduction, FiniteSetTheorems, TLAPS

-----------------------------------------------------------------------------
(* Natural numbers. *)

(* Every nonempty set of naturals has a least element. *)
LEMMA LeastNatural ==
  ASSUME NEW T \in SUBSET Nat, T # {}
  PROVE  \E m \in T : \A n \in T : m <= n
<1> DEFINE R == {p \in Nat \X Nat : p[1] < p[2]}
<1>1. IsWellFoundedOn(R, Nat)
  BY NatLessThanWellFounded, Zenon DEF OpToRel
<1> HIDE DEF R
<1>2. PICK m \in T : \A n \in T : <<n, m>> \notin R
  BY <1>1, WFMin, Zenon
<1>3. \A n \in T : ~(n < m)
  BY <1>2 DEF R
<1> QED BY <1>3

(* Induction: a set of naturals that holds 0 and is closed under successor *)
(* is all of Nat.                                                          *)
LEMMA SetInduction ==
  ASSUME NEW S \in SUBSET Nat, 0 \in S, \A n \in S : n + 1 \in S
  PROVE  S = Nat
<1> SUFFICES ASSUME Nat \ S # {} PROVE FALSE
  OBVIOUS
<1>1. PICK m \in Nat \ S : \A n \in Nat \ S : m <= n
  BY LeastNatural
<1>2. m # 0 /\ m - 1 \in Nat
  BY <1>1
<1>3. m - 1 \in S
  BY <1>1, <1>2
<1> QED BY <1>1, <1>3

IInv == TypeOK /\ ParentIsOlder

(* The fields of a tenant that is registered (TenantNode).                 *)
LEMMA NodeFields ==
  ASSUME TypeOK, NEW t \in Ids, tenants[t] # NoOne
  PROVE  /\ tenants[t] \in Nodes
         /\ tenants[t].created \in Nat
         /\ tenants[t].parent # NoOne => tenants[t].parent \in Ids
<1>1. tenants[t] \in Nodes
  BY DEF TypeOK, Nodes
<1>2. MaxCreated \in Nat
  BY TenantsAssumption
<1> QED
  BY <1>1, <1>2 DEF Nodes

(* Each operation leaves tenants well typed. *)
LEMMA TypesKept == TypeOK /\ [Next]_vars => TypeOK'
<1> SUFFICES ASSUME TypeOK, [Next]_vars PROVE TypeOK'
  OBVIOUS
<1>a. MaxCreated \in Nat /\ NoOne \notin Ids
  BY TenantsAssumption
<1>1. ASSUME NEW t \in Ids, NEW p \in Ids \cup {NoOne}, NEW o \in Overrides,
             Register(t, p, o)
      PROVE  TypeOK'
  <2>1. clock' \in 1..MaxCreated /\ clock' = clock + 1
    BY <1>1, <1>a DEF Register, TypeOK
  <2>2. [parent |-> p, overrides |-> o, created |-> clock'] \in Nodes
    BY <2>1 DEF Nodes
  <2> QED
    BY <1>1, <1>a, <2>1, <2>2 DEF Register, TypeOK, Nodes
<1>2. ASSUME NEW t \in Ids, NEW o \in Overrides, Update(t, o)
      PROVE  TypeOK'
  <2>1. tenants[t] \in Nodes
    BY <1>2, NodeFields DEF Update, Exists
  <2>2. [tenants[t] EXCEPT !.overrides = o] \in Nodes
    BY <2>1 DEF Nodes
  <2>3. tenants' = [tenants EXCEPT ![t] = [tenants[t] EXCEPT !.overrides = o]]
    BY <1>2 DEF Update
  <2> QED
    BY <1>2, <2>2, <2>3 DEF Update, TypeOK, Nodes
<1>3. ASSUME NEW t \in Ids, Delete(t)
      PROVE  TypeOK'
  BY <1>3 DEF Delete, TypeOK
<1>4. CASE UNCHANGED <<tenants, clock>>
  BY <1>4 DEF TypeOK
<1> QED
  BY <1>1, <1>2, <1>3, <1>4 DEF Next, GetEffectivePolicy, ReadTenant, ReadAncestors, vars

(* What each operation does to the ages of parents.  Delete leaves no      *)
(* child behind, and Register takes an id that is nobody's parent.         *)
LEMMA OlderKept == IInv /\ [Next]_vars => ParentIsOlder'
<1> SUFFICES ASSUME IInv, [Next]_vars PROVE ParentIsOlder'
  OBVIOUS
<1> USE DEF IInv
<1>a. MaxCreated \in Nat /\ NoOne \notin Ids /\ clock \in Nat
  BY TenantsAssumption DEF TypeOK
<1>1. ASSUME NEW t \in Ids, NEW p \in Ids \cup {NoOne}, NEW o \in Overrides,
             Register(t, p, o)
      PROVE  ParentIsOlder'
  <2> DEFINE node == [parent |-> p, overrides |-> o, created |-> clock']
  <2>1. /\ clock' = clock + 1 /\ tenants[t] = NoOne
        /\ p # NoOne => p \in Ids /\ tenants[p] # NoOne /\ p # t
    BY <1>1, <1>a DEF Register, Exists
  <2>2. node.parent = p /\ node.created = clock'
    OBVIOUS
  <2>3. tenants'[t] = node /\ \A u \in Ids : u # t => tenants'[u] = tenants[u]
    BY <1>1 DEF Register, TypeOK
  <2> HIDE DEF node
  <2> SUFFICES ASSUME NEW u \in Ids, tenants'[u] # NoOne
               PROVE  /\ tenants'[u].created <= clock'
                      /\ tenants'[u].parent # NoOne =>
                          /\ tenants'[tenants'[u].parent] # NoOne
                          /\ tenants'[tenants'[u].parent].created < tenants'[u].created
    BY DEF ParentIsOlder, Exists
  <2>4. CASE u = t
    <3>1. ASSUME p # NoOne PROVE tenants[p].created <= clock /\ tenants[p].created \in Nat
      BY <2>1, <3>1, <1>a, NodeFields DEF ParentIsOlder, Exists
    <3> QED
      BY <1>a, <2>1, <2>2, <2>3, <2>4, <3>1
  <2>5. CASE u # t
    <3>1. tenants'[u] = tenants[u] /\ tenants[u].created <= clock /\ tenants[u].created \in Nat
      BY <2>3, <2>5, <1>a, NodeFields DEF ParentIsOlder, Exists
    <3>2. ASSUME tenants[u].parent # NoOne
          PROVE  /\ tenants[u].parent \in Ids
                 /\ tenants[tenants[u].parent] # NoOne
                 /\ tenants[tenants[u].parent].created < tenants[u].created
      BY <2>3, <2>5, <3>2, <1>a, NodeFields DEF ParentIsOlder, Exists
    <3>3. tenants[u].parent # NoOne =>
            tenants'[tenants[u].parent] = tenants[tenants[u].parent]
      BY <2>1, <2>3, <3>2
    <3> QED
      BY <1>a, <2>1, <3>1, <3>2, <3>3
  <2> QED
    BY <2>4, <2>5
<1>2. ASSUME NEW t \in Ids, NEW o \in Overrides, Update(t, o)
      PROVE  ParentIsOlder'
  <2>1. tenants[t] \in Nodes /\ clock' = clock
    BY <1>2, NodeFields DEF Update, Exists
  <2>2. tenants'[t] = [tenants[t] EXCEPT !.overrides = o]
    BY <1>2 DEF Update, TypeOK
  <2>3. /\ tenants'[t].parent = tenants[t].parent
        /\ tenants'[t].created = tenants[t].created
    BY <2>1, <2>2 DEF Nodes
  <2>4. /\ \A u \in Ids : u # t => tenants'[u] = tenants[u]
        /\ tenants[t] # NoOne
    BY <1>2 DEF Update, TypeOK, Exists
  <2>5. \A u \in Ids : /\ tenants'[u].parent = tenants[u].parent
                      /\ tenants'[u].created = tenants[u].created
    BY <2>3, <2>4
  <2>6. \A u \in Ids : tenants'[u] # NoOne => tenants[u] # NoOne
    BY <2>4
  <2>7. \A u \in Ids : tenants[u] # NoOne => tenants'[u] # NoOne
    BY <2>1, <2>2, <2>4, TenantsAssumption DEF Nodes
  <2> QED
    BY <1>a, <2>1, <2>5, <2>6, <2>7, NodeFields DEF ParentIsOlder, Exists
<1>3. ASSUME NEW t \in Ids, Delete(t)
      PROVE  ParentIsOlder'
  <2>1. /\ clock' = clock /\ tenants'[t] = NoOne
        /\ \A u \in Ids : u # t => tenants'[u] = tenants[u]
    BY <1>3 DEF Delete, TypeOK
  <2>2. \A u \in Ids : tenants[u] # NoOne => tenants[u].parent # t
    BY <1>3, <1>a DEF Delete, Children, Exists
  <2>3. \A u \in Ids : tenants[u] # NoOne /\ tenants[u].parent # NoOne => tenants[u].parent \in Ids
    BY NodeFields
  <2> QED
    BY <1>a, <2>1, <2>2, <2>3 DEF ParentIsOlder, Exists
<1>4. CASE UNCHANGED <<tenants, clock>>
  BY <1>4 DEF ParentIsOlder, Exists
<1> QED
  BY <1>1, <1>2, <1>3, <1>4 DEF Next, GetEffectivePolicy, ReadTenant, ReadAncestors, vars

(* Tenants are well typed and younger than their parents in every          *)
(* reachable state.                                                        *)
LEMMA Invariance == Spec => []IInv
<1>1. Init => IInv
  BY TenantsAssumption DEF Init, IInv, TypeOK, ParentIsOlder, Exists
<1>2. IInv /\ [Next]_vars => IInv'
  BY TypesKept, OlderKept DEF IInv
<1> QED
  BY <1>1, <1>2, PTL DEF Spec

(* Tenants and the clock are well typed: nothing but what requests bring   *)
(* is stored.                                                              *)
THEOREM TenantsTypeCorrect == Spec => []TypeOK
<1>1. IInv => TypeOK
  BY DEF IInv
<1> QED
  BY <1>1, Invariance, PTL

(* Every parent exists and was registered before its children: deleting a  *)
(* tenant orphans none, and registering an id again gives no child to it.  *)
THEOREM TenantsParentIsOlder == Spec => []ParentIsOlder
<1>1. IInv => ParentIsOlder
  BY DEF IInv
<1> QED
  BY <1>1, Invariance, PTL

(* No set of tenants is closed under taking the parent, so none is its own *)
(* ancestor and every walk towards the root comes to an end.               *)
NoCycle ==
  \A S \in SUBSET Ids :
    S # {} /\ (\A s \in S : Exists(s)) => \E s \in S : tenants[s].parent \notin S

(* The forest has no cycle, whatever ids are used again: the oldest of any *)
(* tenants has its parent elsewhere.                                       *)
THEOREM TenantsNoCycle == Spec => []NoCycle
<1>1. ASSUME IInv, NEW S \in SUBSET Ids, S # {}, \A s \in S : Exists(s)
      PROVE  \E s \in S : tenants[s].parent \notin S
  <2> DEFINE ages == {tenants[s].created : s \in S}
  <2>1. \A s \in S : tenants[s] # NoOne /\ s \in Ids /\ tenants[s].created \in Nat
    BY <1>1, NodeFields DEF IInv, Exists
  <2>2. ages \in SUBSET Nat /\ ages # {}
    BY <1>1, <2>1
  <2> HIDE DEF ages
  <2>3. PICK m \in ages : \A n \in ages : ~(n < m)
    BY <2>2, LeastNatural
  <2>4. PICK s \in S : tenants[s].created = m
    BY <2>3 DEF ages
  <2>5. ASSUME tenants[s].parent \in S
        PROVE  FALSE
    <3>1. tenants[s].parent # NoOne
      BY <2>5, TenantsAssumption
    <3>2. tenants[tenants[s].parent].created < m
      BY <1>1, <2>1, <2>4, <3>1 DEF IInv, ParentIsOlder, Exists
    <3>3. tenants[tenants[s].parent].created \in ages
      BY <2>5 DEF ages
    <3> QED
      BY <2>3, <3>2, <3>3
  <2> QED
    BY <2>4, <2>5
<1>2. IInv => NoCycle
  BY <1>1 DEF NoCycle
<1> QED
  BY <1>2, Invariance, PTL
----------------------------------------------------------------------------
(* Walks towards the root.                                                  *)

ExistsIn(F, x) == x # NoOne /\ F[x] # NoOne
Above(F, x) ==
  IF ExistsIn(F, x) /\ ExistsIn(F, F[x].parent) THEN F[x].parent ELSE NoOne
IsWalk(F, t, n, g) == g = [i \in 0..n |-> IF i = 0 THEN t ELSE Above(F, g[i - 1])]
UpIn(F, t, n) ==
  LET at[i \in 0..n] == IF i = 0 THEN t ELSE Above(F, at[i - 1]) IN at[n]

(* Up is the walk in the forest there is (_walk_ancestors_unsafe).         *)
LEMMA UpIsWalk == \A t, n : Up(t, n) = UpIn(tenants, t, n)
BY Zenon DEF Up, UpIn, Above, ExistsIn, Exists

(* A walk starts at t and takes one step after the other.                  *)
LEMMA WalkSteps ==
  ASSUME NEW F, NEW t, NEW n \in Nat, NEW g, IsWalk(F, t, n, g)
  PROVE  g[0] = t /\ \A i \in 1..n : g[i] = Above(F, g[i - 1])
<1> DEFINE e(i) == IF i = 0 THEN t ELSE Above(F, g[i - 1])
<1>1. g = [i \in 0..n |-> e(i)]
  BY DEF IsWalk
<1>2. \A i \in 0..n : g[i] = e(i)
  <2> HIDE DEF e
  <2> QED
    BY <1>1
<1>3. g[0] = e(0) /\ \A i \in 1..n : g[i] = e(i) /\ i # 0
  BY <1>2
<1> QED
  BY <1>3

(* Two walks of the same forest agree as far as the shorter goes.          *)
LEMMA WalksAgree ==
  ASSUME NEW F, NEW t, NEW m \in Nat, NEW n \in Nat, m <= n,
         NEW g, IsWalk(F, t, m, g), NEW h, IsWalk(F, t, n, h)
  PROVE  g[m] = h[m]
<1>1. /\ g[0] = t /\ \A i \in 1..m : g[i] = Above(F, g[i - 1])
      /\ h[0] = t /\ \A i \in 1..n : h[i] = Above(F, h[i - 1])
  BY WalkSteps
<1> DEFINE S == {i \in Nat : i <= m => g[i] = h[i]}
<1>2. 0 \in S
  BY <1>1
<1>3. ASSUME NEW i \in S PROVE i + 1 \in S
  <2>1. CASE i + 1 <= m
    <3>1. i + 1 \in 1..m /\ i + 1 \in 1..n /\ (i + 1) - 1 = i /\ g[i] = h[i]
      BY <2>1
    <3> QED
      BY <1>1, <3>1
  <2> QED
    BY <2>1
<1>4. S = Nat
  <2> HIDE DEF S
  <2>1. S \in SUBSET Nat
    BY DEF S
  <2> QED
    BY <1>2, <1>3, <2>1, SetInduction
<1> QED
  BY <1>4

(* There is a walk of any length, and UpIn is the end of one.              *)
LEMMA WalkExists ==
  ASSUME NEW F, NEW t, NEW n \in Nat
  PROVE  \E g : IsWalk(F, t, n, g) /\ UpIn(F, t, n) = g[n]
<1> DEFINE S == {m \in Nat : \E g : IsWalk(F, t, m, g)}
<1>1. 0 \in S
  <2> DEFINE z == [i \in 0..0 |-> t]
  <2>1. IsWalk(F, t, 0, z)
    BY DEF IsWalk
  <2> QED
    BY <2>1
<1>2. ASSUME NEW m \in S PROVE m + 1 \in S
  <2>1. PICK g : IsWalk(F, t, m, g)
    OBVIOUS
  <2>2. g[0] = t /\ \A i \in 1..m : g[i] = Above(F, g[i - 1])
    BY <2>1, WalkSteps
  <2> DEFINE h == [i \in 0..(m + 1) |-> IF i = m + 1 THEN Above(F, g[m]) ELSE g[i]]
             e(i) == IF i = 0 THEN t ELSE Above(F, h[i - 1])
  <2>3. ASSUME NEW i \in 0..(m + 1) PROVE h[i] = e(i)
    <3>1. CASE i = 0
      BY <2>2, <3>1
    <3>2. CASE i = m + 1
      <4>1. i - 1 = m /\ h[m] = g[m] /\ i # 0
        BY <3>2
      <4> QED
        BY <3>2, <4>1
    <3>3. CASE i # 0 /\ i # m + 1
      <4>1. i \in 1..m /\ i - 1 \in 0..(m + 1) /\ i - 1 # m + 1
        BY <3>3
      <4>2. h[i] = g[i] /\ h[i - 1] = g[i - 1]
        BY <3>3, <4>1
      <4> QED
        BY <2>2, <3>3, <4>1, <4>2
    <3> QED
      BY <3>1, <3>2, <3>3
  <2>4. h = [i \in 0..(m + 1) |-> e(i)]
    <3>1. h = [i \in 0..(m + 1) |-> h[i]]
      OBVIOUS
    <3> HIDE DEF h, e
    <3> QED
      BY <2>3, <3>1
  <2>5. IsWalk(F, t, m + 1, h)
    BY <2>4 DEF IsWalk
  <2> QED
    BY <2>5
<1>3. S = Nat
  <2> HIDE DEF S
  <2>1. S \in SUBSET Nat
    BY DEF S
  <2> QED
    BY <1>1, <1>2, <2>1, SetInduction
<1>4. \E g : IsWalk(F, t, n, g)
  <2> HIDE DEF S
  <2>1. n \in S
    BY <1>3
  <2> QED
    BY <2>1 DEF S
<1> DEFINE w == CHOOSE g : IsWalk(F, t, n, g)
<1>5. IsWalk(F, t, n, w)
  BY <1>4
<1>6. UpIn(F, t, n) = w[n]
  BY Zenon DEF UpIn, IsWalk
<1> QED
  BY <1>5, <1>6

(* The walk step by step, from either end.                                 *)
LEMMA UpSteps ==
  ASSUME NEW F, NEW t
  PROVE  /\ UpIn(F, t, 0) = t
         /\ \A n \in Nat : UpIn(F, t, n + 1) = Above(F, UpIn(F, t, n))
<1>1. UpIn(F, t, 0) = t
  <2>1. PICK g : IsWalk(F, t, 0, g) /\ UpIn(F, t, 0) = g[0]
    BY WalkExists
  <2> QED
    BY <2>1, WalkSteps
<1>2. ASSUME NEW n \in Nat
      PROVE  UpIn(F, t, n + 1) = Above(F, UpIn(F, t, n))
  <2>1. PICK g : IsWalk(F, t, n, g) /\ UpIn(F, t, n) = g[n]
    BY WalkExists
  <2>2. PICK h : IsWalk(F, t, n + 1, h) /\ UpIn(F, t, n + 1) = h[n + 1]
    BY WalkExists
  <2>3. g[n] = h[n]
    BY <2>1, <2>2, WalksAgree
  <2>4. n + 1 \in Nat /\ n + 1 \in 1..(n + 1) /\ (n + 1) - 1 = n
    OBVIOUS
  <2>5. \A i \in 1..(n + 1) : h[i] = Above(F, h[i - 1])
    <3>1. PICK k \in Nat : k = n + 1
      BY <2>4
    <3>2. IsWalk(F, t, k, h)
      BY Zenon, <2>2, <3>1
    <3>3. \A i \in 1..k : h[i] = Above(F, h[i - 1])
      BY <3>2, WalkSteps
    <3> QED
      BY Zenon, <3>1, <3>3
  <2> QED
    BY <2>1, <2>2, <2>3, <2>4, <2>5
<1> QED
  BY <1>1, <1>2

(* To climb n + 1 generations is to climb n from the parent.               *)
LEMMA UpFromAbove ==
  ASSUME NEW F, NEW t, NEW n \in Nat
  PROVE  UpIn(F, t, n + 1) = UpIn(F, Above(F, t), n)
<1> DEFINE S == {m \in Nat : UpIn(F, t, m + 1) = UpIn(F, Above(F, t), m)}
<1>1. 0 \in S
  BY UpSteps
<1>2. ASSUME NEW m \in S PROVE m + 1 \in S
  <2>1. m \in Nat /\ UpIn(F, t, m + 1) = UpIn(F, Above(F, t), m)
    OBVIOUS
  <2>2. PICK k \in Nat : k = m + 1
    BY <2>1
  <2> HIDE DEF S
  <2>3. UpIn(F, t, k + 1) = Above(F, UpIn(F, t, k))
    BY Zenon, UpSteps
  <2>4. UpIn(F, Above(F, t), m + 1) = Above(F, UpIn(F, Above(F, t), m))
    BY Zenon, <2>1, UpSteps
  <2>5. UpIn(F, t, k + 1) = UpIn(F, Above(F, t), k)
    BY Zenon, <2>1, <2>2, <2>3, <2>4
  <2> QED
    BY <2>2, <2>5 DEF S
<1> HIDE DEF S
<1>3. S \in SUBSET Nat
  BY DEF S
<1>4. n \in S
  BY <1>1, <1>2, <1>3, SetInduction
<1> QED
  BY <1>4 DEF S

(* S has what is above its members, and it is the same in both forests.    *)
SameAbove(F, G, S) == \A x \in S : Above(F, x) \in S /\ Above(G, x) = Above(F, x)

(* Two forests that agree on some tenants and on what is above them have   *)
(* the same walks from these, and those walks stay among them.             *)
LEMMA UpSame ==
  ASSUME NEW F, NEW G, NEW S, NEW t \in S, NEW n \in Nat, SameAbove(F, G, S)
  PROVE  UpIn(F, t, n) \in S /\ UpIn(G, t, n) = UpIn(F, t, n)
<1> DEFINE T == {m \in Nat : UpIn(F, t, m) \in S /\ UpIn(G, t, m) = UpIn(F, t, m)}
<1>0. \A k \in Nat : /\ UpIn(F, t, k + 1) = Above(F, UpIn(F, t, k))
                     /\ UpIn(G, t, k + 1) = Above(G, UpIn(G, t, k))
  BY UpSteps
<1>1. 0 \in T
  BY UpSteps
<1>2. ASSUME NEW m \in T PROVE m + 1 \in T
  <2>1. /\ UpIn(F, t, m + 1) = Above(F, UpIn(F, t, m))
        /\ UpIn(G, t, m + 1) = Above(G, UpIn(G, t, m))
    BY <1>0
  <2> QED
    BY <2>1 DEF SameAbove
<1>3. n \in T
  <2> HIDE DEF T
  <2>1. T \in SUBSET Nat
    BY DEF T
  <2> QED
    BY <1>1, <1>2, <2>1, SetInduction
<1> QED
  BY <1>3

(* A walk that has ended stays so. *)
LEMMA UpOfNoOne ==
  ASSUME NEW F, NEW n \in Nat
  PROVE  UpIn(F, NoOne, n) = NoOne
<1>1. SameAbove(F, F, {NoOne})
  BY DEF SameAbove, Above, ExistsIn
<1>2. NoOne \in {NoOne}
  OBVIOUS
<1>3. UpIn(F, NoOne, n) \in {NoOne}
  BY Zenon, <1>1, <1>2, UpSame
<1> QED
  BY <1>3

(* What is above a tenant is its parent, which is there.                   *)
LEMMA AboveIsParent ==
  ASSUME IInv
  PROVE  /\ Above(tenants, NoOne) = NoOne
         /\ \A t \in Ids : tenants[t] = NoOne => Above(tenants, t) = NoOne
         /\ \A t \in Ids : tenants[t] # NoOne =>
              /\ Above(tenants, t) = tenants[t].parent
              /\ tenants[t].parent # NoOne =>
                   /\ tenants[t].parent \in Ids
                   /\ tenants[tenants[t].parent] # NoOne
                   /\ tenants[tenants[t].parent].created < tenants[t].created
<1>1. /\ Above(tenants, NoOne) = NoOne
      /\ \A t \in Ids : tenants[t] = NoOne => Above(tenants, t) = NoOne
  BY DEF Above, ExistsIn
<1>2. ASSUME NEW t \in Ids, tenants[t] # NoOne
      PROVE  /\ Above(tenants, t) = tenants[t].parent
             /\ tenants[t].parent # NoOne =>
                   /\ tenants[t].parent \in Ids
                   /\ tenants[tenants[t].parent] # NoOne
                   /\ tenants[tenants[t].parent].created < tenants[t].created
  <2>1. tenants[t].parent # NoOne =>
                   /\ tenants[t].parent \in Ids
                   /\ tenants[tenants[t].parent] # NoOne
                   /\ tenants[tenants[t].parent].created < tenants[t].created
    BY <1>2, NodeFields, TenantsAssumption DEF IInv, ParentIsOlder, Exists
  <2> QED
    BY <1>2, <2>1, TenantsAssumption DEF Above, ExistsIn
<1> QED
  BY <1>1, <1>2

----------------------------------------------------------------------------
(* The walk from any tenant that is there is over after MaxDepth of its    *)
(* ancestors, and a call is a resolution of a tenant.                      *)
Walkable == \A t \in Ids : tenants[t] # NoOne => UpIn(tenants, t, MaxDepth + 1) = NoOne
CallTypes ==
  call \in {NoCall} \cup [at : {"found"}, tenant : Ids]
                    \cup [at : {"read"}, tenant : Ids, node : Nodes]
WInv == IInv /\ Walkable /\ CallTypes

(* The walks keep their length when the forest changes.  register climbs   *)
(* from the parent, one generation less than from the tenant; delete takes *)
(* a tenant that no walk passes.                                           *)
LEMMA WalkableKept == WInv /\ [Next]_vars => Walkable'
<1> SUFFICES ASSUME WInv, [Next]_vars PROVE Walkable'
  OBVIOUS
<1> USE DEF WInv
<1>a. MaxDepth \in Nat /\ MaxDepth + 1 \in Nat /\ NoOne \notin Ids /\ NoOne \notin Nodes
  BY TenantsAssumption
<1> DEFINE F == tenants
           G == tenants'
           There == {x \in Ids : F[x] # NoOne}
<1>b. /\ Above(F, NoOne) = NoOne /\ Above(G, NoOne) = NoOne
      /\ \A x \in There : /\ Above(F, x) = F[x].parent
                          /\ F[x].parent \in There \cup {NoOne}
  BY AboveIsParent DEF Above, ExistsIn
<1>1. ASSUME NEW t \in Ids, NEW p \in Ids \cup {NoOne}, NEW o \in Overrides,
             Register(t, p, o)
      PROVE  Walkable'
  <2>0. Up(p, MaxDepth) = UpIn(F, p, MaxDepth)
    BY Zenon, UpIsWalk
  <2>1. /\ F[t] = NoOne
        /\ p # NoOne => p \in There /\ UpIn(F, p, MaxDepth) = NoOne
    BY <1>1, <1>a, <2>0 DEF Register, Exists, WalkEnds
  <2>2. G[t].parent = p /\ G[t] # NoOne /\ \A x \in Ids : x # t => G[x] = F[x]
    <3>1. G[t] = [parent |-> p, overrides |-> o, created |-> clock']
      BY <1>1 DEF Register, IInv, TypeOK
    <3>2. G[t] # NoOne
      <4>1. G[t] \in Nodes
        <5>1. clock' \in 1..MaxCreated
          BY <1>1, TenantsAssumption DEF Register, IInv, TypeOK
        <5> QED
          BY <3>1, <5>1 DEF Nodes
      <4> QED
        BY <4>1, <1>a
    <3> QED
      BY <1>1, <3>1, <3>2 DEF Register, IInv, TypeOK
  <2>3. \A x \in There \cup {NoOne} :
           Above(F, x) \in There \cup {NoOne} /\ Above(G, x) = Above(F, x)
    <3>1. ASSUME NEW x \in There
          PROVE  Above(F, x) \in There \cup {NoOne} /\ Above(G, x) = Above(F, x)
      <4>1. x # t /\ G[x] = F[x] /\ x # NoOne
        BY <2>1, <2>2, <1>a
      <4>2. F[x].parent \in There => F[x].parent # t /\ G[F[x].parent] = F[F[x].parent]
        BY <2>1, <2>2
      <4> QED
        BY <1>a, <1>b, <4>1, <4>2 DEF Above, ExistsIn
    <3> QED
      BY <1>b, <3>1
  <2> HIDE DEF F, G, There
  <2>4. ASSUME NEW u \in There, NEW n \in Nat
        PROVE  UpIn(G, u, n) = UpIn(F, u, n)
    <3> DEFINE T == There \cup {NoOne}
    <3>1. u \in T /\ SameAbove(F, G, T)
      BY <2>3 DEF SameAbove
    <3> HIDE DEF WInv, T
    <3> QED
      BY <3>1, UpSame
  <2>5. UpIn(G, t, MaxDepth + 1) = NoOne
    <3>1. UpIn(G, t, MaxDepth + 1) = UpIn(G, Above(G, t), MaxDepth)
      BY <1>a, UpFromAbove
    <3>2. Above(G, t) = p
      <4>1. p # NoOne => p # t /\ G[p] # NoOne
        BY <2>1, <2>2 DEF There
      <4> QED
        BY <1>a, <2>2, <4>1 DEF Above, ExistsIn
    <3>3. CASE p = NoOne
      BY <1>a, <3>1, <3>2, <3>3, UpOfNoOne
    <3>4. CASE p # NoOne
      BY <1>a, <2>1, <2>4, <3>1, <3>2, <3>4
    <3> QED
      BY <3>3, <3>4
  <2>6. \A u \in Ids : u # t /\ G[u] # NoOne => u \in There
    BY <2>2 DEF There
  <2>7. \A u \in There : UpIn(F, u, MaxDepth + 1) = NoOne
    BY DEF Walkable, There, F
  <2>8. \A u \in Ids : G[u] # NoOne => UpIn(G, u, MaxDepth + 1) = NoOne
    BY <1>a, <2>4, <2>5, <2>6, <2>7
  <2> QED
    BY <2>8 DEF Walkable, G
<1>2. ASSUME NEW S, S \subseteq There,
             \A x \in S : G[x] # NoOne /\ G[x].parent = F[x].parent /\ F[x].parent \in S \cup {NoOne},
             \A x \in Ids : G[x] # NoOne => x \in S
      PROVE  Walkable'
  <2>1. \A x \in S \cup {NoOne} :
           Above(F, x) \in S \cup {NoOne} /\ Above(G, x) = Above(F, x)
    <3>1. ASSUME NEW x \in S
          PROVE  Above(F, x) \in S \cup {NoOne} /\ Above(G, x) = Above(F, x)
      <4>1. x # NoOne /\ x \in There
        BY <1>2, <1>a
      <4> QED
        BY <1>2, <1>b, <4>1 DEF Above, ExistsIn
    <3> QED
      BY <1>b, <3>1
  <2> HIDE DEF F, G, There
  <2>2. \A u \in S : UpIn(G, u, MaxDepth + 1) = UpIn(F, u, MaxDepth + 1)
    <3> DEFINE T == S \cup {NoOne}
    <3>1. S \subseteq T /\ SameAbove(F, G, T)
      BY <2>1 DEF SameAbove
    <3> HIDE DEF WInv, T
    <3>2. ASSUME NEW u \in T
          PROVE  UpIn(G, u, MaxDepth + 1) = UpIn(F, u, MaxDepth + 1)
      BY <1>a, <3>1, UpSame
    <3> QED
      BY <3>1, <3>2
  <2>3. \A u \in There : UpIn(F, u, MaxDepth + 1) = NoOne
    BY DEF Walkable, There, F
  <2>4. \A u \in Ids : G[u] # NoOne => UpIn(G, u, MaxDepth + 1) = NoOne
    BY <1>2, <2>2, <2>3
  <2> QED
    BY <2>4 DEF Walkable, G
<1>3. ASSUME NEW t \in Ids, NEW o \in Overrides, Update(t, o)
      PROVE  Walkable'
  <2>1. G[t] = [F[t] EXCEPT !.overrides = o] /\ \A x \in Ids : x # t => G[x] = F[x]
    BY <1>3 DEF Update, IInv, TypeOK
  <2>2. F[t] \in Nodes /\ F[t] # NoOne
    BY <1>3, NodeFields DEF Update, Exists, IInv
  <2>3. G[t].parent = F[t].parent /\ G[t] # NoOne
    <3>1. G[t].parent = F[t].parent
      BY <2>1, <2>2 DEF Nodes
    <3>2. G[t] \in Nodes
      BY <2>1, <2>2, <1>3 DEF Nodes
    <3> QED
      BY <1>a, <3>1, <3>2
  <2>4. /\ There \subseteq There
        /\ \A x \in There : G[x] # NoOne /\ G[x].parent = F[x].parent /\ F[x].parent \in There \cup {NoOne}
        /\ \A x \in Ids : G[x] # NoOne => x \in There
    BY <1>b, <2>1, <2>2, <2>3
  <2> QED
    BY <1>2, <2>4
<1>4. ASSUME NEW t \in Ids, Delete(t)
      PROVE  Walkable'
  <2>1. G[t] = NoOne /\ \A x \in Ids : x # t => G[x] = F[x]
    BY <1>4 DEF Delete, IInv, TypeOK
  <2>2. \A x \in There : x # t => F[x].parent # t
    BY <1>4, <1>a DEF Delete, Children, Exists
  <2> DEFINE S == There \ {t}
  <2>3. /\ S \subseteq There
        /\ \A x \in S : G[x] # NoOne /\ G[x].parent = F[x].parent /\ F[x].parent \in S \cup {NoOne}
        /\ \A x \in Ids : G[x] # NoOne => x \in S
    BY <1>b, <2>1, <2>2
  <2> HIDE DEF S
  <2> QED
    BY <1>2, <2>3
<1>5. CASE UNCHANGED <<tenants, clock>>
  BY <1>5 DEF Walkable
<1> QED
  BY <1>1, <1>3, <1>4, <1>5 DEF Next, GetEffectivePolicy, ReadTenant, ReadAncestors, vars

(* A call carries a tenant, and what was read of it.                       *)
LEMMA CallTypesKept == WInv /\ [Next]_vars => CallTypes'
<1> SUFFICES ASSUME WInv, [Next]_vars PROVE CallTypes'
  OBVIOUS
<1>1. ASSUME NEW t \in Ids, GetEffectivePolicy(t) PROVE CallTypes'
  BY <1>1 DEF GetEffectivePolicy, CallTypes
<1>2. CASE ReadTenant
  <2>1. call.at = "found" /\ call.tenant \in Ids
    BY <1>2 DEF ReadTenant, WInv, CallTypes, NoCall
  <2>2. Exists(call.tenant) => tenants[call.tenant] \in Nodes
    BY <2>1, NodeFields DEF Exists, WInv, IInv
  <2> QED
    BY <1>2, <2>1, <2>2 DEF ReadTenant, CallTypes
<1>3. CASE ReadAncestors
  BY <1>3 DEF ReadAncestors, CallTypes
<1>4. CASE UNCHANGED call
  BY <1>4 DEF CallTypes, WInv
<1> QED
  BY <1>1, <1>2, <1>3, <1>4 DEF Next, Register, Update, Delete, vars

(* The forest, its walks and the calls in every reachable state.           *)
LEMMA WalkInvariance == Spec => []WInv
<1>1. Init => WInv
  BY TenantsAssumption DEF Init, WInv, IInv, TypeOK, ParentIsOlder, Exists, Walkable, CallTypes
<1>2. WInv /\ [Next]_vars => WInv'
  BY TypesKept, OlderKept, WalkableKept, CallTypesKept DEF WInv, IInv
<1> QED
  BY <1>1, <1>2, PTL DEF Spec

----------------------------------------------------------------------------
(* Lineages.                                                                *)

(* Walk(t, k): k tenants are above t, and the walk meets each of them.      *)
Walk(t, k) ==
  /\ k \in 0..MaxDepth
  /\ \A i \in 0..k : UpIn(tenants, t, i) \in Ids /\ tenants[UpIn(tenants, t, i)] # NoOne
  /\ \A i \in Nat : i > k => UpIn(tenants, t, i) = NoOne

(* Every tenant that is there has such a walk. *)
LEMMA WalkLength ==
  ASSUME WInv, NEW t \in Ids, tenants[t] # NoOne
  PROVE  \E k \in Nat : Walk(t, k)
<1> DEFINE u(i) == UpIn(tenants, t, i)
           T == {i \in Nat : u(i) = NoOne}
           S == {x \in Ids : tenants[x] # NoOne} \cup {NoOne}
<1>1. MaxDepth \in Nat /\ NoOne \notin Ids
  BY TenantsAssumption
<1>2. u(0) = t /\ \A i \in Nat : u(i + 1) = Above(tenants, u(i))
  BY UpSteps
<1>3. u(MaxDepth + 1) = NoOne
  BY DEF WInv, Walkable
<1>4. ASSUME NEW i \in Nat PROVE u(i) \in S
  <2>1. SameAbove(tenants, tenants, S) /\ t \in S
    BY AboveIsParent DEF SameAbove, WInv
  <2> HIDE DEF S
  <2> QED
    BY <2>1, UpSame
<1>5. PICK m \in T : \A n \in T : m <= n
  <2>1. T \in SUBSET Nat /\ T # {}
    BY <1>1, <1>3
  <2> HIDE DEF T
  <2> QED
    BY <2>1, LeastNatural
<1>6. m \in Nat /\ u(m) = NoOne /\ m # 0 /\ m <= MaxDepth + 1
  BY <1>1, <1>2, <1>3, <1>5
<1>7. \A i \in Nat : i >= m => u(i) = NoOne
  <2> DEFINE V == {i \in Nat : i >= m => u(i) = NoOne}
  <2>1. 0 \in V
    BY <1>6
  <2>2. ASSUME NEW i \in V PROVE i + 1 \in V
    <3>1. i \in Nat /\ u(i + 1) = Above(tenants, u(i))
      BY <1>2
    <3>2. CASE i >= m
      <4>1. u(i) = NoOne
        BY <3>2
      <4> HIDE DEF u
      <4> QED
        BY <3>1, <4>1 DEF Above, ExistsIn
    <3>3. CASE ~(i >= m)
      <4>1. i + 1 >= m => i + 1 = m
        BY <1>6, <3>1, <3>3
      <4> QED
        BY <1>6, <3>1, <4>1
    <3> QED
      BY <3>2, <3>3
  <2>3. V = Nat
    <3>1. V \in SUBSET Nat
      OBVIOUS
    <3> HIDE DEF V
    <3> QED
      BY <2>1, <2>2, <3>1, SetInduction
  <2> QED
    BY <2>3
<1>8. PICK k \in Nat : k + 1 = m
  <2>1. m - 1 \in Nat /\ (m - 1) + 1 = m
    BY <1>6
  <2> QED
    BY <2>1
<1>9. \A i \in 0..k : u(i) \in Ids /\ tenants[u(i)] # NoOne
  <2>1. \A i \in 0..k : i \in Nat /\ i \notin T
    BY <1>5, <1>6, <1>8
  <2> HIDE DEF u
  <2> QED
    BY <1>4, <2>1
<1>10. k \in 0..MaxDepth /\ \A i \in Nat : i > k => u(i) = NoOne
  BY <1>1, <1>6, <1>7, <1>8
<1> QED
  BY <1>9, <1>10 DEF Walk

(* The lineage of a tenant is the tenants its walk meets, and each has in  *)
(* its own lineage those met after it.                                     *)
LEMMA LineageIsWalk ==
  ASSUME WInv, NEW t \in Ids, tenants[t] # NoOne, NEW k \in Nat, Walk(t, k)
  PROVE  /\ \A a : a \in Lineage(t) => \E i \in 0..k : a = UpIn(tenants, t, i)
         /\ \A i \in 0..k : \A j \in i..k : UpIn(tenants, t, j) \in Lineage(UpIn(tenants, t, i))
<1> DEFINE u(i) == UpIn(tenants, t, i)
<1>1. /\ u(0) = t /\ \A i \in Nat : u(i + 1) = Above(tenants, u(i))
      /\ \A i \in 0..k : u(i) \in Ids /\ tenants[u(i)] # NoOne
      /\ u(k + 1) = NoOne
      /\ NoOne \notin Ids
  BY UpSteps, TenantsAssumption DEF Walk
<1>2. \A i \in Nat : i <= k => u(i + 1) = tenants[u(i)].parent
  <2>1. ASSUME NEW i \in Nat, i <= k PROVE u(i + 1) = tenants[u(i)].parent
    <3>1. i \in 0..k
      BY <2>1
    <3>2. u(i) \in Ids /\ tenants[u(i)] # NoOne /\ u(i + 1) = Above(tenants, u(i))
      BY <1>1, <2>1, <3>1
    <3> HIDE DEF u
    <3> QED
      BY <3>2, AboveIsParent DEF WInv
  <2> QED
    BY <2>1
<1> HIDE DEF u
<1>3. ASSUME NEW a, a \in Lineage(t) PROVE \E i \in 0..k : a = u(i)
  <2> DEFINE W == {u(i) : i \in 0..k}
  <2>1. W \in SUBSET Ids /\ t \in W
    BY <1>1
  <2>2. \A s \in W : Exists(s)
    BY <1>1 DEF Exists
  <2>3. Closed(W)
    <3>1. ASSUME NEW i \in 0..k, Exists(tenants[u(i)].parent)
          PROVE  tenants[u(i)].parent \in W
      <4>1. i \in Nat /\ i <= k /\ u(i + 1) = tenants[u(i)].parent
        BY <1>2
      <4>2. u(i + 1) # NoOne
        BY <3>1, <4>1 DEF Exists
      <4>3. i # k
        BY <1>1, <4>2
      <4>4. i + 1 \in 0..k
        BY <4>1, <4>3
      <4> QED
        BY <4>1, <4>4
    <3> QED
      BY <3>1 DEF Closed
  <2>4. a \in W
    <3> HIDE DEF W
    <3> QED
      BY <1>3, <2>1, <2>2, <2>3 DEF Lineage
  <2> QED
    BY <2>4
<1>4. ASSUME NEW i \in 0..k, NEW j \in i..k PROVE u(j) \in Lineage(u(i))
  <2>1. ASSUME NEW S \in SUBSET Ids, u(i) \in S, \A s \in S : Exists(s), Closed(S)
        PROVE  u(j) \in S
    <3> DEFINE V == {n \in Nat : i <= n /\ n <= k => u(n) \in S}
    <3>1. 0 \in V
      BY <2>1
    <3>2. ASSUME NEW n \in V PROVE n + 1 \in V
      <4>1. n \in Nat /\ i \in Nat
        OBVIOUS
      <4>2. CASE i = n + 1
        BY <2>1, <4>1, <4>2
      <4>3. CASE i <= n /\ n + 1 <= k
        <5>1. n <= k /\ n + 1 \in 0..k /\ u(n) \in S
          BY <4>1, <4>3
        <5>2. Exists(u(n + 1)) /\ u(n + 1) = tenants[u(n)].parent
          BY <1>1, <1>2, <4>1, <5>1 DEF Exists
        <5>3. u(n + 1) \in S
          BY <2>1, <5>1, <5>2 DEF Closed
        <5> QED
          BY <4>1, <5>3
      <4> QED
        BY <4>1, <4>2, <4>3
    <3>3. V = Nat
      <4>1. V \in SUBSET Nat
        OBVIOUS
      <4> HIDE DEF V
      <4> QED
        BY <3>1, <3>2, <4>1, SetInduction
    <3>4. j \in Nat /\ i <= j /\ j <= k
      OBVIOUS
    <3>5. j \in V
      BY <3>3, <3>4
    <3> QED
      BY <3>4, <3>5
  <2>2. j \in 0..k
    OBVIOUS
  <2>3. u(j) \in Ids
    BY <1>1, <2>2
  <2> QED
    BY <2>1, <2>3 DEF Lineage
<1> QED
  BY <1>3, <1>4 DEF u

(* Ancestors are older than the tenant itself. *)
LEMMA LineageIsOlder ==
  ASSUME WInv, NEW a \in Ids, tenants[a] # NoOne, NEW b \in Lineage(a)
  PROVE  b = a \/ tenants[b].created < tenants[a].created
<1> DEFINE S == {x \in Ids : tenants[x] # NoOne
                              /\ (x = a \/ tenants[x].created < tenants[a].created)}
<1>1. S \in SUBSET Ids /\ a \in S /\ NoOne \notin Ids
  BY TenantsAssumption
<1>2. \A s \in S : Exists(s)
  BY <1>1 DEF Exists
<1>3. Closed(S)
  <2>1. ASSUME NEW s \in S, Exists(tenants[s].parent) PROVE tenants[s].parent \in S
    <3>1. s \in Ids /\ tenants[s] # NoOne
      OBVIOUS
    <3>2. tenants[s].parent # NoOne /\ tenants[tenants[s].parent] # NoOne
      BY <2>1 DEF Exists
    <3>3. tenants[s].parent \in Ids /\ tenants[tenants[s].parent].created < tenants[s].created
      BY <3>1, <3>2, AboveIsParent DEF WInv
    <3>4. /\ tenants[tenants[s].parent].created \in Nat
          /\ tenants[s].created \in Nat /\ tenants[a].created \in Nat
      BY <3>1, <3>2, <3>3, NodeFields DEF WInv, IInv
    <3> QED
      BY <3>2, <3>3, <3>4
  <2> QED
    BY <2>1 DEF Closed
<1>4. b \in S
  <2> HIDE DEF S
  <2> QED
    BY <1>1, <1>2, <1>3 DEF Lineage
<1> QED
  BY <1>4

----------------------------------------------------------------------------
(* Answers.                                                                 *)

AnswerAt(t, depth) ==
  IF depth > MaxDepth THEN [status |-> "cycle"]
  ELSE Resolved([i \in 1..depth + 1 |->
                  IF i = depth + 1 THEN call.node.overrides
                  ELSE tenants[Up(t, depth + 1 - i)].overrides])
Climbed(t) == {i \in 1..MaxDepth + 1 : UpIn(tenants, t, i) # NoOne}

(* A resolution counts the ancestors the walk meets. *)
LEMMA AnswerCounts == Answer = AnswerAt(call.tenant, Cardinality(Climbed(call.tenant)))
<1>1. Climbed(call.tenant) = {i \in 1..MaxDepth + 1 : Up(call.tenant, i) # NoOne}
  <2>1. \A i : Up(call.tenant, i) = UpIn(tenants, call.tenant, i)
    BY Zenon, UpIsWalk
  <2> QED
    BY Zenon, <2>1 DEF Climbed
<1> QED
  BY Zenon, <1>1 DEF Answer, AnswerAt

(* A resolution that was found to be of k ancestors. *)
LEMMA ClimbedIs ==
  ASSUME NEW t, NEW k \in 0..MaxDepth,
         \A i \in 1..MaxDepth + 1 : UpIn(tenants, t, i) # NoOne <=> i <= k
  PROVE  Cardinality(Climbed(t)) = k
<1>1. MaxDepth \in Nat
  BY TenantsAssumption
<1>2. Climbed(t) = 1..k
  BY <1>1 DEF Climbed
<1>3. Cardinality(1..k) = k
  BY FS_Interval
<1> QED
  BY <1>2, <1>3

(* The ancestors of a tenant that is there are those its walk meets.       *)
LEMMA ClimbedWalk ==
  ASSUME NEW t, NEW k \in Nat, Walk(t, k)
  PROVE  k \in 0..MaxDepth /\ Cardinality(Climbed(t)) = k
<1>1. k \in 0..MaxDepth /\ MaxDepth \in Nat /\ NoOne \notin Ids
  BY TenantsAssumption DEF Walk
<1>2. \A i \in 1..MaxDepth + 1 : UpIn(tenants, t, i) # NoOne <=> i <= k
  <2>1. \A i \in 1..MaxDepth + 1 : i \in Nat /\ (i <= k => i \in 0..k) /\ (~(i <= k) => i > k)
    BY <1>1
  <2> QED
    BY <1>1, <2>1 DEF Walk
<1> QED
  BY <1>1, <1>2, ClimbedIs

(* Whatever was read, its ancestors are not too many: those of a tenant    *)
(* that is gone by now are none.                                           *)
LEMMA NoAnswerIsCycle ==
  ASSUME WInv, call.at = "read"
  PROVE  Answer.status # "cycle"
<1>1. call.tenant \in Ids
  BY DEF WInv, CallTypes, NoCall
<1>2. MaxDepth \in Nat
  BY TenantsAssumption
<1>3. PICK k \in 0..MaxDepth : Cardinality(Climbed(call.tenant)) = k
  <2>1. CASE tenants[call.tenant] # NoOne
    <3>1. PICK k \in Nat : Walk(call.tenant, k)
      BY <1>1, <2>1, WalkLength
    <3> QED
      BY <3>1, ClimbedWalk
  <2>2. CASE tenants[call.tenant] = NoOne
    <3>1. \A i \in 1..MaxDepth + 1 : UpIn(tenants, call.tenant, i) = NoOne
      <4>1. ASSUME NEW i \in 1..MaxDepth + 1 PROVE UpIn(tenants, call.tenant, i) = NoOne
        <5>1. PICK n \in Nat : n + 1 = i
          <6>1. i - 1 \in Nat /\ (i - 1) + 1 = i
            BY <1>2
          <6> QED
            BY <6>1
        <5>2. UpIn(tenants, call.tenant, n + 1) = UpIn(tenants, Above(tenants, call.tenant), n)
          BY UpFromAbove
        <5>3. Above(tenants, call.tenant) = NoOne
          BY <2>2 DEF Above, ExistsIn
        <5>4. UpIn(tenants, NoOne, n) = NoOne
          BY UpOfNoOne
        <5> QED
          BY Zenon, <5>1, <5>2, <5>3, <5>4
      <4> QED
        BY <4>1
    <3>2. 0 \in 0..MaxDepth
           /\ \A i \in 1..MaxDepth + 1 : UpIn(tenants, call.tenant, i) # NoOne <=> i <= 0
      BY <1>2, <3>1
    <3>3. Cardinality(Climbed(call.tenant)) = 0
      BY <3>2, ClimbedIs
    <3> QED
      BY <3>2, <3>3
  <2> QED
    BY <2>1, <2>2
<1>4. Answer = AnswerAt(call.tenant, k)
  BY Zenon, <1>3, AnswerCounts
<1>5. ~(k > MaxDepth)
  BY <1>2
<1>6. \A c : Resolved(c).status \in {"ok", "invalid"}
  BY Zenon DEF Resolved
<1> QED
  BY <1>4, <1>5, <1>6 DEF AnswerAt

(* The forest keeps the shape that walks and resolutions rely on, whatever *)
(* is registered, changed, deleted and registered again: parents are there *)
(* and older, no lineage is longer than MaxDepth and the tenant itself,    *)
(* and no resolution reports a cycle.                                      *)
THEOREM TenantsForestHolds == Spec => []ForestHolds
<1>1. ASSUME WInv, NEW t \in Ids, tenants[t] # NoOne
      PROVE  Cardinality(Lineage(t)) <= MaxDepth + 1
  <2>1. PICK k \in Nat : Walk(t, k)
    BY <1>1, WalkLength
  <2>2. k \in 0..MaxDepth /\ MaxDepth \in Nat /\ k + 1 \in Nat
    BY <2>1, TenantsAssumption DEF Walk
  <2> DEFINE u == [i \in 0..k |-> UpIn(tenants, t, i)]
             R == {u[i] : i \in 0..k}
  <2>3. Lineage(t) \in SUBSET R
    <3>1. \A a : a \in Lineage(t) => \E i \in 0..k : a = UpIn(tenants, t, i)
      BY <1>1, <2>1, LineageIsWalk
    <3>2. \A i \in 0..k : u[i] = UpIn(tenants, t, i)
      OBVIOUS
    <3> HIDE DEF u
    <3> QED
      BY <3>1, <3>2
  <2>4. IsFiniteSet(R) /\ Cardinality(R) <= Cardinality(0..k)
    <3>1. u \in Surjection(0..k, R)
      BY DEF Surjection
    <3>2. IsFiniteSet(0..k)
      BY FS_Interval
    <3> HIDE DEF u, R
    <3> QED
      BY <3>1, <3>2, FS_Surjection
  <2>5. Cardinality(0..k) = k + 1
    <3>1. 0 \in Int /\ k \in Int /\ ~(0 > k) /\ (k - 0) + 1 = k + 1
      OBVIOUS
    <3> QED
      BY <3>1, FS_Interval
  <2> HIDE DEF u, R
  <2>6. PICK r \in Nat, l \in Nat, c \in Nat :
          r = Cardinality(R) /\ l = Cardinality(Lineage(t)) /\ c = k + 1 /\ c = Cardinality(0..k)
    <3>1. IsFiniteSet(Lineage(t))
      BY <2>3, <2>4, FS_Subset
    <3>2. Cardinality(R) \in Nat /\ Cardinality(Lineage(t)) \in Nat
      BY <2>4, <3>1, FS_CardinalityType
    <3> QED
      BY <2>2, <2>5, <3>2
  <2>7. Cardinality(Lineage(t)) <= Cardinality(R)
    BY <2>3, <2>4, FS_Subset
  <2>8. l <= r /\ r <= c
    BY Zenon, <2>4, <2>6, <2>7
  <2>9. l <= MaxDepth + 1
    BY <2>2, <2>6, <2>8
  <2> QED
    BY Zenon, <2>6, <2>9
<1>2. WInv => ForestHolds
  BY <1>1, NoAnswerIsCycle DEF ForestHolds, WInv, IInv, Exists
<1> QED
  BY <1>2, WalkInvariance, PTL

----------------------------------------------------------------------------
(* Overrides along a chain.                                                 *)

IsFold(c, n, g) == g = [i \in 0..n |-> IF i = 0 THEN Base ELSE Applied(g[i - 1], c[i])]
FoldIn(c, n) ==
  LET upto[i \in 0..n] == IF i = 0 THEN Base ELSE Applied(upto[i - 1], c[i]) IN upto[n]
ResolvedOf(c, n) ==
  IF \A i \in 1..n : Applicable(c[i])
  THEN [status |-> "ok", policy |-> FoldIn(c, n)] ELSE [status |-> "invalid"]

(* The overrides are applied one after the other. *)
LEMMA FoldSteps ==
  ASSUME NEW c, NEW n \in Nat, NEW g, IsFold(c, n, g)
  PROVE  g[0] = Base /\ \A i \in 1..n : g[i] = Applied(g[i - 1], c[i])
<1> DEFINE e(i) == IF i = 0 THEN Base ELSE Applied(g[i - 1], c[i])
<1>1. g = [i \in 0..n |-> e(i)]
  BY DEF IsFold
<1>2. \A i \in 0..n : g[i] = e(i)
  <2> HIDE DEF e
  <2> QED
    BY <1>1
<1>3. g[0] = e(0) /\ \A i \in 1..n : g[i] = e(i) /\ i # 0
  BY <1>2
<1> QED
  BY <1>3

(* They can be, whatever their number, and FoldIn is what comes out.       *)
LEMMA FoldExists ==
  ASSUME NEW c, NEW n \in Nat
  PROVE  \E g : IsFold(c, n, g) /\ FoldIn(c, n) = g[n]
<1> DEFINE S == {m \in Nat : \E g : IsFold(c, m, g)}
<1>1. 0 \in S
  <2> DEFINE z == [i \in 0..0 |-> Base]
  <2>1. IsFold(c, 0, z)
    BY DEF IsFold
  <2> QED
    BY <2>1
<1>2. ASSUME NEW m \in S PROVE m + 1 \in S
  <2>1. PICK g : IsFold(c, m, g)
    OBVIOUS
  <2>2. g[0] = Base /\ \A i \in 1..m : g[i] = Applied(g[i - 1], c[i])
    BY <2>1, FoldSteps
  <2> DEFINE h == [i \in 0..(m + 1) |-> IF i = m + 1 THEN Applied(g[m], c[m + 1]) ELSE g[i]]
             e(i) == IF i = 0 THEN Base ELSE Applied(h[i - 1], c[i])
  <2>3. ASSUME NEW i \in 0..(m + 1) PROVE h[i] = e(i)
    <3>1. CASE i = 0
      BY <2>2, <3>1
    <3>2. CASE i = m + 1
      <4>1. i - 1 = m /\ h[m] = g[m] /\ i # 0
        BY <3>2
      <4> QED
        BY <3>2, <4>1
    <3>3. CASE i # 0 /\ i # m + 1
      <4>1. i \in 1..m /\ i - 1 \in 0..(m + 1) /\ i - 1 # m + 1
        BY <3>3
      <4>2. h[i] = g[i] /\ h[i - 1] = g[i - 1]
        BY <3>3, <4>1
      <4> QED
        BY <2>2, <3>3, <4>1, <4>2
    <3> QED
      BY <3>1, <3>2, <3>3
  <2>4. h = [i \in 0..(m + 1) |-> e(i)]
    <3>1. h = [i \in 0..(m + 1) |-> h[i]]
      OBVIOUS
    <3> HIDE DEF h, e
    <3> QED
      BY <2>3, <3>1
  <2>5. IsFold(c, m + 1, h)
    BY <2>4 DEF IsFold
  <2> QED
    BY <2>5
<1>3. S = Nat
  <2> HIDE DEF S
  <2>1. S \in SUBSET Nat
    BY DEF S
  <2> QED
    BY <1>1, <1>2, <2>1, SetInduction
<1>4. \E g : IsFold(c, n, g)
  <2> HIDE DEF S
  <2>1. n \in S
    BY <1>3
  <2> QED
    BY <2>1 DEF S
<1> DEFINE w == CHOOSE g : IsFold(c, n, g)
<1>5. IsFold(c, n, w)
  BY <1>4
<1>6. FoldIn(c, n) = w[n]
  BY Zenon DEF FoldIn, IsFold
<1> QED
  BY <1>5, <1>6

(* Of a field, the last to override it is heard; of one that nobody        *)
(* overrides, the base.                                                    *)
LEMMA LastOverrideCounts ==
  ASSUME NEW c, NEW n \in Nat, NEW m \in 0..n, NEW f \in Fields,
         m # 0 => f \in DOMAIN c[m],
         \A j \in (m + 1)..n : f \notin DOMAIN c[j]
  PROVE  FoldIn(c, n)[f] = IF m = 0 THEN Base[f] ELSE c[m][f]
<1> DEFINE val == IF m = 0 THEN Base[f] ELSE c[m][f]
<1>1. PICK g : IsFold(c, n, g) /\ FoldIn(c, n) = g[n]
  BY FoldExists
<1>2. g[0] = Base /\ \A i \in 1..n : g[i] = Applied(g[i - 1], c[i])
  BY <1>1, FoldSteps
<1>3. \A i \in 1..n : g[i][f] = IF f \in DOMAIN c[i] THEN c[i][f] ELSE g[i - 1][f]
  <2>1. \A p, o : Applied(p, o)[f] = IF f \in DOMAIN o THEN o[f] ELSE p[f]
    BY DEF Applied
  <2> QED
    BY <1>2, <2>1
<1>4. g[m][f] = val
  <2>1. CASE m = 0
    BY <1>2, <2>1
  <2>2. CASE m # 0
    <3>1. m \in 1..n
      BY <2>2
    <3> QED
      BY <1>3, <2>2, <3>1
  <2> QED
    BY <2>1, <2>2
<1> HIDE DEF val
<1> DEFINE V == {i \in Nat : m <= i /\ i <= n => g[i][f] = val}
<1>5. 0 \in V
  BY <1>4
<1>6. ASSUME NEW i \in V PROVE i + 1 \in V
  <2>1. i \in Nat /\ m \in Nat
    OBVIOUS
  <2>2. CASE m = i + 1
    BY <1>4, <2>1, <2>2
  <2>3. CASE m <= i /\ i + 1 <= n
    <3>1. /\ i + 1 \in 1..n /\ i + 1 \in (m + 1)..n /\ (i + 1) - 1 = i
          /\ g[i][f] = val
      BY <2>1, <2>3
    <3>2. g[i + 1][f] = val
      BY <1>3, <3>1
    <3> QED
      BY <2>1, <3>2
  <2> QED
    BY <2>1, <2>2, <2>3
<1>7. n \in V
  <2>1. V \in SUBSET Nat
    OBVIOUS
  <2> HIDE DEF V
  <2> QED
    BY <1>5, <1>6, <2>1, SetInduction
<1> QED
  BY <1>1, <1>7 DEF val

(* Resolved is told how long its chain is. *)
LEMMA ResolvedIs ==
  ASSUME NEW n \in Nat, NEW c, DOMAIN c = 1..n
  PROVE  Resolved(c) = ResolvedOf(c, n)
<1>1. Resolved(c) = ResolvedOf(c, Cardinality(DOMAIN c))
  BY Zenon DEF Resolved, ResolvedOf, FoldIn
<1>2. Cardinality(DOMAIN c) = n
  <2>1. Cardinality(1..n) = n
    BY FS_Interval
  <2> QED
    BY Zenon, <2>1
<1> QED
  BY Zenon, <1>1, <1>2

(* The tenant as it was read, if it has not changed since, and what its    *)
(* ancestors have now: each field has the value of the nearest that has    *)
(* one, and any value that is not valid spoils the answer.                 *)
LEMMA AnswerIsInherited == WInv => EffectiveIsInherited
<1> SUFFICES ASSUME WInv, call.at = "read", tenants[call.tenant] = call.node
             PROVE  IF \E a \in Lineage(call.tenant) : ~Applicable(tenants[a].overrides)
                    THEN Answer.status = "invalid"
                    ELSE /\ Answer.status = "ok"
                         /\ \A f \in Fields : Answer.policy[f] = Effective(call.tenant, f)
  BY DEF EffectiveIsInherited
<1>1. PICK t \in Ids : t = call.tenant /\ tenants[t] # NoOne
  <2>1. call.tenant \in Ids /\ call.node \in Nodes /\ NoOne \notin Nodes
    BY TenantsAssumption DEF WInv, CallTypes, NoCall
  <2> QED
    BY <2>1
<1>2. PICK k \in Nat : Walk(t, k)
  BY <1>1, WalkLength
<1> DEFINE u(j) == UpIn(tenants, t, j)
           o(j) == tenants[u(j)].overrides
           c == [i \in 1..k + 1 |-> IF i = k + 1 THEN call.node.overrides
                                    ELSE tenants[Up(t, k + 1 - i)].overrides]
<1>3. /\ \A a : a \in Lineage(t) => \E j \in 0..k : a = u(j)
      /\ \A i \in 0..k : \A j \in i..k : u(j) \in Lineage(u(i))
      /\ \A j \in 0..k : u(j) \in Ids /\ tenants[u(j)] # NoOne
      /\ u(0) = t
  BY <1>1, <1>2, LineageIsWalk, UpSteps DEF Walk
<1>4. Answer = Resolved(c)
  <2>1. k \in 0..MaxDepth /\ Cardinality(Climbed(t)) = k
    BY <1>2, ClimbedWalk
  <2>2. ~(k > MaxDepth)
    BY <2>1, TenantsAssumption
  <2>3. Answer = AnswerAt(t, k)
    BY Zenon, <1>1, <2>1, AnswerCounts
  <2> QED
    BY Zenon, <2>2, <2>3 DEF AnswerAt
<1>5. DOMAIN c = 1..k + 1 /\ \A i \in 1..k + 1 : c[i] = o(k + 1 - i)
  <2>1. ASSUME NEW i \in 1..k + 1 PROVE c[i] = o(k + 1 - i)
    <3>1. CASE i = k + 1
      <4>1. k + 1 - i = 0
        BY <3>1
      <4>2. c[i] = tenants[t].overrides
        BY <1>1, <3>1
      <4> HIDE DEF c, u
      <4> QED
        BY <1>3, <4>1, <4>2
    <3>2. CASE i # k + 1
      <4>1. Up(t, k + 1 - i) = u(k + 1 - i)
        BY Zenon, UpIsWalk
      <4>2. c[i] = tenants[Up(t, k + 1 - i)].overrides
        BY <3>2
      <4> HIDE DEF c, u
      <4> QED
        BY <4>1, <4>2
    <3> QED
      BY <3>1, <3>2
  <2> HIDE DEF o
  <2> QED
    BY <2>1
<1> HIDE DEF c, u
<1>6. Answer = ResolvedOf(c, k + 1)
  <2>1. k + 1 \in Nat
    OBVIOUS
  <2> QED
    BY Zenon, <1>4, <1>5, <2>1, ResolvedIs
<1>a. /\ \A i \in 1..k + 1 : k + 1 - i \in 0..k
      /\ \A j \in 0..k : k + 1 - j \in 1..k + 1 /\ k + 1 - (k + 1 - j) = j
  OBVIOUS
<1>b. \A j \in 0..k : c[k + 1 - j] = o(j)
  <2> HIDE DEF o
  <2> QED
    BY <1>5, <1>a
<1>c. \A j \in 0..k : u(j) \in Lineage(t)
  <2>1. 0 \in 0..k /\ \A j \in 0..k : j \in 0..k
    OBVIOUS
  <2> QED
    BY <1>3, <2>1
<1>7. (\E a \in Lineage(t) : ~Applicable(tenants[a].overrides))
        <=> ~(\A i \in 1..k + 1 : Applicable(c[i]))
  <2>1. ASSUME NEW a \in Lineage(t), ~Applicable(tenants[a].overrides)
        PROVE  \E i \in 1..k + 1 : ~Applicable(c[i])
    <3>1. PICK j \in 0..k : a = u(j)
      BY <1>3
    <3>2. c[k + 1 - j] = tenants[a].overrides /\ k + 1 - j \in 1..k + 1
      BY <1>a, <1>b, <3>1
    <3> QED
      BY <2>1, <3>2
  <2>2. ASSUME NEW i \in 1..k + 1, ~Applicable(c[i])
        PROVE  \E a \in Lineage(t) : ~Applicable(tenants[a].overrides)
    <3>1. c[i] = tenants[u(k + 1 - i)].overrides
      BY <1>5
    <3>2. u(k + 1 - i) \in Lineage(t)
      BY <1>a, <1>c
    <3> QED
      BY <2>2, <3>1, <3>2
  <2> QED
    BY <2>1, <2>2
<1>8. ASSUME NEW f \in Fields
      PROVE  FoldIn(c, k + 1)[f] = Effective(t, f)
  <2> DEFINE giving == {a \in Lineage(t) : f \in DOMAIN tenants[a].overrides}
             Nearest(a) == a \in giving /\ giving \subseteq Lineage(a)
             J == {j \in 0..k : f \in DOMAIN o(j)}
  <2>0. k + 1 \in Nat /\ 0 \in 0..k + 1 /\ (0 + 1)..k + 1 = 1..k + 1
    OBVIOUS
  <2>1. CASE J = {}
    <3>1. giving = {}
      BY <1>3, <2>1
    <3>2. \A j \in (0 + 1)..k + 1 : f \notin DOMAIN c[j]
      BY <1>5, <1>a, <2>1
    <3>3. FoldIn(c, k + 1)[f] = Base[f]
      BY <2>0, <3>2, LastOverrideCounts
    <3> QED
      BY <3>1, <3>3 DEF Effective
  <2>2. CASE J # {}
    <3>1. PICK m \in J : \A j \in J : m <= j
      <4>1. J \in SUBSET Nat
        OBVIOUS
      <4> HIDE DEF J
      <4> QED
        BY <2>2, <4>1, LeastNatural
    <3>2. m \in 0..k /\ f \in DOMAIN o(m)
      OBVIOUS
    <3>3. Nearest(u(m))
      <4>1. u(m) \in giving
        BY <1>c, <3>2
      <4>2. ASSUME NEW a \in giving PROVE a \in Lineage(u(m))
        <5>1. PICK j \in 0..k : a = u(j)
          BY <1>3
        <5>2. j \in J
          BY <5>1
        <5>3. j \in m..k
          BY <3>1, <3>2, <5>1, <5>2
        <5> QED
          BY <1>3, <3>2, <5>1, <5>3
      <4> QED
        BY <4>1, <4>2
    <3>4. ASSUME NEW a, NEW b, Nearest(a), Nearest(b) PROVE a = b
      <4>1. a \in Lineage(t) /\ b \in Lineage(t) /\ b \in Lineage(a) /\ a \in Lineage(b)
        BY <3>4
      <4>2. /\ a \in Ids /\ tenants[a] # NoOne /\ tenants[a].created \in Nat
            /\ b \in Ids /\ tenants[b] # NoOne /\ tenants[b].created \in Nat
        <5>1. /\ a \in Ids /\ tenants[a] # NoOne
              /\ b \in Ids /\ tenants[b] # NoOne
          BY <1>3, <4>1
        <5> QED
          BY <5>1, NodeFields DEF WInv, IInv
      <4>3. b = a \/ tenants[b].created < tenants[a].created
        BY <4>1, <4>2, LineageIsOlder
      <4>4. a = b \/ tenants[a].created < tenants[b].created
        BY <4>1, <4>2, LineageIsOlder
      <4> QED
        BY <4>2, <4>3, <4>4
    <3>5. Effective(t, f) = o(m)[f]
      <4>1. giving # {}
        BY <3>3
      <4>2. Effective(t, f) = tenants[CHOOSE a \in giving : giving \subseteq Lineage(a)].overrides[f]
        <5> QED
          BY Zenon, <4>1 DEF Effective
      <4>3. (CHOOSE a \in giving : giving \subseteq Lineage(a)) = u(m)
        <5> HIDE DEF giving
        <5> QED
          BY <3>3, <3>4
      <4> QED
        BY <4>2, <4>3
    <3>6. /\ k + 1 - m \in 0..k + 1 /\ k + 1 - m # 0
          /\ f \in DOMAIN c[k + 1 - m] /\ c[k + 1 - m] = o(m)
      <4>1. k + 1 - m \in 0..k + 1 /\ k + 1 - m # 0
        BY <3>2
      <4> QED
        BY <1>b, <3>2, <4>1
    <3>7. \A j \in (k + 1 - m + 1)..k + 1 : f \notin DOMAIN c[j]
      <4>1. ASSUME NEW j \in (k + 1 - m + 1)..k + 1 PROVE f \notin DOMAIN c[j]
        <5>1. j \in 1..k + 1 /\ k + 1 - j \in 0..k /\ ~(m <= k + 1 - j)
          BY <3>2
        <5>2. k + 1 - j \notin J
          BY <3>1, <5>1
        <5>3. c[j] = o(k + 1 - j)
          BY <1>5, <5>1
        <5> QED
          BY <5>1, <5>2, <5>3
      <4> QED
        BY <4>1
    <3>8. FoldIn(c, k + 1)[f] = c[k + 1 - m][f]
      BY <2>0, <3>6, <3>7, LastOverrideCounts
    <3> QED
      BY Zenon, <3>5, <3>6, <3>8
  <2> QED
    BY <2>1, <2>2
<1> HIDE DEF o
<1>9. CASE \A i \in 1..k + 1 : Applicable(c[i])
  <2>1. Answer = [status |-> "ok", policy |-> FoldIn(c, k + 1)]
    BY Zenon, <1>6, <1>9 DEF ResolvedOf
  <2> QED
    BY <1>1, <1>7, <1>8, <1>9, <2>1
<1>10. CASE ~(\A i \in 1..k + 1 : Applicable(c[i]))
  <2>1. Answer = [status |-> "invalid"]
    BY Zenon, <1>6, <1>10 DEF ResolvedOf
  <2> QED
    BY <1>1, <1>7, <1>10, <2>1
<1> QED
  BY <1>9, <1>10

(* What resolution answers is what the tenants themselves and those above  *)
(* them say of each field, the nearest first, although tenant and          *)
(* ancestors are read at two moments and the forest changes in between.    *)
THEOREM TenantsEffectiveIsInherited == Spec => []EffectiveIsInherited
BY AnswerIsInherited, WalkInvariance, PTL

=============================================================================
