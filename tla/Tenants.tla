------------------------------ MODULE Tenants -------------------------------
(***************************************************************************)
(* TenantRegistry, PolicyResolver and their endpoints: a forest of         *)
(* tenants, each with overrides that its descendants inherit.  Every       *)
(* operation of the registry is one region under its lock; to resolve a    *)
(* policy takes several of them, and the registry changes in between.      *)
(*                                                                         *)
(* A value that overrides a field has a kind, "null", "bool", "int",       *)
(* "real", "inf" (not finite), "text" or "long" (a text of more than 1024  *)
(* characters), and a number n if it is one; n of an on_exceed says        *)
(* whether the text is one of those allowed.                               *)
(***************************************************************************)
EXTENDS Integers, FiniteSets

CONSTANTS
    Ids,
    Overrides,      \* what requests bring: functions from sets of keys to values
    Base,           \* the policy resolution starts from
    KnownKeys,      \* _KNOWN_OVERRIDE_KEYS
    MaxKeys,        \* keys _validate_overrides accepts
    MaxDepth,       \* MAX_DEPTH
    NoOne,          \* no tenant, no parent
    MaxCreated      \* bound: tenants registered

(* What is kept of a tenant. *)
Nodes == [parent : Ids \cup {NoOne}, overrides : Overrides, created : 1..MaxCreated]

ASSUME TenantsAssumption ==
    /\ NoOne \notin Ids \cup Nodes
    /\ MaxDepth \in Nat /\ MaxCreated \in Nat
    /\ \A o \in Overrides : Cardinality(DOMAIN o) \in Nat

VARIABLES
    tenants,        \* _tenants: NoOne, or [parent, overrides, created]
    clock,          \* tenants registered: the time of the latest created_at
    call            \* a resolution under way

vars == <<tenants, clock, call>>

Fields == DOMAIN Base
NoCall == [at |-> "idle"]

Init ==
    /\ tenants = [t \in Ids |-> NoOne] /\ clock = 0
    /\ call = NoCall

Exists(t) == t # NoOne /\ tenants[t] # NoOne

(* The ancestor n generations above t; a parent that is missing ends it.    *)
Up(t, n) ==
    LET at[i \in 0..n] ==
            IF i = 0 THEN t
            ELSE IF Exists(at[i - 1]) /\ Exists(tenants[at[i - 1]].parent)
                 THEN tenants[at[i - 1]].parent ELSE NoOne
    IN  at[n]

----------------------------------------------------------------------------
(* The registry and the endpoints that change it.                           *)

Accepted(o) == Cardinality(DOMAIN o) <= MaxKeys /\ DOMAIN o \subseteq KnownKeys

(* With a walk that counts the tenant it starts from as an ancestor less.   *)
WalkEndsLate(t) == Up(t, MaxDepth + 1) = NoOne

(* _walk_ancestors_unsafe does not find more than MaxDepth tenants.         *)
WalkEnds(t) == Up(t, MaxDepth) = NoOne

Register(t, parent, o) ==
    /\ clock < MaxCreated
    /\ Accepted(o) /\ ~Exists(t)
    /\ parent # NoOne => Exists(parent) /\ WalkEnds(parent)
    /\ clock' = clock + 1
    /\ tenants' = [tenants EXCEPT ![t] =
                        [parent |-> parent, overrides |-> o, created |-> clock']]
    /\ UNCHANGED call

Update(t, o) ==
    /\ Exists(t) /\ Accepted(o)
    /\ tenants' = [tenants EXCEPT ![t].overrides = o]
    /\ UNCHANGED <<clock, call>>

Children(t) == {c \in Ids : Exists(c) /\ tenants[c].parent = t}

(* Without the check for children. *)
DeleteAlways(t) ==
    /\ Exists(t)
    /\ tenants' = [tenants EXCEPT ![t] = NoOne]
    /\ UNCHANGED <<clock, call>>

Delete(t) ==
    /\ Exists(t) /\ Children(t) = {}
    /\ tenants' = [tenants EXCEPT ![t] = NoOne]
    /\ UNCHANGED <<clock, call>>

----------------------------------------------------------------------------
(* PolicyResolver                                                           *)

AtLeastZero(v) == v.kind \in {"int", "real"} /\ v.n >= 0

(* _validate_override_value *)
ValidOverride(f, v) ==
    CASE f = "ceiling_usd" -> AtLeastZero(v)
      [] f = "priority" -> v.kind = "int" /\ v.n \in 0..100
      [] f \in {"ceiling_tokens_out", "ceiling_steps", "rate_ceiling_calls"} ->
            v.kind = "null" \/ (v.kind = "int" /\ v.n >= 0)
      [] f \in {"timeout_ms", "rate_window_seconds", "deadline_ts", "expires_at", "issued_at"} ->
            v.kind = "null" \/ AtLeastZero(v)
      [] f = "on_exceed" -> v.kind = "text" /\ v.n = 1
      [] f \in {"fallback_model", "planner_version"} -> v.kind \in {"null", "text"}
      [] OTHER -> FALSE

(* Keys that are no fields of a policy are passed over. *)
Applicable(o) == \A f \in DOMAIN o \cap Fields : ValidOverride(f, o[f])

AppliedUnder(policy, o) ==
    [f \in Fields |-> IF f \in DOMAIN o /\ policy[f] = Base[f] THEN o[f] ELSE policy[f]]

Applied(policy, o) == [f \in Fields |-> IF f \in DOMAIN o THEN o[f] ELSE policy[f]]

(* The overrides along a list of them, the root's first. *)
Resolved(chain) ==
    LET n == Cardinality(DOMAIN chain)
        upto[i \in 0..n] == IF i = 0 THEN Base ELSE Applied(upto[i - 1], chain[i])
    IN  IF \A i \in 1..n : Applicable(chain[i])
        THEN [status |-> "ok", policy |-> upto[n]] ELSE [status |-> "invalid"]

(* get_effective_policy answers 404 for a tenant it does not find. *)
GetEffectivePolicy(t) ==
    /\ call = NoCall /\ Exists(t)
    /\ call' = [at |-> "found", tenant |-> t]
    /\ UNCHANGED <<tenants, clock>>

(* resolve: the tenant itself; one that is gone by now has the base policy. *)
ReadTenant ==
    /\ call.at = "found"
    /\ call' = IF Exists(call.tenant)
               THEN [at |-> "read", tenant |-> call.tenant, node |-> tenants[call.tenant]]
               ELSE NoCall
    /\ UNCHANGED <<tenants, clock>>

(* The answer, of get_ancestors of whatever has the id by now, the root's   *)
(* first, and of the tenant as it was read.                                 *)
Answer ==
    LET t == call.tenant
        depth == Cardinality({i \in 1..MaxDepth + 1 : Up(t, i) # NoOne})
    IN  IF depth > MaxDepth THEN [status |-> "cycle"]
        ELSE Resolved([i \in 1..depth + 1 |->
                        IF i = depth + 1 THEN call.node.overrides
                        ELSE tenants[Up(t, depth + 1 - i)].overrides])

ReadAncestors == call.at = "read" /\ call' = NoCall /\ UNCHANGED <<tenants, clock>>

Next ==
    \/ \E t \in Ids, p \in Ids \cup {NoOne}, o \in Overrides : Register(t, p, o)
    \/ \E t \in Ids, o \in Overrides : Update(t, o)
    \/ \E t \in Ids : Delete(t)
    \/ \E t \in Ids : GetEffectivePolicy(t)
    \/ ReadTenant
    \/ ReadAncestors

Spec == Init /\ [][Next]_vars

----------------------------------------------------------------------------
TypeOK ==
    /\ tenants \in [Ids -> Nodes \cup {NoOne}]
    /\ clock \in 0..MaxCreated

(***************************************************************************)
(* A parent is there, and older than its children: however tenants are     *)
(* deleted and their ids used again, none is its own ancestor (register,   *)
(* delete).                                                                *)
(***************************************************************************)
ParentIsOlder ==
    \A t \in Ids : Exists(t) =>
        /\ tenants[t].created <= clock
        /\ tenants[t].parent # NoOne =>
            /\ Exists(tenants[t].parent)
            /\ tenants[tenants[t].parent].created < tenants[t].created

(* t is the tenant, or an ancestor of it: the least set that has the tenant *)
(* and the parents of what it has.                                          *)
Closed(S) == \A s \in S : Exists(tenants[s].parent) => tenants[s].parent \in S
Lineage(t) == {a \in Ids : \A S \in SUBSET Ids : t \in S /\ (\A s \in S : Exists(s)) /\ Closed(S) => a \in S}

(* What register lets in, get_ancestors can walk: resolution never meets a  *)
(* tenant that is reported as part of a cycle.                              *)
ForestHolds ==
    /\ ParentIsOlder
    /\ \A t \in Ids : Exists(t) => Cardinality(Lineage(t)) <= MaxDepth + 1
    /\ call.at = "read" => Answer.status # "cycle"

(***************************************************************************)
(* When the tenant itself has not changed between the two reads, what      *)
(* resolution answers is what the forest says at the second of them: each  *)
(* field is that of the tenant nearest to it, of those in its lineage that *)
(* override the field, and one value that is not valid spoils the lot, be  *)
(* it overridden or not.                                                   *)
(***************************************************************************)
Effective(t, f) ==
    LET giving == {a \in Lineage(t) : f \in DOMAIN tenants[a].overrides}
    IN  IF giving = {} THEN Base[f]
        ELSE tenants[CHOOSE a \in giving : giving \subseteq Lineage(a)].overrides[f]

EffectiveIsInherited ==
    call.at = "read" /\ tenants[call.tenant] = call.node =>
        IF \E a \in Lineage(call.tenant) : ~Applicable(tenants[a].overrides)
        THEN Answer.status = "invalid"
        ELSE /\ Answer.status = "ok"
             /\ \A f \in Fields : Answer.policy[f] = Effective(call.tenant, f)
=============================================================================
