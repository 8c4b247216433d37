------------------------ MODULE EventPipelineProofs -------------------------
(***************************************************************************)
(* Events on their way from the emitter to the ingestor, for any threads,  *)
(* names, events, sizes and limits, and any interleaving of emits,         *)
(* callbacks that fail, subscriptions, drains and retried writes.          *)
(***************************************************************************)
EXTENDS EventPipeline, FiniteSetTheorems, WellFoundedInduction, TLAPS

EmitTuples == {<<>>} \cup {<<e>> : e \in EventIds}
Emits == [event : EmitTuples, targets : SUBSET (Names \X Nat),
          resets : SUBSET (Names \X Nat), removals : SUBSET Names]

EmitterTypes ==
  /\ buffered \in 0..MaxLen /\ dropped \in Nat
  /\ IsFiniteSet(emitted) /\ drained \in Nat /\ subscriptions \in Nat
  /\ subscribers \in [Names -> Nat]
  /\ failCounts \in [Names -> Int]
  /\ failed \in [Names -> 0..MaxFailures]
  /\ emitting \in [Threads -> Emits]

(* An event that was emitted was drained, is in the ring or was dropped. *)
RingAccounted == Cardinality(emitted) = drained + buffered + dropped

(* A subscription that outlived no other of its name is the one that emits *)
(* under way call, its count is of its own failures, and so is a removal.  *)
OwnFailures(n) ==
  n \notin overlapped /\ subscribers[n] # 0 =>
    /\ failCounts[n] <= failed[n] \/ failed[n] = MaxFailures
    /\ \A t \in Threads : n \in emitting[t].removals => failed[n] = MaxFailures
    /\ \A t \in Threads : \A c \in emitting[t].targets : c[1] = n => c[2] = subscribers[n]

Counts == \A n \in Names : OwnFailures(n)

EmitterInv == EmitterTypes /\ RingAccounted /\ Counts

(* The sizes are positive, the ingestor is a subscriber and the threads    *)
(* call it.                                                                *)
LEMMA Sizes ==
  /\ MaxLen \in Nat /\ MaxLen > 0 /\ MaxFailures \in Nat /\ MaxFailures > 0
  /\ Ingestor \in Names /\ Callers = Threads
BY EmitterAssumption, PipelineAssumption

(* A thread outside emit() has nothing to call (emit).                     *)
LEMMA NotEmittingType ==
  /\ NotEmitting \in Emits /\ NotEmitting.event = <<>>
  /\ NotEmitting.targets = {} /\ NotEmitting.removals = {}
BY DEF NotEmitting, Emits, EmitTuples

(* What a step of the pipeline is to the emitter. *)
EmitterStep ==
  \/ \E t \in Threads, e \in EventIds : e \notin emitted /\ BeginEmit(t, e)
  \/ \E t \in Threads : \E c \in emitting[t].targets :
        CallbackReturns(t, c) \/ CallbackRaises(t, c) \/ CallbackExits(t, c)
  \/ \E t \in Threads : EndEmit(t)
  \/ \E n \in Names : Subscribe(n)
  \/ \E n \in Names : Unsubscribe(n)
  \/ Drain(MaxLen)
  \/ UNCHANGED evars

(* Whatever the ingestor does with an event, the emitter makes one of its  *)
(* own steps or none (emit, drain).                                        *)
LEMMA StepOfEmitter == [Next]_vars => EmitterStep
<1> SUFFICES ASSUME [Next]_vars PROVE EmitterStep
  OBVIOUS
<1>1. ASSUME NEW t \in Threads, IngestorReturns(t) PROVE EmitterStep
  BY <1>1 DEF IngestorReturns, EmitterStep
<1>2. ASSUME NEW t \in Threads, EmitStep(t) PROVE EmitterStep
  BY <1>1, <1>2 DEF EmitStep, OnEvent, OnEventWrites, OnOtherEvent, ReturnsOnceWritten,
                    OtherCallback, EmitterStep
<1>3. ASSUME NEW t \in Threads, FlusherWrites(t) PROVE EmitterStep
  BY <1>3 DEF FlusherWrites, EmitterStep
<1>4. ASSUME NEW t \in Threads, NEW e \in EventIds, Emit(t, e) PROVE EmitterStep
  BY <1>4 DEF Emit, EmitterStep
<1>5. CASE UNCHANGED vars
  BY <1>5 DEF vars, EmitterStep
<1> QED
  BY <1>2, <1>3, <1>4, <1>5 DEF Next, EmitterStep

(* The emitter of one thread changed to a well typed value. *)
LEMMA EmitsKept ==
  ASSUME EmitterTypes, NEW t \in Threads, NEW r \in Emits,
         emitting' = [emitting EXCEPT ![t] = r]
  PROVE  /\ emitting' \in [Threads -> Emits]
         /\ emitting'[t] = r
         /\ \A u \in Threads : u # t => emitting'[u] = emitting[u]
BY DEF EmitterTypes

(* What an emit calls are the subscribers there are when it begins.        *)
LEMMA BeginEffect ==
  ASSUME EmitterTypes, NEW t \in Threads, NEW e \in EventIds, BeginEmit(t, e)
  PROVE  /\ emitting' \in [Threads -> Emits]
         /\ emitting'[t].event = <<e>> /\ emitting'[t].removals = {}
         /\ emitting'[t].targets = {<<n, subscribers[n]>> : n \in Subscribed}
         /\ \A u \in Threads : u # t => emitting'[u] = emitting[u]
<1> DEFINE all == {<<n, subscribers[n]>> : n \in Subscribed}
           r == [NotEmitting EXCEPT !.event = <<e>>, !.targets = all]
<1>1. all \in SUBSET (Names \X Nat)
  BY DEF EmitterTypes, Subscribed
<1> HIDE DEF all
<1>2. r \in Emits /\ r.removals = {} /\ r.event = <<e>> /\ r.targets = all
  BY <1>1 DEF NotEmitting, Emits, EmitTuples
<1>3. emitting' = [emitting EXCEPT ![t] = r]
  BY DEF BeginEmit, all
<1> HIDE DEF r
<1>4. /\ emitting' \in [Threads -> Emits]
      /\ emitting'[t] = r
      /\ \A u \in Threads : u # t => emitting'[u] = emitting[u]
  BY <1>2, <1>3, EmitsKept
<1> QED
  BY <1>2, <1>4 DEF all

(* The ring takes an event, and drops its oldest one when it is full       *)
(* (emit: the first lock region).                                          *)
LEMMA BeginKeeps ==
  ASSUME EmitterInv, NEW t \in Threads, NEW e \in EventIds, e \notin emitted, BeginEmit(t, e)
  PROVE  EmitterInv'
<1> USE DEF EmitterInv
<1>1. /\ emitting' \in [Threads -> Emits]
      /\ emitting'[t].removals = {}
      /\ emitting'[t].targets = {<<n, subscribers[n]>> : n \in Subscribed}
      /\ \A u \in Threads : u # t => emitting'[u] = emitting[u]
  BY BeginEffect
<1>2. /\ IsFiniteSet(emitted') /\ Cardinality(emitted') = Cardinality(emitted) + 1
      /\ Cardinality(emitted) \in Nat
  BY FS_AddElement, FS_CardinalityType DEF BeginEmit, EmitterTypes
<1>3. EmitterTypes'
  BY <1>1, <1>2, Sizes DEF EmitterTypes, BeginEmit, DroppedNow, Full
<1>4. RingAccounted'
  BY <1>2, Sizes DEF EmitterTypes, RingAccounted, BeginEmit, DroppedNow, Full
<1>5. ASSUME NEW n \in Names PROVE OwnFailures(n)'
  <2>1. OwnFailures(n) /\ UNCHANGED <<overlapped, subscribers, failCounts, failed>>
    BY DEF Counts, BeginEmit
  <2>2. \A c \in emitting'[t].targets : c[1] = n => c[2] = subscribers[n]
    BY <1>1
  <2> QED
    BY <1>1, <2>1, <2>2 DEF OwnFailures
<1> QED
  BY <1>3, <1>4, <1>5 DEF Counts

(* A callback that was called is no longer a target, and a removal that it *)
(* adds is of its name (emit: the loop over the copied list).              *)
LEMMA CalledEffect ==
  ASSUME EmitterTypes, NEW t \in Threads, NEW c,
         CallbackReturns(t, c) \/ CallbackRaises(t, c)
  PROVE  /\ emitting' \in [Threads -> Emits]
         /\ emitting'[t].event = emitting[t].event
         /\ emitting'[t].targets = emitting[t].targets \ {c}
         /\ emitting'[t].removals \subseteq emitting[t].removals \cup {c[1]}
         /\ CallbackReturns(t, c) => emitting'[t].removals = emitting[t].removals
         /\ \A u \in Threads : u # t => emitting'[u] = emitting[u]
         /\ c \in emitting[t].targets /\ c \in Names \X Nat
         /\ UNCHANGED <<buffered, dropped, subscribers, emitted, drained, overlapped, subscriptions>>
<1>1. /\ emitting[t] \in Emits /\ c \in emitting[t].targets /\ c \in Names \X Nat
      /\ UNCHANGED <<buffered, dropped, subscribers, emitted, drained, overlapped, subscriptions>>
  BY DEF EmitterTypes, Emits, CallbackReturns, CallbackRaises
<1>2. PICK r \in Emits :
         /\ emitting' = [emitting EXCEPT ![t] = r]
         /\ r.event = emitting[t].event /\ r.targets = emitting[t].targets \ {c}
         /\ r.removals \subseteq emitting[t].removals \cup {c[1]}
         /\ CallbackReturns(t, c) => r.removals = emitting[t].removals
  <2>1. CASE CallbackReturns(t, c)
    <3> DEFINE r == [emitting[t] EXCEPT !.targets = @ \ {c}, !.resets = @ \cup {c}]
    <3>1. emitting' = [emitting EXCEPT ![t] = r]
      BY <2>1 DEF CallbackReturns
    <3>2. /\ r \in Emits /\ r.event = emitting[t].event
          /\ r.targets = emitting[t].targets \ {c} /\ r.removals = emitting[t].removals
      BY <1>1 DEF Emits
    <3> HIDE DEF r
    <3> QED
      BY <3>1, <3>2
  <2>2. CASE ~CallbackReturns(t, c)
    <3>0. CallbackRaises(t, c)
      BY <2>2
    <3> DEFINE count == IF failCounts[c[1]] = -1 THEN 1 ELSE failCounts[c[1]] + 1
               s == IF count >= MaxFailures THEN emitting[t].removals \cup {c[1]}
                    ELSE emitting[t].removals
               r == [emitting[t] EXCEPT !.targets = @ \ {c}, !.removals = s]
    <3>1. emitting' = [emitting EXCEPT ![t] = r]
      BY <3>0 DEF CallbackRaises
    <3>2. s \in SUBSET Names /\ s \subseteq emitting[t].removals \cup {c[1]}
      BY <1>1 DEF Emits
    <3> HIDE DEF s
    <3>3. /\ r \in Emits /\ r.event = emitting[t].event
          /\ r.targets = emitting[t].targets \ {c} /\ r.removals = s
      BY <1>1, <3>2 DEF Emits
    <3> HIDE DEF r
    <3> QED
      BY <2>2, <3>1, <3>2, <3>3
  <2> QED
    BY <2>1, <2>2
<1>3. /\ emitting' \in [Threads -> Emits] /\ emitting'[t] = r
      /\ \A u \in Threads : u # t => emitting'[u] = emitting[u]
  BY <1>2, EmitsKept
<1> QED
  BY <1>1, <1>2, <1>3

(* A callback that returns changes no count yet. *)
LEMMA ReturnKeeps ==
  ASSUME EmitterInv, NEW t \in Threads, NEW c, CallbackReturns(t, c)
  PROVE  EmitterInv'
<1> USE DEF EmitterInv
<1>1. /\ emitting' \in [Threads -> Emits]
      /\ emitting'[t].targets \subseteq emitting[t].targets
      /\ emitting'[t].removals = emitting[t].removals
      /\ \A u \in Threads : u # t => emitting'[u] = emitting[u]
  BY CalledEffect
<1>2. UNCHANGED <<buffered, dropped, subscribers, failCounts, emitted, drained, failed,
                  overlapped, subscriptions>>
  BY DEF CallbackReturns
<1>3. EmitterTypes' /\ RingAccounted'
  BY <1>1, <1>2 DEF EmitterTypes, RingAccounted
<1>4. ASSUME NEW n \in Names PROVE OwnFailures(n)'
  <2>1. OwnFailures(n)
    BY DEF Counts
  <2> QED
    BY <1>1, <1>2, <2>1 DEF OwnFailures
<1> QED
  BY <1>3, <1>4 DEF Counts

(* A failure is counted under the name; it is that of the subscription     *)
(* there is unless this one outlived another (emit: except Exception).     *)
LEMMA RaiseKeeps ==
  ASSUME EmitterInv, NEW t \in Threads, NEW c, CallbackRaises(t, c)
  PROVE  EmitterInv'
<1> USE DEF EmitterInv
<1> DEFINE n == c[1]
           count == IF failCounts[n] = -1 THEN 1 ELSE failCounts[n] + 1
<1>1. /\ emitting' \in [Threads -> Emits]
      /\ emitting'[t].targets = emitting[t].targets \ {c}
      /\ emitting'[t].removals \subseteq emitting[t].removals \cup {n}
      /\ \A u \in Threads : u # t => emitting'[u] = emitting[u]
      /\ c \in emitting[t].targets /\ n \in Names
      /\ UNCHANGED <<buffered, dropped, subscribers, emitted, drained, overlapped, subscriptions>>
  BY CalledEffect
<1>2. /\ failCounts' = [failCounts EXCEPT ![n] = count]
      /\ failed' = IF c[2] = subscribers[n] /\ failed[n] < MaxFailures
                   THEN [failed EXCEPT ![n] = failed[n] + 1] ELSE failed
      /\ emitting' = [emitting EXCEPT ![t].targets = @ \ {c},
                          ![t].removals = IF count >= MaxFailures THEN @ \cup {n} ELSE @]
  BY DEF CallbackRaises
<1>3. count \in Int
  BY <1>1 DEF EmitterTypes
<1>4. count < MaxFailures => emitting'[t].removals = emitting[t].removals
  <2> SUFFICES ASSUME ~(count >= MaxFailures)
               PROVE  emitting'[t].removals = emitting[t].removals
    BY <1>3, Sizes
  <2>1. emitting' = [emitting EXCEPT ![t].targets = @ \ {c}, ![t].removals = @]
    BY <1>2
  <2> QED
    BY <2>1 DEF EmitterTypes, Emits
<1>5. failed' \in [Names -> 0..MaxFailures]
  BY <1>1, <1>2, Sizes DEF EmitterTypes
<1>6. EmitterTypes' /\ RingAccounted'
  BY <1>1, <1>2, <1>3, <1>5 DEF EmitterTypes, RingAccounted
<1>7. OwnFailures(n)'
  <2> SUFFICES ASSUME n \notin overlapped, subscribers[n] # 0
               PROVE  /\ failCounts'[n] <= failed'[n] \/ failed'[n] = MaxFailures
                      /\ \A u \in Threads : n \in emitting'[u].removals => failed'[n] = MaxFailures
                      /\ \A u \in Threads : \A d \in emitting'[u].targets :
                            d[1] = n => d[2] = subscribers[n]
    BY <1>1 DEF OwnFailures
  <2>1. /\ failCounts[n] <= failed[n] \/ failed[n] = MaxFailures
        /\ \A u \in Threads : n \in emitting[u].removals => failed[n] = MaxFailures
        /\ \A u \in Threads : \A d \in emitting[u].targets : d[1] = n => d[2] = subscribers[n]
    BY <1>1 DEF Counts, OwnFailures
  <2>2. c[2] = subscribers[n]
    BY <1>1, <2>1
  <2>3. failCounts'[n] = count
    BY <1>1, <1>2 DEF EmitterTypes
  <2>4. failed[n] \in 0..MaxFailures /\ failCounts[n] \in Int
    BY <1>1 DEF EmitterTypes
  <2>5. failed'[n] = IF failed[n] < MaxFailures THEN failed[n] + 1 ELSE failed[n]
    BY <1>1, <1>2, <2>2 DEF EmitterTypes
  <2>6. count <= failed[n] + 1 \/ failed[n] = MaxFailures
    BY <2>1, <2>4
  <2> HIDE DEF count, n
  <2>7. count <= failed'[n] \/ failed'[n] = MaxFailures
    BY <1>3, <2>4, <2>5, <2>6, Sizes
  <2>8. failed[n] = MaxFailures => failed'[n] = MaxFailures
    BY <2>5, Sizes
  <2>9. count >= MaxFailures => failed'[n] = MaxFailures
    BY <1>3, <2>4, <2>5, <2>7, Sizes
  <2>10. ASSUME NEW u \in Threads, n \in emitting'[u].removals PROVE failed'[n] = MaxFailures
    <3>1. CASE n \in emitting[u].removals
      BY <2>1, <2>8, <3>1
    <3>2. CASE n \notin emitting[u].removals
      <4>1. u = t /\ ~(count < MaxFailures)
        BY <1>1, <1>4, <2>10, <3>2
      <4> QED
        BY <1>3, <2>9, <4>1, Sizes
    <3> QED
      BY <3>1, <3>2
  <2>11. \A u \in Threads : \A d \in emitting'[u].targets : d[1] = n => d[2] = subscribers[n]
    BY <1>1, <2>1
  <2> QED
    BY <2>3, <2>7, <2>10, <2>11
<1>8. ASSUME NEW m \in Names, m # n PROVE OwnFailures(m)'
  <2>1. OwnFailures(m)
    BY DEF Counts
  <2>2. failCounts'[m] = failCounts[m] /\ failed'[m] = failed[m]
    BY <1>2, <1>8 DEF EmitterTypes
  <2> QED
    BY <1>1, <1>8, <2>1, <2>2 DEF OwnFailures
<1> QED
  BY <1>6, <1>7, <1>8 DEF Counts

(* An emit that is abandoned leaves no trace but its event (emit: raise).  *)
LEMMA ExitKeeps ==
  ASSUME EmitterInv, NEW t \in Threads, NEW c, CallbackExits(t, c)
  PROVE  EmitterInv'
<1> USE DEF EmitterInv
<1>1. /\ emitting' \in [Threads -> Emits]
      /\ emitting'[t] = NotEmitting
      /\ \A u \in Threads : u # t => emitting'[u] = emitting[u]
  BY NotEmittingType, EmitsKept DEF CallbackExits
<1>2. UNCHANGED <<buffered, dropped, subscribers, failCounts, emitted, drained, failed,
                  overlapped, subscriptions>>
  BY DEF CallbackExits
<1>3. EmitterTypes' /\ RingAccounted'
  BY <1>1, <1>2 DEF EmitterTypes, RingAccounted
<1>4. ASSUME NEW n \in Names PROVE OwnFailures(n)'
  <2>1. OwnFailures(n)
    BY DEF Counts
  <2> QED
    BY <1>1, <1>2, <2>1, NotEmittingType DEF OwnFailures
<1> QED
  BY <1>3, <1>4 DEF Counts

(* The resets and removals of an emit are applied together at its end      *)
(* (emit: the second lock region).                                         *)
LEMMA EndKeeps ==
  ASSUME EmitterInv, NEW t \in Threads, EndEmit(t)
  PROVE  EmitterInv'
<1> USE DEF EmitterInv
<1>1. /\ emitting' \in [Threads -> Emits]
      /\ emitting'[t] = NotEmitting
      /\ \A u \in Threads : u # t => emitting'[u] = emitting[u]
  BY NotEmittingType, EmitsKept DEF EndEmit
<1>2. /\ failed' \in [Names -> 0..MaxFailures]
      /\ \A n \in Names : failed'[n] = failed[n]
                          \/ /\ failed'[n] = 0 /\ failed[n] < MaxFailures
                             /\ <<n, subscribers[n]>> \in emitting[t].resets
  BY Sizes DEF EndEmit, EmitterTypes
<1>3. /\ subscribers' \in [Names -> Nat] /\ failCounts' \in [Names -> Int]
      /\ \A n \in Names : subscribers'[n] \in {0, subscribers[n]}
      /\ \A n \in Names : failCounts'[n] \in {-1, 0, failCounts[n]}
      /\ \A n \in Names : subscribers'[n] # 0 /\ <<n, subscribers[n]>> \in emitting[t].resets
                           => failCounts'[n] \in {-1, 0}
  <2>1. \A n \in Names : <<n, subscribers[n]>> \in emitting[t].resets
                           => n \in {c[1] : c \in emitting[t].resets}
    <3>1. \A n \in Names : n = <<n, subscribers[n]>>[1]
      OBVIOUS
    <3> QED
      BY <3>1
  <2>2. \A n \in Names : failCounts'[n] =
                 IF n \in emitting[t].removals THEN -1
                 ELSE IF n \in {c[1] : c \in emitting[t].resets} /\ failCounts[n] # -1
                      THEN 0 ELSE failCounts[n]
    BY DEF EndEmit
  <2>3. DOMAIN failCounts' = Names
    BY DEF EndEmit
  <2>4. \A n \in Names : subscribers'[n] = IF n \in emitting[t].removals THEN 0 ELSE subscribers[n]
    BY DEF EndEmit
  <2>5. subscribers' \in [Names -> Nat]
    BY DEF EmitterTypes, EndEmit
  <2>6. failCounts' \in [Names -> Int]
    BY DEF EmitterTypes, EndEmit
  <2> QED
    BY <2>1, <2>2, <2>4, <2>5, <2>6
<1>4. UNCHANGED <<buffered, dropped, emitted, drained, overlapped, subscriptions>>
  BY DEF EndEmit
<1>5. EmitterTypes' /\ RingAccounted'
  BY <1>1, <1>2, <1>3, <1>4 DEF EmitterTypes, RingAccounted
<1>6. ASSUME NEW n \in Names PROVE OwnFailures(n)'
  <2> SUFFICES ASSUME n \notin overlapped, subscribers'[n] # 0 PROVE OwnFailures(n)'
    BY <1>4 DEF OwnFailures
  <2>1. subscribers'[n] = subscribers[n] /\ subscribers[n] # 0
    BY <1>3
  <2>2. /\ failCounts[n] <= failed[n] \/ failed[n] = MaxFailures
        /\ \A u \in Threads : n \in emitting[u].removals => failed[n] = MaxFailures
        /\ \A u \in Threads : \A d \in emitting[u].targets : d[1] = n => d[2] = subscribers[n]
    BY <2>1 DEF Counts, OwnFailures
  <2>3. failed[n] \in 0..MaxFailures /\ failCounts[n] \in Int
    BY DEF EmitterTypes
  <2>4. failed[n] = MaxFailures => failed'[n] = MaxFailures
    <3>1. failed'[n] = failed[n] \/ failed[n] < MaxFailures
      BY <1>2
    <3> QED
      BY <2>3, <3>1, Sizes
  <2>5. failCounts'[n] <= failed'[n] \/ failed'[n] = MaxFailures
    <3>1. CASE failed'[n] = failed[n]
      BY <1>3, <2>2, <2>3, <3>1
    <3>2. CASE failed'[n] = 0 /\ <<n, subscribers[n]>> \in emitting[t].resets
      BY <1>3, <3>2
    <3> QED
      BY <1>2, <3>1, <3>2
  <2>6. \A u \in Threads : n \in emitting'[u].removals => failed'[n] = MaxFailures
    BY <1>1, <2>2, <2>4, NotEmittingType
  <2>7. \A u \in Threads : \A d \in emitting'[u].targets : d[1] = n => d[2] = subscribers'[n]
    BY <1>1, <2>1, <2>2, NotEmittingType
  <2> QED
    BY <2>5, <2>6, <2>7 DEF OwnFailures
<1> QED
  BY <1>5, <1>6 DEF Counts

(* A new subscription has no failures, unless it is noted that it outlives *)
(* another (subscribe).                                                    *)
LEMMA SubscribeKeeps ==
  ASSUME EmitterInv, NEW n \in Names, Subscribe(n)
  PROVE  EmitterInv'
<1> USE DEF EmitterInv
<1>1. /\ failCounts' = [failCounts EXCEPT ![n] = 0] /\ failed' = [failed EXCEPT ![n] = 0]
      /\ subscribers' = [subscribers EXCEPT ![n] = subscriptions + 1]
      /\ overlapped' = IF Outlived(n) THEN overlapped \cup {n} ELSE overlapped \ {n}
      /\ subscriptions' = subscriptions + 1
      /\ UNCHANGED <<buffered, dropped, emitting, emitted, drained>>
  BY DEF Subscribe, Renew
<1>2. EmitterTypes' /\ RingAccounted'
  BY <1>1, Sizes DEF EmitterTypes, RingAccounted
<1>3. OwnFailures(n)'
  <2> SUFFICES ASSUME n \notin overlapped' PROVE OwnFailures(n)'
    BY DEF OwnFailures
  <2>1. ~Outlived(n)
    BY <1>1
  <2>2. \A u \in Threads : /\ n \notin emitting[u].removals
                           /\ \A d \in emitting[u].targets : d[1] # n
    BY <2>1 DEF Outlived
  <2>3. failCounts'[n] = 0 /\ failed'[n] = 0
    BY <1>1 DEF EmitterTypes
  <2> QED
    BY <1>1, <2>2, <2>3 DEF OwnFailures
<1>4. ASSUME NEW m \in Names, m # n PROVE OwnFailures(m)'
  <2>1. OwnFailures(m)
    BY DEF Counts
  <2>2. /\ failCounts'[m] = failCounts[m] /\ failed'[m] = failed[m]
        /\ subscribers'[m] = subscribers[m] /\ (m \in overlapped' <=> m \in overlapped)
    BY <1>1, <1>4 DEF EmitterTypes
  <2> QED
    BY <1>1, <2>1, <2>2 DEF OwnFailures
<1> QED
  BY <1>2, <1>3, <1>4 DEF Counts

(* A name that leaves takes its count of failures with it (unsubscribe).   *)
LEMMA UnsubscribeKeeps ==
  ASSUME EmitterInv, NEW n \in Names, Unsubscribe(n)
  PROVE  EmitterInv'
<1> USE DEF EmitterInv
<1>1. EmitterTypes' /\ RingAccounted'
  BY DEF EmitterTypes, RingAccounted, Unsubscribe
<1>2. ASSUME NEW m \in Names PROVE OwnFailures(m)'
  <2>1. OwnFailures(m)
    BY DEF Counts
  <2>2. CASE m = n
    BY <2>2 DEF OwnFailures, Unsubscribe, EmitterTypes
  <2>3. CASE m # n
    BY <2>1, <2>3 DEF OwnFailures, Unsubscribe, EmitterTypes
  <2> QED
    BY <2>2, <2>3
<1> QED
  BY <1>1, <1>2 DEF Counts

(* What is drained leaves the ring (drain).                                *)
LEMMA DrainKeeps == ASSUME EmitterInv, Drain(MaxLen) PROVE EmitterInv'
<1> USE DEF EmitterInv
<1>1. EmitterTypes' /\ RingAccounted'
  <2>1. Cardinality(emitted) \in Nat
    BY FS_CardinalityType DEF EmitterTypes
  <2> QED
    BY <2>1, Sizes DEF EmitterTypes, RingAccounted, Drain
<1>2. Counts'
  BY DEF Counts, OwnFailures, Drain
<1> QED
  BY <1>1, <1>2

(* Every step of the pipeline keeps the accounts of the emitter.           *)
LEMMA EmitterInvKept == EmitterInv /\ [Next]_vars => EmitterInv'
<1> SUFFICES ASSUME EmitterInv, EmitterStep PROVE EmitterInv'
  BY StepOfEmitter
<1>1. CASE UNCHANGED evars
  BY <1>1 DEF evars, EmitterInv, EmitterTypes, RingAccounted, Counts, OwnFailures
<1> QED
  BY <1>1, BeginKeeps, ReturnKeeps, RaiseKeeps, ExitKeeps, EndKeeps, SubscribeKeeps,
     UnsubscribeKeeps, DrainKeeps DEF EmitterStep

----------------------------------------------------------------------------
(* What is on its way to the ingestor.                                      *)

(* The ingestor stays subscribed, an emit that has callbacks to call is of *)
(* an event that was emitted, and one that writes has handed it over.      *)
Handover ==
  /\ subscribers[Ingestor] # 0
  /\ \A t \in Threads : Ingestor \notin emitting[t].removals
  /\ \A t \in Threads : emitting[t].targets # {} => emitting[t].event # <<>>
  /\ \A t \in Threads : \A e \in EventIds : emitting[t].event = <<e>> => e \in emitted
  /\ \A t \in Threads : writing[t] # NotWriting /\ emitting[t] # NotEmitting
                           => emitting[t].event[1] \in received
  /\ DOMAIN writing = Threads

(* An event with a report was received, or will be in the emit under way.   *)
OnItsWay(e) == \E t \in Threads : emitting[t].event = <<e>> /\ Calling(t)

Arrivals ==
  /\ emitted \subseteq EventIds
  /\ received \subseteq {e \in emitted : HasReport(e)}
  /\ \A e \in emitted \ received : HasReport(e) => OnItsWay(e)

IInv == EmitterInv /\ Handover /\ Arrivals

(* An action of the ingestor changes what one thread writes. *)
LEMMA WritesOfOne ==
  ASSUME DOMAIN writing = Threads, NEW t \in Threads, NEW e,
         Ingest(t, e) \/ Flush(t) \/ PutMany(t) \/ PutManyRaises(t)
  PROVE  /\ DOMAIN writing' = Threads
         /\ \A u \in Threads : u # t => writing'[u] = writing[u]
<1>1. CASE UNCHANGED writing
  BY <1>1
<1>2. ASSUME NEW w, writing' = [writing EXCEPT ![t] = w]
      PROVE  /\ DOMAIN writing' = Threads
             /\ \A u \in Threads : u # t => writing'[u] = writing[u]
  BY <1>2
<1>3. CASE Ingest(t, e)
  BY <1>1, <1>2, <1>3 DEF Ingest, Take, Refuse
<1>4. CASE Flush(t)
  BY <1>2, <1>4 DEF Flush
<1>5. CASE PutMany(t)
  BY <1>2, <1>5 DEF PutMany
<1>6. CASE PutManyRaises(t)
  BY <1>2, <1>6 DEF PutManyRaises
<1> QED
  BY <1>3, <1>4, <1>5, <1>6

(* The event an emit is of. *)
LEMMA EventOf ==
  ASSUME EmitterTypes, Handover, NEW t \in Threads, emitting[t].targets # {}
  PROVE  \E e \in emitted \cap EventIds : emitting[t].event = <<e>> /\ emitting[t].event[1] = e
<1>1. emitting[t].event \in EmitTuples /\ emitting[t].event # <<>>
  BY DEF EmitterTypes, Emits, Handover
<1>2. PICK e \in EventIds : emitting[t].event = <<e>>
  BY <1>1 DEF EmitTuples
<1>3. e \in emitted /\ <<e>>[1] = e
  BY <1>2 DEF Handover
<1> QED
  BY <1>2, <1>3

(* An event stays on its way if its emit does not change.                   *)
LEMMA StaysOnItsWay ==
  ASSUME NEW e, NEW t, OnItsWay(e),
         \A u \in Threads : u # t => emitting'[u] = emitting[u],
         emitting[t].event # <<e>> \/ ~Calling(t)
           \/ (emitting'[t].event = <<e>> /\ Calling(t)')
  PROVE  OnItsWay(e)'
<1>1. PICK u \in Threads : emitting[u].event = <<e>> /\ Calling(u)
  BY DEF OnItsWay
<1>2. emitting'[u].event = <<e>> /\ Calling(u)'
  BY <1>1 DEF Calling
<1> QED
  BY <1>2 DEF OnItsWay

(* A step that neither emits nor receives, and ends no call of the         *)
(* ingestor, leaves events on their way.                                   *)
LEMMA SameArrivals ==
  ASSUME Arrivals, UNCHANGED <<received, emitted>>, NEW t,
         \A u \in Threads : u # t => emitting'[u] = emitting[u],
         ~Calling(t) \/ (emitting'[t].event = emitting[t].event /\ Calling(t)')
           \/ \E e \in EventIds :
                 emitting[t].event = <<e>> /\ (e \in received \/ ~HasReport(e))
  PROVE  Arrivals'
<1>1. ASSUME NEW e \in emitted \ received, HasReport(e) PROVE OnItsWay(e)'
  <2>1. OnItsWay(e)
    BY <1>1 DEF Arrivals
  <2>2. emitting[t].event # <<e>> \/ ~Calling(t)
           \/ (emitting'[t].event = <<e>> /\ Calling(t)')
    <3> SUFFICES ASSUME emitting[t].event = <<e>>, Calling(t)
                 PROVE  emitting'[t].event = <<e>> /\ Calling(t)'
      OBVIOUS
    <3>1. \A f : <<f>> = <<e>> => f = e
      OBVIOUS
    <3> QED
      BY <1>1, <3>1
  <2> QED
    BY <2>1, <2>2, StaysOnItsWay
<1> QED
  BY <1>1 DEF Arrivals, HasReport

(* An emit begins: the ingestor is among its targets. *)
LEMMA EmitKeeps ==
  ASSUME IInv, NEW t \in Threads, NEW e \in EventIds, Emit(t, e)
  PROVE  Handover' /\ Arrivals'
<1> USE DEF IInv, EmitterInv
<1>1. /\ emitting'[t].event = <<e>> /\ emitting'[t].removals = {}
      /\ emitting'[t].targets = {<<n, subscribers[n]>> : n \in Subscribed}
      /\ \A u \in Threads : u # t => emitting'[u] = emitting[u]
  BY BeginEffect DEF Emit
<1>2. /\ emitting[t] = NotEmitting /\ writing[t] = NotWriting
      /\ emitted' = emitted \cup {e}
      /\ UNCHANGED <<received, writing, subscribers>>
  BY DEF Emit, BeginEmit, ivars
<1>3. Handover'
  <2>1. /\ subscribers'[Ingestor] # 0 /\ DOMAIN writing' = Threads
        /\ \A u \in Threads : Ingestor \notin emitting'[u].removals
        /\ \A u \in Threads : emitting'[u].targets # {} => emitting'[u].event # <<>>
    BY <1>1, <1>2 DEF Handover
  <2>2. \A u \in Threads : \A f \in EventIds : emitting'[u].event = <<f>> => f \in emitted'
    <3>1. \A f : <<f>> = <<e>> => f = e
      OBVIOUS
    <3> QED
      BY <1>1, <1>2, <3>1 DEF Handover
  <2>3. \A u \in Threads : writing'[u] # NotWriting /\ emitting'[u] # NotEmitting
                            => emitting'[u].event[1] \in received'
    BY <1>1, <1>2 DEF Handover
  <2> QED
    BY <2>1, <2>2, <2>3 DEF Handover
<1>4. Calling(t)'
  <2>1. Ingestor \in Subscribed
    BY Sizes DEF Handover, Subscribed
  <2>2. <<Ingestor, subscribers[Ingestor]>> \in emitting'[t].targets
    BY <1>1, <2>1
  <2> QED
    BY <2>2 DEF Calling
<1>5. ASSUME NEW f \in emitted' \ received', HasReport(f) PROVE OnItsWay(f)'
  <2>1. CASE f = e
    BY <1>1, <1>4, <2>1 DEF OnItsWay
  <2>2. CASE f # e
    <3>1. OnItsWay(f)
      BY <1>2, <1>5, <2>2 DEF Arrivals
    <3>2. ~Calling(t)
      BY <1>2, NotEmittingType DEF Calling
    <3> QED
      BY <1>1, <3>1, <3>2, StaysOnItsWay
  <2> QED
    BY <2>1, <2>2
<1> QED
  BY <1>2, <1>3, <1>5 DEF Arrivals, HasReport

(* A callback that was called, or an emit that was abandoned: what is left *)
(* of it is no more than there was.                                        *)
LEMMA CalledKeeps ==
  ASSUME IInv, NEW t \in Threads, emitting[t] # NotEmitting,
         UNCHANGED <<emitted, subscribers>>, DOMAIN writing' = Threads,
         received \subseteq received',
         \A u \in Threads : u # t => writing'[u] = writing[u] /\ emitting'[u] = emitting[u],
         emitting'[t] = NotEmitting \/
            /\ emitting'[t].event = emitting[t].event
            /\ emitting'[t].targets \subseteq emitting[t].targets
            /\ Ingestor \notin emitting'[t].removals,
         writing'[t] # NotWriting => emitting[t].event[1] \in received'
  PROVE  Handover'
<1>1. /\ subscribers'[Ingestor] # 0
      /\ \A u \in Threads : Ingestor \notin emitting'[u].removals
      /\ \A u \in Threads : emitting'[u].targets # {} => emitting'[u].event # <<>>
  BY NotEmittingType DEF IInv, Handover
<1>2. \A u \in Threads : \A f \in EventIds : emitting'[u].event = <<f>> => f \in emitted'
  <2>1. \A f \in EventIds : <<f>> # <<>>
    OBVIOUS
  <2> QED
    BY <2>1, NotEmittingType DEF IInv, Handover
<1>3. \A u \in Threads : writing'[u] # NotWriting /\ emitting'[u] # NotEmitting
                           => emitting'[u].event[1] \in received'
  BY DEF IInv, Handover
<1> QED
  BY <1>1, <1>2, <1>3 DEF Handover

(* A callback other than the ingestor's ends, one way or the other. *)
LEMMA OtherKeeps ==
  ASSUME IInv, NEW t \in Threads, OtherCallback(t)
  PROVE  Handover' /\ Arrivals'
<1> USE DEF IInv, EmitterInv
<1>1. PICK c \in emitting[t].targets :
         CallbackReturns(t, c) \/ CallbackRaises(t, c) \/ CallbackExits(t, c)
  BY DEF OtherCallback
<1>2. ~Calling(t) /\ UNCHANGED <<received, writing>>
  BY DEF OtherCallback, ivars
<1>3. c[1] # Ingestor /\ emitting[t] # NotEmitting
  BY <1>1, <1>2, NotEmittingType DEF Calling
<1>4. /\ UNCHANGED <<emitted, subscribers>>
      /\ \A u \in Threads : u # t => emitting'[u] = emitting[u]
      /\ emitting'[t] = NotEmitting \/
            /\ emitting'[t].event = emitting[t].event
            /\ emitting'[t].targets \subseteq emitting[t].targets
            /\ Ingestor \notin emitting'[t].removals
  <2>1. CASE CallbackReturns(t, c) \/ CallbackRaises(t, c)
    BY <1>3, <2>1, CalledEffect DEF Handover
  <2>2. CASE CallbackExits(t, c)
    BY <2>2, NotEmittingType, EmitsKept DEF CallbackExits
  <2> QED
    BY <1>1, <2>1, <2>2
<1>5. Handover'
  <2>1. writing'[t] # NotWriting => emitting[t].event[1] \in received'
    BY <1>2, <1>3 DEF Handover
  <2>2. DOMAIN writing' = Threads
    BY <1>2 DEF Handover
  <2> QED
    BY <1>2, <1>3, <1>4, <2>1, <2>2, CalledKeeps
<1>6. Arrivals'
  BY <1>2, <1>4, SameArrivals
<1> QED
  BY <1>5, <1>6

(* An emit ends when the ingestor has been called. *)
LEMMA EndHandsOver ==
  ASSUME IInv, NEW t \in Threads, EndEmit(t), UNCHANGED ivars
  PROVE  Handover' /\ Arrivals'
<1> USE DEF IInv, EmitterInv
<1>1. /\ emitting'[t] = NotEmitting
      /\ \A u \in Threads : u # t => emitting'[u] = emitting[u]
  BY NotEmittingType, EmitsKept DEF EndEmit
<1>2. /\ UNCHANGED <<received, writing, emitted>>
      /\ emitting[t].targets = {}
  BY DEF EndEmit, ivars
<1>3. subscribers'[Ingestor] = subscribers[Ingestor]
  BY Sizes DEF EndEmit, Handover, EmitterTypes
<1>4. Handover'
  <2>1. \A f \in EventIds : <<f>> # <<>>
    OBVIOUS
  <2> QED
    BY <1>1, <1>2, <1>3, <2>1, NotEmittingType DEF Handover
<1>5. ~Calling(t)
  BY <1>2 DEF Calling
<1> QED
  BY <1>1, <1>2, <1>4, <1>5, SameArrivals

(* The ingestor's callback returned, or has yet to. *)
LEMMA IngestorCalled ==
  ASSUME IInv, NEW t \in Threads, ReturnsOnceWritten(t) \/ IngestorReturns(t)
  PROVE  /\ UNCHANGED <<emitted, subscribers>>
         /\ \A u \in Threads : u # t => emitting'[u] = emitting[u]
         /\ emitting'[t].event = emitting[t].event
         /\ emitting'[t].targets \subseteq emitting[t].targets
         /\ Ingestor \notin emitting'[t].removals
<1> USE DEF IInv, EmitterInv
<1>1. CASE UNCHANGED evars
  BY <1>1 DEF evars, Handover
<1>2. CASE IngestorReturns(t)
  <2>1. PICK c \in emitting[t].targets : CallbackReturns(t, c)
    BY <1>2 DEF IngestorReturns
  <2> QED
    BY <2>1, CalledEffect DEF Handover
<1> QED
  BY <1>1, <1>2 DEF ReturnsOnceWritten

(* The ingestor takes or refuses the event it is called with. *)
LEMMA OnEventKeeps ==
  ASSUME IInv, NEW t \in Threads, OnEvent(t)
  PROVE  Handover' /\ Arrivals'
<1> USE DEF IInv, EmitterInv
<1>1. emitting[t].targets # {} /\ emitting[t] # NotEmitting
  BY NotEmittingType DEF OnEvent, Calling
<1>2. PICK e \in emitted \cap EventIds : emitting[t].event = <<e>> /\ emitting[t].event[1] = e
  BY <1>1, EventOf
<1>3. HasReport(e) /\ received' = received \cup {e}
  BY <1>2 DEF OnEvent, Ingest
<1>4. /\ DOMAIN writing' = Threads
      /\ \A u \in Threads : u # t => writing'[u] = writing[u]
  BY WritesOfOne DEF OnEvent, Handover
<1>5. /\ UNCHANGED <<emitted, subscribers>>
      /\ \A u \in Threads : u # t => emitting'[u] = emitting[u]
      /\ emitting'[t].event = emitting[t].event
      /\ emitting'[t].targets \subseteq emitting[t].targets
      /\ Ingestor \notin emitting'[t].removals
  BY IngestorCalled DEF OnEvent
<1>6. Handover'
  BY <1>1, <1>2, <1>3, <1>4, <1>5, CalledKeeps
<1>7. ASSUME NEW f \in emitted' \ received', HasReport(f) PROVE OnItsWay(f)'
  <2>1. OnItsWay(f) /\ f # e
    BY <1>3, <1>5, <1>7 DEF Arrivals
  <2>2. emitting[t].event # <<f>>
    BY <1>2, <2>1
  <2> QED
    BY <1>5, <2>1, <2>2, StaysOnItsWay
<1> QED
  BY <1>2, <1>3, <1>5, <1>6, <1>7 DEF Arrivals, HasReport

(* The ingestor ignores an event that is not the kernel's (on_event).      *)
LEMMA OnOtherEventKeeps ==
  ASSUME IInv, NEW t \in Threads, OnOtherEvent(t)
  PROVE  Handover' /\ Arrivals'
<1> USE DEF IInv, EmitterInv
<1>1. /\ emitting[t].targets # {} /\ emitting[t] # NotEmitting
      /\ UNCHANGED <<received, writing>> /\ IngestorReturns(t)
  BY NotEmittingType DEF OnOtherEvent, Calling, ivars
<1>2. PICK e \in emitted \cap EventIds : emitting[t].event = <<e>> /\ emitting[t].event[1] = e
  BY <1>1, EventOf
<1>3. ~HasReport(e)
  BY <1>2 DEF OnOtherEvent
<1>4. /\ UNCHANGED <<emitted, subscribers>>
      /\ \A u \in Threads : u # t => emitting'[u] = emitting[u]
      /\ emitting'[t].event = emitting[t].event
      /\ emitting'[t].targets \subseteq emitting[t].targets
      /\ Ingestor \notin emitting'[t].removals
  BY <1>1, IngestorCalled
<1>5. Handover'
  <2>1. writing'[t] # NotWriting => emitting[t].event[1] \in received'
    BY <1>1 DEF Handover
  <2>2. DOMAIN writing' = Threads
    BY <1>1 DEF Handover
  <2> QED
    BY <1>1, <1>4, <2>1, <2>2, CalledKeeps
<1>6. Arrivals'
  BY <1>1, <1>2, <1>3, <1>4, SameArrivals
<1> QED
  BY <1>5, <1>6

(* The writes on behalf of an event that was handed over. *)
LEMMA OnEventWritesKeeps ==
  ASSUME IInv, NEW t \in Threads, OnEventWrites(t)
  PROVE  Handover' /\ Arrivals'
<1> USE DEF IInv, EmitterInv
<1>1. /\ emitting[t] # NotEmitting /\ writing[t] # NotWriting /\ received' = received
      /\ PutMany(t) \/ PutManyRaises(t)
  BY DEF OnEventWrites, PutMany, PutManyRaises
<1>2. /\ DOMAIN writing' = Threads
      /\ \A u \in Threads : u # t => writing'[u] = writing[u]
  BY <1>1, WritesOfOne DEF Handover
<1>3. emitting[t].event[1] \in received
  BY <1>1 DEF Handover
<1>4. /\ UNCHANGED <<emitted, subscribers>>
      /\ \A u \in Threads : u # t => emitting'[u] = emitting[u]
      /\ emitting'[t].event = emitting[t].event
      /\ emitting'[t].targets \subseteq emitting[t].targets
      /\ Ingestor \notin emitting'[t].removals
  BY IngestorCalled DEF OnEventWrites
<1>5. Handover'
  BY <1>1, <1>2, <1>3, <1>4, CalledKeeps
<1>6. ~Calling(t) \/ \E e \in EventIds : emitting[t].event = <<e>> /\ e \in received
  <2> SUFFICES ASSUME Calling(t)
               PROVE  \E e \in EventIds : emitting[t].event = <<e>> /\ e \in received
    OBVIOUS
  <2>1. emitting[t].targets # {}
    BY DEF Calling
  <2> QED
    BY <1>3, <2>1, EventOf
<1>7. Arrivals'
  BY <1>1, <1>4, <1>6, SameArrivals
<1> QED
  BY <1>5, <1>7

(* A thread that emits nothing flushes, or writes what it flushed. *)
LEMMA FlushKeeps ==
  ASSUME IInv, NEW t \in Threads, emitting[t] = NotEmitting, UNCHANGED evars,
         Flush(t) \/ PutMany(t) \/ PutManyRaises(t)
  PROVE  Handover' /\ Arrivals'
<1> USE DEF IInv, EmitterInv
<1>1. UNCHANGED <<received, emitting, emitted, subscribers>>
  BY DEF Flush, PutMany, PutManyRaises, evars
<1>2. /\ DOMAIN writing' = Threads
      /\ \A u \in Threads : u # t => writing'[u] = writing[u]
  BY WritesOfOne DEF Handover
<1>3. Handover'
  BY <1>1, <1>2 DEF Handover
<1>4. ~Calling(t)
  BY NotEmittingType DEF Calling
<1> QED
  BY <1>1, <1>3, <1>4, SameArrivals

(* Subscriptions of others, and drains. *)
LEMMA OthersKeep ==
  ASSUME IInv, UNCHANGED <<ivars, emitting, emitted>>,
         subscribers'[Ingestor] = subscribers[Ingestor]
  PROVE  Handover' /\ Arrivals'
<1> USE DEF IInv
<1>1. UNCHANGED <<received, writing>>
  BY DEF ivars
<1>2. Handover'
  BY <1>1 DEF Handover
<1>3. Arrivals'
  BY <1>1 DEF Arrivals, OnItsWay, Calling, HasReport
<1> QED
  BY <1>2, <1>3

(* Every step keeps the accounts of the emitter and the arrivals at the    *)
(* ingestor (emit, on_event).                                              *)
LEMMA IInvKept == IInv /\ [Next]_vars => IInv'
<1> SUFFICES ASSUME IInv, [Next]_vars PROVE Handover' /\ Arrivals'
  BY EmitterInvKept DEF IInv
<1>1. ASSUME NEW n \in Names \ {Ingestor}, Subscribe(n) \/ Unsubscribe(n), UNCHANGED ivars
      PROVE  Handover' /\ Arrivals'
  BY <1>1, Sizes, OthersKeep DEF Subscribe, Renew, Unsubscribe, IInv, EmitterInv, EmitterTypes
<1>2. CASE Drain(MaxLen) /\ UNCHANGED ivars
  BY <1>2, OthersKeep DEF Drain
<1>3. CASE UNCHANGED vars
  BY <1>3, OthersKeep DEF vars, evars
<1>4. ASSUME NEW t \in Threads, EmitStep(t)
      PROVE  Handover' /\ Arrivals'
  BY <1>4, OnEventKeeps, OnOtherEventKeeps, OnEventWritesKeeps, OtherKeeps, EndHandsOver
     DEF EmitStep
<1> QED
  BY <1>1, <1>2, <1>3, <1>4, EmitKeeps, FlushKeeps DEF Next, FlusherWrites

(* The accounts hold from the first state on (BufferedEmitter.__init__,    *)
(* EventIngestor.__init__).                                                *)
LEMMA Invariance == Spec => []IInv
<1>1. ASSUME Init PROVE IInv
  <2> USE <1>1 DEF Init, EmitterInit
  <2>1. EmitterTypes
    BY NotEmittingType, Sizes, FS_EmptySet DEF EmitterTypes
  <2>2. /\ \A t \in Threads : /\ emitting[t] = NotEmitting /\ emitting[t].removals = {}
                               /\ emitting[t].targets = {} /\ emitting[t].event = <<>>
        /\ received = {} /\ DOMAIN writing = Threads
    BY Sizes, NotEmittingType DEF IngestorInit
  <2>3. RingAccounted
    BY FS_EmptySet DEF RingAccounted
  <2>4. Counts
    BY <2>2 DEF Counts, OwnFailures
  <2>5. Handover
    <3>1. \A f \in EventIds : <<f>> # <<>>
      OBVIOUS
    <3>2. subscribers[Ingestor] # 0
      BY Sizes
    <3>3. \A t \in Threads : writing[t] = NotWriting
      BY Sizes DEF IngestorInit
    <3> QED
      BY <2>2, <3>1, <3>2, <3>3 DEF Handover
  <2>6. Arrivals
    BY <2>2 DEF Arrivals
  <2> QED
    BY <2>1, <2>3, <2>4, <2>5, <2>6 DEF IInv, EmitterInv
<1> QED
  BY <1>1, IInvKept, PTL DEF Spec

(* A subscription is removed for failures in a row of its own callback,     *)
(* whichever threads called it and however they overlapped, unless it was  *)
(* made while an emit was under way with an earlier one of its name (emit,  *)
(* subscribe).                                                              *)
THEOREM EmitterRemovedAfterFailures == Spec => []RemovedAfterFailures
<1>1. ASSUME IInv PROVE RemovedAfterFailures
  <2> SUFFICES ASSUME NEW t \in Threads, NEW n \in emitting[t].removals,
                      subscribers[n] # 0, n \notin overlapped
               PROVE  failed[n] = MaxFailures
    BY DEF RemovedAfterFailures
  <2>1. n \in Names
    BY <1>1 DEF IInv, EmitterInv, EmitterTypes, Emits
  <2> QED
    BY <1>1, <2>1 DEF IInv, EmitterInv, Counts, OwnFailures
<1> QED
  BY <1>1, Invariance, PTL

(* Every event that was emitted was drained, is in the ring or is counted  *)
(* as dropped; the ingestor has received those with a report, or will in   *)
(* the emit under way, and no other (emit, on_event).                      *)
THEOREM PipelineEmittedIsIngested == Spec => []EmittedIsIngested
<1>1. ASSUME IInv PROVE EmittedIsIngested
  BY <1>1 DEF IInv, EmitterInv, Arrivals, OnItsWay, RingAccounted, EmittedIsIngested
<1> QED
  BY <1>1, Invariance, PTL
----------------------------------------------------------------------------
(* What becomes of an event in the ingestor.                                *)

Reports == {raw \in UNION {Raw[e] : e \in EventIds} : Convertible(raw)}
Outs == {Converted(e, raw) : e \in EventIds, raw \in Reports}
Writes == [batch : Seq(Outs), attempt : 0..Attempts]

IngestorTypes ==
  /\ batch \in Seq(Outs) /\ deadLetter \in Seq(Outs) /\ records \in Seq(Outs)
  /\ writing \in [Threads -> Writes]
  /\ \A t \in Threads : writing[t].attempt = 0 => writing[t].batch = <<>>
  /\ ingestedTotal \in Nat /\ errorTotal \in Nat /\ storeFaults \in Nat
  /\ received \in SUBSET EventIds /\ refused \in SUBSET received
  /\ IsFiniteSet(received) /\ IsFiniteSet(lost)

(* No event is twice in the sequence.                                      *)
Distinct(outs) == \A i, j \in DOMAIN outs : outs[i].id = outs[j].id => i = j

(* What waits, or is being written, does so once, and is not given up yet. *)
Unwritten ==
  /\ Distinct(batch)
  /\ \A t \in Threads : /\ Distinct(writing[t].batch)
                        /\ Ids(writing[t].batch) \cap (Ids(deadLetter) \cup lost) = {}

IngestorInv == IngestorTypes /\ Unwritten /\ EventsAccounted

(* The greater and the smaller of two numbers.                             *)
LEMMA OfTwo ==
  ASSUME NEW a \in Int, NEW b \in Int
  PROVE  /\ Max({a, b}) = IF a >= b THEN a ELSE b
         /\ Min({a, b}) = IF a <= b THEN a ELSE b
<1>1. ASSUME NEW x, NEW y \in {a, b}, \A z \in {a, b} : y >= z,
             x = CHOOSE w \in {a, b} : \A z \in {a, b} : w >= z
      PROVE  x \in {a, b} /\ \A z \in {a, b} : x >= z
  BY <1>1
<1>2. ASSUME NEW x, NEW y \in {a, b}, \A z \in {a, b} : y <= z,
             x = CHOOSE w \in {a, b} : \A z \in {a, b} : w <= z
      PROVE  x \in {a, b} /\ \A z \in {a, b} : x <= z
  BY <1>2
<1>3. Max({a, b}) \in {a, b} /\ \A z \in {a, b} : Max({a, b}) >= z
  <2> DEFINE y == IF a >= b THEN a ELSE b
  <2>1. y \in {a, b} /\ \A z \in {a, b} : y >= z
    OBVIOUS
  <2> HIDE DEF y
  <2> QED
    BY <1>1, <2>1 DEF Max
<1>4. Min({a, b}) \in {a, b} /\ \A z \in {a, b} : Min({a, b}) <= z
  <2> DEFINE y == IF a <= b THEN a ELSE b
  <2>1. y \in {a, b} /\ \A z \in {a, b} : y <= z
    OBVIOUS
  <2> HIDE DEF y
  <2> QED
    BY <1>2, <2>1 DEF Min
<1> QED
  BY <1>3, <1>4

(* The limits of the ingestor.                                             *)
LEMMA IngestorSizes ==
  /\ Attempts \in Nat /\ Attempts > 0 /\ DeadLetterMax \in Nat
  /\ MaxRecords \in Nat /\ MaxRecords > 0
BY IngestorAssumption

(* A thread that writes nothing has no batch (_write).                     *)
LEMMA NotWritingType == NotWriting \in Writes /\ NotWriting.batch = <<>> /\ NotWriting.attempt = 0
BY IngestorSizes DEF NotWriting, Writes

(* What is converted keeps the number of its event.                        *)
LEMMA ConvertedId ==
  ASSUME NEW e \in EventIds, NEW raw \in Raw[e], Convertible(raw)
  PROVE  Converted(e, raw) \in Outs /\ Converted(e, raw).id = e
<1>1. raw \in Reports
  BY DEF Reports
<1>2. Converted(e, raw).id = e
  BY DEF Converted
<1> HIDE DEF Converted
<1> QED
  BY <1>1, <1>2 DEF Outs

(* The events of an outcome and of sequences of them.                      *)
LEMMA IdsOf ==
  /\ \A o \in Outs : o.id \in EventIds
  /\ Ids(<<>>) = {}
  /\ \A s, d \in Seq(Outs) : Ids(s \o d) = Ids(s) \cup Ids(d)
  /\ \A s \in Seq(Outs), o \in Outs : Ids(Append(s, o)) = Ids(s) \cup {o.id}
  /\ \A s \in Seq(Outs) : Ids(s) \subseteq EventIds
  /\ \A s \in Seq(Outs) : s = <<>> \/ Ids(s) # {}
<1>1. \A o \in Outs : o.id \in EventIds
  <2> SUFFICES ASSUME NEW e \in EventIds, NEW raw \in Reports
               PROVE  Converted(e, raw).id \in EventIds
    BY DEF Outs
  <2> QED
    BY DEF Converted
<1>2. Ids(<<>>) = {}
  BY DEF Ids
<1>3. ASSUME NEW s \in Seq(Outs), NEW d \in Seq(Outs)
      PROVE  Ids(s \o d) = Ids(s) \cup Ids(d)
  <2>1. /\ Len(s \o d) = Len(s) + Len(d)
        /\ \A i \in 1..Len(s) + Len(d) :
              (s \o d)[i] = IF i <= Len(s) THEN s[i] ELSE d[i - Len(s)]
    OBVIOUS
  <2>2. DOMAIN (s \o d) = 1..Len(s) + Len(d) /\ DOMAIN s = 1..Len(s) /\ DOMAIN d = 1..Len(d)
        /\ Len(s) \in Nat /\ Len(d) \in Nat
    BY <2>1
  <2>3. ASSUME NEW i \in DOMAIN (s \o d)
        PROVE  (s \o d)[i].id \in Ids(s) \cup Ids(d)
    <3>1. CASE i <= Len(s)
      BY <2>1, <2>2, <3>1 DEF Ids
    <3>2. CASE i > Len(s)
      <4>1. i - Len(s) \in DOMAIN d
        BY <2>2, <3>2
      <4> QED
        BY <2>1, <2>2, <3>2, <4>1 DEF Ids
    <3> QED
      BY <2>2, <3>1, <3>2
  <2>4. ASSUME NEW i \in DOMAIN s
        PROVE  s[i].id \in Ids(s \o d)
    BY <2>1, <2>2 DEF Ids
  <2>5. ASSUME NEW i \in DOMAIN d
        PROVE  d[i].id \in Ids(s \o d)
    <3>1. i + Len(s) \in DOMAIN (s \o d) /\ (s \o d)[i + Len(s)] = d[i]
      BY <2>1, <2>2
    <3> QED
      BY <3>1 DEF Ids
  <2>6. Ids(s \o d) \subseteq Ids(s) \cup Ids(d)
    BY <2>3 DEF Ids
  <2>7. Ids(s) \subseteq Ids(s \o d)
    BY <2>4 DEF Ids
  <2>8. Ids(d) \subseteq Ids(s \o d)
    BY <2>5 DEF Ids
  <2> QED
    BY <2>6, <2>7, <2>8
<1>4. ASSUME NEW s \in Seq(Outs), NEW o \in Outs
      PROVE  Ids(Append(s, o)) = Ids(s) \cup {o.id}
  <2>1. Append(s, o) = s \o <<o>> /\ <<o>> \in Seq(Outs)
    OBVIOUS
  <2>2. Ids(<<o>>) = {o.id}
    BY DEF Ids
  <2> QED
    BY <1>3, <2>1, <2>2
<1>5. ASSUME NEW s \in Seq(Outs) PROVE Ids(s) \subseteq EventIds
  BY <1>1 DEF Ids
<1>6. ASSUME NEW s \in Seq(Outs), s # <<>> PROVE Ids(s) # {}
  <2>1. 1 \in DOMAIN s
    BY <1>6
  <2> QED
    BY <2>1 DEF Ids
<1> QED
  BY <1>1, <1>2, <1>3, <1>4, <1>5, <1>6

(* A part of a sequence of outcomes.                                       *)
LEMMA PartOf ==
  ASSUME NEW s \in Seq(Outs), NEW m \in Nat, NEW n \in Nat, 1 <= m, n <= Len(s)
  PROVE  /\ SubSeq(s, m, n) \in Seq(Outs)
         /\ Len(SubSeq(s, m, n)) = IF m <= n THEN n - m + 1 ELSE 0
         /\ \A i \in DOMAIN SubSeq(s, m, n) :
               /\ i \in Nat /\ i + m - 1 \in DOMAIN s
               /\ SubSeq(s, m, n)[i] = s[i + m - 1]
         /\ Ids(SubSeq(s, m, n)) \subseteq Ids(s)
         /\ Distinct(s) => Distinct(SubSeq(s, m, n))
<1> DEFINE d == SubSeq(s, m, n)
<1>1. /\ d \in Seq(Outs)
      /\ Len(d) = IF m <= n THEN n - m + 1 ELSE 0
      /\ \A i \in 1..Len(d) : d[i] = s[i + m - 1]
  OBVIOUS
<1>2. DOMAIN d = 1..Len(d) /\ DOMAIN s = 1..Len(s) /\ Len(s) \in Nat
  BY <1>1
<1> HIDE DEF d
<1>3. \A i \in DOMAIN d : /\ i \in Nat /\ i + m - 1 \in DOMAIN s
                          /\ d[i] = s[i + m - 1]
  BY <1>1, <1>2
<1>4. Ids(d) \subseteq Ids(s)
  BY <1>3 DEF Ids
<1>5. ASSUME Distinct(s) PROVE Distinct(d)
  <2> SUFFICES ASSUME NEW i \in DOMAIN d, NEW j \in DOMAIN d, d[i].id = d[j].id
               PROVE  i = j
    BY DEF Distinct
  <2>1. i + m - 1 = j + m - 1
    BY <1>3, <1>5 DEF Distinct
  <2> QED
    BY <1>3, <2>1
<1> QED
  BY <1>1, <1>3, <1>4, <1>5 DEF d

(* A sequence that repeats no event has as many of them as its length.     *)
LEMMA DistinctCount ==
  ASSUME NEW s \in Seq(Outs), Distinct(s)
  PROVE  IsFiniteSet(Ids(s)) /\ Cardinality(Ids(s)) = Len(s)
<1> DEFINE f == [i \in 1..Len(s) |-> s[i].id]
<1>0. DOMAIN s = 1..Len(s) /\ Len(s) \in Nat
  OBVIOUS
<1>1. f \in [1..Len(s) -> Ids(s)]
  BY <1>0 DEF Ids
<1>2. \A i, j \in 1..Len(s) : f[i] = f[j] => i = j
  BY <1>0 DEF Distinct
<1>3. \A x \in Ids(s) : \E i \in 1..Len(s) : f[i] = x
  BY <1>0 DEF Ids
<1>4. ExistsBijection(1..Len(s), Ids(s))
  <2> HIDE DEF f
  <2>1. f \in Injection(1..Len(s), Ids(s))
    BY <1>1, <1>2 DEF Injection, IsInjective
  <2>2. f \in Surjection(1..Len(s), Ids(s))
    BY <1>1, <1>3 DEF Surjection
  <2> QED
    BY <2>1, <2>2 DEF ExistsBijection, Bijection
<1> HIDE DEF f
<1> QED
  BY <1>0, <1>4, FS_CountingElements, FS_NatBijection

(* The oldest and the rest of two parts make up the events of the whole.   *)
LEMMA SplitIds ==
  ASSUME NEW s \in Seq(Outs), NEW k \in 0..Len(s)
  PROVE  Ids(s) = Ids(SubSeq(s, 1, k)) \cup Ids(SubSeq(s, k + 1, Len(s)))
<1>0. /\ Len(s) \in Nat /\ k \in Nat /\ k + 1 \in Nat /\ k <= Len(s)
      /\ DOMAIN s = 1..Len(s)
  OBVIOUS
<1> DEFINE a == SubSeq(s, 1, k)
           b == SubSeq(s, k + 1, Len(s))
<1>1. Ids(a) \subseteq Ids(s) /\ Ids(b) \subseteq Ids(s)
  BY <1>0, PartOf
<1>2. /\ DOMAIN a = 1..k /\ \A i \in 1..k : a[i] = s[i]
      /\ DOMAIN b = 1..Len(s) - k /\ \A i \in 1..Len(s) - k : b[i] = s[i + k]
  BY <1>0
<1> HIDE DEF a, b
<1>3. ASSUME NEW i \in DOMAIN s PROVE s[i].id \in Ids(a) \cup Ids(b)
  <2>1. CASE i <= k
    BY <1>0, <1>2, <2>1 DEF Ids
  <2>2. CASE i > k
    <3>1. i - k \in DOMAIN b /\ b[i - k] = s[i]
      BY <1>0, <1>2, <2>2
    <3> QED
      BY <3>1 DEF Ids
  <2> QED
    BY <1>0, <2>1, <2>2
<1>4. Ids(s) \subseteq Ids(a) \cup Ids(b)
  BY <1>3 DEF Ids
<1> QED
  BY <1>1, <1>4 DEF a, b


----------------------------------------------------------------------------
(* The store and the dead letter.                                           *)

Kept == Ids(records) \cup evicted
Positions(outs, e) == {i \in DOMAIN outs : outs[i].id = e}
Times(e) == Cardinality(Positions(records, e))

(* The places of an event in a sequence, and in one that is appended to.   *)
LEMMA PlacesOf ==
  /\ \A s \in Seq(Outs) : \A e : IsFiniteSet(Positions(s, e)) /\ Cardinality(Positions(s, e)) \in Nat
  /\ \A s, d \in Seq(Outs) : \A e : Distinct(d) =>
        Cardinality(Positions(s \o d, e))
            <= Cardinality(Positions(s, e)) + (IF e \in Ids(d) THEN 1 ELSE 0)
  /\ \A s \in Seq(Outs) : \A e : e \notin Ids(s) => Cardinality(Positions(s, e)) = 0
<1>1. ASSUME NEW s \in Seq(Outs), NEW e
      PROVE  IsFiniteSet(Positions(s, e)) /\ Cardinality(Positions(s, e)) \in Nat
  <2>1. IsFiniteSet(1..Len(s)) /\ Positions(s, e) \in SUBSET (1..Len(s))
    BY FS_Interval DEF Positions
  <2> QED
    BY <2>1, FS_Subset, FS_CardinalityType
<1>2. ASSUME NEW s \in Seq(Outs), NEW d \in Seq(Outs), NEW e, Distinct(d)
      PROVE  Cardinality(Positions(s \o d, e))
                <= Cardinality(Positions(s, e)) + (IF e \in Ids(d) THEN 1 ELSE 0)
  <2>1. /\ DOMAIN s = 1..Len(s) /\ DOMAIN d = 1..Len(d) /\ Len(s) \in Nat /\ Len(d) \in Nat
        /\ DOMAIN (s \o d) = 1..Len(s) + Len(d)
        /\ \A i \in 1..Len(s) + Len(d) :
              (s \o d)[i] = IF i <= Len(s) THEN s[i] ELSE d[i - Len(s)]
    OBVIOUS
  <2>2. ASSUME NEW i \in Positions(s \o d, e)
        PROVE  i \in Positions(s, e) \/ (i - Len(s) \in Positions(d, e) /\ i \in Nat)
    <3>1. i \in 1..Len(s) + Len(d) /\ (s \o d)[i].id = e
      BY <2>1 DEF Positions
    <3> QED
      BY <2>1, <3>1 DEF Positions
  <2>3. CASE e \notin Ids(d)
    <3>1. Positions(d, e) = {}
      BY <2>3 DEF Positions, Ids
    <3>2. Positions(s \o d, e) \in SUBSET Positions(s, e)
      BY <2>2, <3>1
    <3> QED
      BY <1>1, <2>3, <3>2, FS_Subset
  <2>4. CASE e \in Ids(d)
    <3>1. PICK j \in DOMAIN d : d[j].id = e
      BY <2>4 DEF Ids
    <3>2. \A i \in Positions(d, e) : i = j
      BY <1>2, <3>1 DEF Positions, Distinct
    <3> DEFINE P == Positions(s, e) \cup {j + Len(s)}
    <3>3. Positions(s \o d, e) \in SUBSET P
      BY <2>1, <2>2, <3>1, <3>2
    <3>4. /\ IsFiniteSet(P)
          /\ Cardinality(P) <= Cardinality(Positions(s, e)) + 1
      <4>1. IsFiniteSet(Positions(s, e)) /\ Cardinality(Positions(s, e)) \in Nat
        BY <1>1
      <4> DEFINE S == Positions(s, e)
                 x == j + Len(s)
      <4> HIDE DEF S, x
      <4>2. /\ IsFiniteSet(S \cup {x})
            /\ Cardinality(S \cup {x}) = IF x \in S THEN Cardinality(S) ELSE Cardinality(S) + 1
        BY <4>1, FS_AddElement DEF S
      <4>3. Cardinality(S \cup {x}) <= Cardinality(S) + 1
        BY <4>1, <4>2 DEF S
      <4> QED
        BY <4>2, <4>3 DEF S, x
    <3>5. Cardinality(Positions(s \o d, e)) <= Cardinality(P)
      BY <3>3, <3>4, FS_Subset
    <3>6. Cardinality(P) \in Nat
      BY <3>4, FS_CardinalityType
    <3>7. Cardinality(Positions(s, e)) \in Nat /\ Cardinality(Positions(s \o d, e)) \in Nat
      BY <1>1, <3>3, <3>4, FS_Subset, FS_CardinalityType
    <3> HIDE DEF P
    <3> QED
      BY <2>4, <3>4, <3>5, <3>6, <3>7
  <2> QED
    BY <2>3, <2>4
<1>3. ASSUME NEW s \in Seq(Outs), NEW e, e \notin Ids(s)
      PROVE  Cardinality(Positions(s, e)) = 0
  <2>1. Positions(s, e) = {}
    BY <1>3 DEF Positions, Ids
  <2> QED
    BY <2>1, FS_EmptySet
<1> QED
  BY <1>1, <1>2, <1>3

(* Dropping the oldest takes no event more places than it had.             *)
LEMMA PlacesOfPart ==
  ASSUME NEW s \in Seq(Outs), NEW m \in Nat, 1 <= m, NEW e
  PROVE  Cardinality(Positions(SubSeq(s, m, Len(s)), e)) <= Cardinality(Positions(s, e))
<1> DEFINE d == SubSeq(s, m, Len(s))
           f == [i \in Positions(d, e) |-> i + m - 1]
<1>1. \A i \in DOMAIN d : i \in Nat /\ i + m - 1 \in DOMAIN s /\ d[i] = s[i + m - 1]
  BY PartOf
<1> HIDE DEF d
<1>2. f \in [Positions(d, e) -> Positions(s, e)]
  BY <1>1 DEF Positions
<1>3. \A i, j \in Positions(d, e) : f[i] = f[j] => i = j
  BY <1>1 DEF Positions
<1> HIDE DEF f
<1>4. f \in Injection(Positions(d, e), Positions(s, e))
  BY <1>2, <1>3 DEF Injection, IsInjective
<1> QED
  BY <1>4, PlacesOf, FS_Injection DEF d

(* What is stored is kept or evicted, and each outcome is one place more   *)
(* for its event at most (put_many).                                       *)
LEMMA StoredEffect ==
  ASSUME records \in Seq(Outs), NEW outs \in Seq(Outs), Distinct(outs), Stored(outs)
  PROVE  /\ records' \in Seq(Outs)
         /\ Kept' = Kept \cup Ids(outs)
         /\ \A e : Times(e)' <= Times(e) + (IF e \in Ids(outs) THEN 1 ELSE 0)
         /\ \A e : Times(e)' \in Nat
<1> DEFINE all == records \o outs
           m == Max({1, Len(all) - MaxRecords + 1})
           kept == SubSeq(all, m, Len(all))
<1>1. /\ all \in Seq(Outs) /\ Len(all) \in Nat
      /\ records' = kept /\ evicted' = evicted \cup (Ids(all) \ Ids(kept))
  BY DEF Stored
<1>2. Ids(all) = Ids(records) \cup Ids(outs)
  BY IdsOf
<1>3. \A e : Cardinality(Positions(all, e)) <= Times(e) + (IF e \in Ids(outs) THEN 1 ELSE 0)
  BY PlacesOf DEF Times
<1> HIDE DEF all
<1>4. m \in Nat /\ 1 <= m
  <2>1. 1 \in Int /\ Len(all) - MaxRecords + 1 \in Int
    BY <1>1, IngestorSizes
  <2> QED
    BY <2>1, OfTwo
<1> HIDE DEF m
<1>5. kept \in Seq(Outs) /\ Ids(kept) \subseteq Ids(all)
  <2>1. Len(all) <= Len(all)
    BY <1>1
  <2> QED
    BY <1>1, <1>4, <2>1, PartOf
<1>6. \A e : Cardinality(Positions(kept, e)) <= Cardinality(Positions(all, e))
  BY <1>1, <1>4, PlacesOfPart
<1> HIDE DEF kept
<1>7. Kept' = Kept \cup Ids(outs)
  BY <1>1, <1>2, <1>5 DEF Kept
<1>8. ASSUME NEW e
      PROVE  /\ Times(e)' <= Times(e) + (IF e \in Ids(outs) THEN 1 ELSE 0)
             /\ Times(e)' \in Nat
  <2>1. Times(e)' = Cardinality(Positions(kept, e))
    BY <1>1 DEF Times
  <2>2. Times(e)' \in Nat /\ Cardinality(Positions(all, e)) \in Nat /\ Times(e) \in Nat
    BY <1>1, <1>5, <2>1, PlacesOf DEF Times
  <2> QED
    BY <1>3, <1>6, <2>1, <2>2
<1> QED
  BY <1>1, <1>5, <1>7, <1>8

(* Outcomes that are given up are in the dead letter or counted as lost.   *)
LEMMA BuriedEffect ==
  ASSUME IngestorTypes, Len(deadLetter) <= DeadLetterMax,
         NEW outs \in Seq(Outs), Distinct(outs), Ids(outs) \cap lost = {}, Buried(outs)
  PROVE  /\ deadLetter' \in Seq(Outs) /\ Len(deadLetter') <= DeadLetterMax
         /\ errorTotal' \in Nat /\ IsFiniteSet(lost')
         /\ Ids(deadLetter') \cup lost' = Ids(deadLetter) \cup lost \cup Ids(outs)
         /\ Len(deadLetter') + Cardinality(lost')
              = Len(deadLetter) + Cardinality(lost) + Len(outs)
<1> DEFINE room == Max({0, DeadLetterMax - Len(deadLetter)})
           saved == Min({Len(outs), room})
           first == SubSeq(outs, 1, saved)
           rest == SubSeq(outs, saved + 1, Len(outs))
<1>0. /\ deadLetter \in Seq(Outs) /\ Len(deadLetter) \in Nat /\ Len(outs) \in Nat
      /\ errorTotal \in Nat /\ IsFiniteSet(lost) /\ DeadLetterMax \in Nat
  BY IngestorSizes DEF IngestorTypes
<1>1. room = DeadLetterMax - Len(deadLetter) /\ room \in Nat
  <2>1. 0 \in Int /\ DeadLetterMax - Len(deadLetter) \in Int
        /\ DeadLetterMax - Len(deadLetter) >= 0
    BY <1>0
  <2> QED
    BY <2>1, OfTwo
<1>2. saved = IF Len(outs) <= room THEN Len(outs) ELSE room
  <2> HIDE DEF room
  <2>1. Len(outs) \in Int /\ room \in Int
    BY <1>0, <1>1
  <2> QED
    BY <2>1, OfTwo
<1>3. deadLetter' = deadLetter \o first /\ lost' = lost \cup Ids(rest)
      /\ errorTotal' = errorTotal + Len(outs)
  BY DEF Buried
<1> HIDE DEF room, saved
<1>4. saved \in 0..Len(outs) /\ saved <= room /\ saved + 1 \in Nat /\ saved \in Nat
  BY <1>0, <1>1, <1>2
<1>5. /\ first \in Seq(Outs) /\ Len(first) = saved
      /\ rest \in Seq(Outs) /\ Len(rest) = Len(outs) - saved
      /\ Ids(rest) \subseteq Ids(outs) /\ Distinct(rest)
  BY <1>0, <1>4, PartOf
<1>6. Ids(outs) = Ids(first) \cup Ids(rest)
  BY <1>4, SplitIds
<1> HIDE DEF first, rest
<1>7. IsFiniteSet(Ids(rest)) /\ Cardinality(Ids(rest)) = Len(outs) - saved
  BY <1>5, DistinctCount
<1>8. /\ IsFiniteSet(lost')
      /\ Cardinality(lost') = Cardinality(lost) + Cardinality(Ids(rest))
  <2>1. lost \cap Ids(rest) = {}
    BY <1>5
  <2>2. Cardinality(lost) \in Nat /\ Cardinality(Ids(rest)) \in Nat
    BY <1>0, <1>7, FS_CardinalityType
  <2>3. Cardinality({}) = 0
    BY FS_EmptySet
  <2>4. /\ IsFiniteSet(lost \cup Ids(rest))
        /\ Cardinality(lost \cup Ids(rest)) = Cardinality(lost) + Cardinality(Ids(rest))
                                                - Cardinality(lost \cap Ids(rest))
    BY <1>0, <1>7, FS_Union
  <2> DEFINE U == lost \cup Ids(rest)
  <2>5. lost' = U
    BY <1>3
  <2>6. Cardinality(lost \cap Ids(rest)) = 0
    BY <2>1, <2>3
  <2>7. IsFiniteSet(U) /\ Cardinality(U) = Cardinality(lost) + Cardinality(Ids(rest))
    BY <2>2, <2>4, <2>6
  <2> HIDE DEF U
  <2> QED
    BY <2>5, <2>7
<1>9. deadLetter' \in Seq(Outs) /\ Len(deadLetter') = Len(deadLetter) + saved
  <2>1. \A s, d \in Seq(Outs) : s \o d \in Seq(Outs) /\ Len(s \o d) = Len(s) + Len(d)
    OBVIOUS
  <2> QED
    BY <1>0, <1>3, <1>5, <2>1
<1>10. Ids(deadLetter') = Ids(deadLetter) \cup Ids(first)
  <2>1. Ids(deadLetter \o first) = Ids(deadLetter) \cup Ids(first)
    BY <1>0, <1>5, IdsOf
  <2> QED
    BY <1>3, <2>1
<1>11. Cardinality(lost) \in Nat
  BY <1>0, FS_CardinalityType
<1> QED
  BY <1>0, <1>1, <1>3, <1>4, <1>6, <1>7, <1>8, <1>9, <1>10, <1>11


----------------------------------------------------------------------------
(* The accounts as one thread's action changes them.                        *)

Others(t) == UNION {Ids(writing[u].batch) : u \in Threads \ {t}}
Gone == Ids(deadLetter) \cup lost

(* EventsAccounted and Unwritten, with what t writes set apart.            *)
Balance(t) ==
  LET W == Ids(writing[t].batch) IN
  /\ Len(deadLetter) <= DeadLetterMax
  /\ ingestedTotal = Cardinality(received \ refused)
  /\ errorTotal = Cardinality(refused) + Len(deadLetter) + Cardinality(lost)
  /\ received \ refused = Ids(batch) \cup W \cup Others(t) \cup Kept \cup Gone
  /\ Ids(batch) \cap (W \cup Others(t) \cup Kept \cup Gone) = {}
  /\ W \cap (Others(t) \cup Gone) = {}
  /\ Others(t) \cap Gone = {}
  /\ Distinct(batch) /\ Distinct(writing[t].batch)

(* What one thread writes, and the others.                                 *)
LEMMA FlightOf ==
  ASSUME NEW t \in Threads
  PROVE  InFlight = Others(t) \cup Ids(writing[t].batch)
BY Sizes DEF InFlight, Others

(* The accounts hold with any thread set apart,                            *)
LEMMA BalanceHolds ==
  ASSUME IngestorInv, NEW t \in Threads
  PROVE  Balance(t)
<1>1. Others(t) \cap Ids(writing[t].batch) = {}
  BY Sizes DEF IngestorInv, EventsAccounted, Others
<1>2. Others(t) \cap Gone = {} /\ Ids(writing[t].batch) \cap Gone = {}
  BY DEF IngestorInv, Unwritten, Others, Gone
<1>3. /\ Len(deadLetter) <= DeadLetterMax
      /\ ingestedTotal = Cardinality(received \ refused)
      /\ errorTotal = Cardinality(refused) + Len(deadLetter) + Cardinality(lost)
  BY DEF IngestorInv, EventsAccounted
<1>4. /\ received \ refused = Ids(batch) \cup InFlight \cup Kept \cup Gone
      /\ Ids(batch) \cap (InFlight \cup Kept \cup Gone) = {}
  BY DEF IngestorInv, EventsAccounted, Kept, Gone
<1>5. Distinct(batch) /\ Distinct(writing[t].batch)
  BY DEF IngestorInv, Unwritten
<1>6. /\ received \ refused = Ids(batch) \cup Ids(writing[t].batch) \cup Others(t) \cup Kept \cup Gone
      /\ Ids(batch) \cap (Ids(writing[t].batch) \cup Others(t) \cup Kept \cup Gone) = {}
  BY <1>4, FlightOf
<1> QED
  BY <1>1, <1>2, <1>3, <1>5, <1>6 DEF Balance

(* and if they hold again for the one that acted, they hold for all.       *)
LEMMA BalanceKept ==
  ASSUME IngestorInv, IngestorTypes', NEW t \in Threads, Balance(t)',
         \A u \in Threads : u # t => writing'[u] = writing[u]
  PROVE  IngestorInv'
<1>1. Others(t)' = Others(t)
  BY DEF Others
<1>2. InFlight' = Others(t)' \cup Ids(writing'[t].batch)
  BY Sizes DEF InFlight, Others
<1>3. ASSUME NEW u \in Threads, u # t
      PROVE  /\ Ids(writing'[u].batch) \subseteq Others(t)'
             /\ Distinct(writing'[u].batch)
  <2>1. Ids(writing'[u].batch) \subseteq Others(t)'
    BY <1>3 DEF Others
  <2> QED
    BY <1>3, <2>1 DEF IngestorInv, Unwritten
<1>4. Unwritten'
  BY <1>3 DEF Balance, Unwritten, Gone
<1>5. ASSUME NEW u \in Threads, NEW v \in Threads, u # v
      PROVE  Ids(writing'[u].batch) \cap Ids(writing'[v].batch) = {}
  <2>1. CASE u # t /\ v # t
    BY <1>5, <2>1, Sizes DEF IngestorInv, EventsAccounted
  <2>2. CASE u = t \/ v = t
    BY <1>3, <1>5, <2>2 DEF Balance
  <2> QED
    BY <2>1, <2>2
<1>6. /\ received' \ refused' = Ids(batch') \cup InFlight' \cup Kept' \cup Gone'
      /\ Ids(batch') \cap (InFlight' \cup Kept' \cup Gone') = {}
  BY <1>2 DEF Balance
<1>7. /\ Len(deadLetter') <= DeadLetterMax
      /\ ingestedTotal' = Cardinality(received' \ refused')
      /\ errorTotal' = Cardinality(refused') + Len(deadLetter') + Cardinality(lost')
  BY DEF Balance
<1>8. EventsAccounted'
  BY <1>5, <1>6, <1>7, Sizes DEF EventsAccounted, Kept, Gone
<1> QED
  BY <1>4, <1>8 DEF IngestorInv

(* No more than the attempts that failed, and one that does not, store an  *)
(* event (_write).                                                         *)
OnceInv ==
  /\ \A t \in Threads :
        /\ writing[t].attempt <= storeFaults + 1
        /\ \A e \in Ids(writing[t].batch) : Times(e) < writing[t].attempt
  /\ \A e \in EventIds : Times(e) <= 1 + storeFaults /\ Times(e) <= Attempts

(* What a thread writes, and a change of it.                               *)
LEMMA WritesKept ==
  ASSUME IngestorTypes, NEW t \in Threads, NEW w \in Writes,
         w.attempt = 0 => w.batch = <<>>, writing' = [writing EXCEPT ![t] = w]
  PROVE  /\ writing' \in [Threads -> Writes]
         /\ \A u \in Threads : writing'[u].attempt = 0 => writing'[u].batch = <<>>
         /\ writing'[t] = w
         /\ \A u \in Threads : u # t => writing'[u] = writing[u]
BY DEF IngestorTypes

(* An event the ingestor has not seen is nowhere.                          *)
LEMMA NotYetStored ==
  ASSUME IngestorInv, NEW x, x \notin received \/ x \in Ids(batch)
  PROVE  Times(x) = 0
<1>1. x \notin Ids(records)
  BY DEF IngestorInv, EventsAccounted
<1> QED
  BY <1>1, PlacesOf DEF IngestorInv, IngestorTypes, Times

(* A batch that is full, or flushed, changes hands.                        *)
LEMMA HandedOver ==
  ASSUME IngestorInv, OnceInv, NEW t \in Threads, NEW filled \in Seq(Outs),
         filled # <<>>, Distinct(filled), \A x \in Ids(filled) : Times(x) = 0,
         writing[t] = NotWriting, UNCHANGED <<records, storeFaults>>,
         writing' = [writing EXCEPT ![t] = [batch |-> filled, attempt |-> 1]]
  PROVE  OnceInv'
<1> DEFINE w == [batch |-> filled, attempt |-> 1]
<1>1. w \in Writes /\ w.attempt = 1 /\ w.batch = filled
  BY IngestorSizes DEF Writes
<1> HIDE DEF w
<1>2. /\ writing'[t] = w
      /\ \A u \in Threads : u # t => writing'[u] = writing[u]
  <2>1. IngestorTypes /\ (w.attempt = 0 => w.batch = <<>>)
    BY <1>1 DEF IngestorInv
  <2>2. writing' = [writing EXCEPT ![t] = w]
    BY DEF w
  <2> QED
    BY <1>1, <2>1, <2>2, WritesKept
<1>3. \A x : Times(x)' = Times(x)
  BY DEF Times
<1>4. storeFaults' = storeFaults /\ storeFaults \in Nat
  BY DEF IngestorInv, IngestorTypes
<1> QED
  BY <1>1, <1>2, <1>3, <1>4 DEF OnceInv

(* An event is taken into the batch, or refused (ingest).                  *)
LEMMA IngestKeeps ==
  ASSUME IngestorInv, OnceInv, NEW t \in Threads, NEW e \in EventIds, Ingest(t, e)
  PROVE  IngestorInv' /\ OnceInv'
<1> DEFINE full == batch' = <<>>
<1>0. /\ IngestorTypes /\ Balance(t)
      /\ writing[t] = NotWriting /\ e \notin received /\ received' = received \cup {e}
      /\ UNCHANGED <<deadLetter, records, storeFaults, lost, evicted>>
  BY BalanceHolds DEF IngestorInv, Ingest
<1>1. /\ Ids(writing[t].batch) = {} /\ e \notin Ids(batch) /\ e \notin refused
      /\ e \notin Others(t) \cup Kept \cup Gone
  BY <1>0, NotWritingType, IdsOf DEF Balance, IngestorTypes
<1>2. /\ Kept' = Kept /\ Gone' = Gone /\ \A x : Times(x)' = Times(x)
  BY <1>0 DEF Kept, Gone, Times
<1>3. /\ IsFiniteSet(received') /\ received' \in SUBSET EventIds
      /\ refused \in SUBSET received /\ IsFiniteSet(received)
  BY <1>0, FS_AddElement DEF IngestorTypes
<1>4. PICK raw \in Raw[e] : Take(t, e, raw) \/ Refuse(e, raw)
  BY DEF Ingest
<1>5. CASE Refuse(e, raw)
  <2>1. /\ refused' = refused \cup {e} /\ errorTotal' = errorTotal + 1
        /\ UNCHANGED <<batch, ingestedTotal, writing>>
    BY <1>5 DEF Refuse
  <2>2. IsFiniteSet(refused)
    BY <1>3, FS_Subset
  <2>3. Cardinality(refused') = Cardinality(refused) + 1
    BY <1>1, <2>1, <2>2, FS_AddElement
  <2>4. received' \ refused' = received \ refused
    BY <1>0, <1>1, <2>1
  <2>5. IngestorTypes'
    BY <1>0, <1>3, <2>1 DEF IngestorTypes
  <2>6. Others(t)' = Others(t)
    BY <2>1 DEF Others
  <2>7. /\ Cardinality(refused) \in Nat /\ Len(deadLetter) \in Nat /\ Cardinality(lost) \in Nat
    BY <1>0, <2>2, FS_CardinalityType DEF IngestorTypes
  <2>8. errorTotal' = Cardinality(refused') + Len(deadLetter') + Cardinality(lost')
    BY <1>0, <2>1, <2>3, <2>7 DEF Balance
  <2>9. Balance(t)'
    BY <1>0, <1>2, <2>1, <2>4, <2>6, <2>8 DEF Balance
  <2>10. OnceInv'
    BY <1>0, <1>2, <2>1 DEF OnceInv
  <2> QED
    BY <2>1, <2>5, <2>9, <2>10, BalanceKept
<1>6. CASE Take(t, e, raw)
  <2> DEFINE o == Converted(e, raw)
             filled == Append(batch, o)
  <2>1. o \in Outs /\ o.id = e
    BY <1>6, ConvertedId DEF Take
  <2>2. /\ ingestedTotal' = ingestedTotal + 1 /\ UNCHANGED <<errorTotal, refused>>
        /\ \/ /\ writing' = [writing EXCEPT ![t] = [batch |-> filled, attempt |-> 1]]
              /\ batch' = <<>>
           \/ batch' = filled /\ UNCHANGED writing
    BY <1>6 DEF Take
  <2> HIDE DEF o
  <2>3. /\ filled \in Seq(Outs) /\ filled # <<>> /\ Ids(filled) = Ids(batch) \cup {e}
    <3>1. batch \in Seq(Outs)
      BY <1>0 DEF IngestorTypes
    <3>2. filled \in Seq(Outs)
      BY <2>1, <3>1
    <3>3. Ids(filled) = Ids(batch) \cup {e}
      BY <2>1, <3>1, IdsOf
    <3> HIDE DEF filled
    <3> QED
      BY <3>2, <3>3, IdsOf
  <2>4. Distinct(filled)
    <3>1. /\ Len(filled) = Len(batch) + 1 /\ filled[Len(batch) + 1] = o
          /\ \A i \in 1..Len(batch) : filled[i] = batch[i]
          /\ DOMAIN filled = 1..Len(batch) + 1 /\ DOMAIN batch = 1..Len(batch)
          /\ Len(batch) \in Nat
      BY <1>0, <2>1 DEF IngestorTypes
    <3>2. \A i \in DOMAIN batch : batch[i].id # e
      BY <1>1 DEF Ids
    <3> HIDE DEF filled
    <3> SUFFICES ASSUME NEW i \in DOMAIN filled, NEW j \in DOMAIN filled,
                        filled[i].id = filled[j].id
                 PROVE  i = j
      BY DEF Distinct
    <3>3. CASE i \in DOMAIN batch /\ j \in DOMAIN batch
      BY <1>0, <3>1, <3>3 DEF Balance, Distinct
    <3>4. CASE i \notin DOMAIN batch \/ j \notin DOMAIN batch
      BY <2>1, <3>1, <3>2, <3>4
    <3> QED
      BY <3>3, <3>4
  <2> HIDE DEF filled
  <2>5. received' \ refused' = (received \ refused) \cup {e}
    BY <1>0, <1>1, <2>2
  <2>6. ingestedTotal' = Cardinality(received' \ refused')
    <3>1. IsFiniteSet(received \ refused)
      BY <1>3, FS_Difference
    <3>2. Cardinality((received \ refused) \cup {e}) = Cardinality(received \ refused) + 1
      BY <1>0, <3>1, FS_AddElement
    <3> QED
      BY <1>0, <2>2, <2>5, <3>2 DEF Balance
  <2>7. errorTotal' = Cardinality(refused') + Len(deadLetter') + Cardinality(lost')
    BY <1>0, <2>2 DEF Balance
  <2>8. ingestedTotal' \in Nat /\ errorTotal' \in Nat /\ refused' \in SUBSET received'
    BY <1>0, <2>2 DEF IngestorTypes
  <2>9. CASE batch' = filled /\ UNCHANGED writing
    <3>1. Others(t)' = Others(t)
      BY <2>9 DEF Others
    <3>2. Balance(t)'
      BY <1>0, <1>1, <1>2, <2>3, <2>4, <2>5, <2>6, <2>7, <2>9, <3>1 DEF Balance
    <3>3. IngestorTypes'
      BY <1>0, <1>3, <2>3, <2>8, <2>9 DEF IngestorTypes
    <3>4. OnceInv'
      BY <1>0, <1>2, <2>9 DEF OnceInv
    <3> QED
      BY <2>9, <3>2, <3>3, <3>4, BalanceKept
  <2>10. CASE /\ writing' = [writing EXCEPT ![t] = [batch |-> filled, attempt |-> 1]]
              /\ batch' = <<>>
    <3> DEFINE w == [batch |-> filled, attempt |-> 1]
    <3>1. w \in Writes /\ w.attempt = 1 /\ w.batch = filled
      BY <2>3, IngestorSizes DEF Writes
    <3>2. writing' = [writing EXCEPT ![t] = w]
      BY <2>10
    <3> HIDE DEF w
    <3>3. /\ writing' \in [Threads -> Writes]
          /\ \A u \in Threads : writing'[u].attempt = 0 => writing'[u].batch = <<>>
          /\ writing'[t] = w
          /\ \A u \in Threads : u # t => writing'[u] = writing[u]
      <4>1. w.attempt = 0 => w.batch = <<>>
        BY <3>1
      <4> QED
        BY <1>0, <3>1, <3>2, <4>1, WritesKept
    <3>4. Others(t)' = Others(t)
      BY <3>3 DEF Others
    <3>5. /\ Ids(batch') = {} /\ Distinct(batch') /\ batch' \in Seq(Outs)
      BY <2>10, IdsOf DEF Distinct
    <3>6. Balance(t)'
      BY <1>0, <1>1, <1>2, <2>3, <2>4, <2>5, <2>6, <2>7, <3>1, <3>3, <3>4, <3>5 DEF Balance
    <3>7. IngestorTypes'
      BY <1>0, <1>3, <2>3, <2>8, <3>3, <3>5 DEF IngestorTypes
    <3>8. \A x \in Ids(filled) : Times(x) = 0
      BY <1>0, <2>3, NotYetStored
    <3>9. OnceInv'
      BY <1>0, <2>3, <2>4, <2>10, <3>8, HandedOver
    <3> QED
      BY <3>3, <3>6, <3>7, <3>9, BalanceKept
  <2> QED
    BY <2>2, <2>9, <2>10
<1> QED
  BY <1>4, <1>5, <1>6

(* A batch that is not full is taken by a thread that flushes (flush).     *)
LEMMA FlushKeepsInv ==
  ASSUME IngestorInv, OnceInv, NEW t \in Threads, Flush(t)
  PROVE  IngestorInv' /\ OnceInv'
<1> DEFINE w == [batch |-> batch, attempt |-> 1]
<1>0. /\ IngestorTypes /\ Balance(t)
      /\ writing[t] = NotWriting /\ batch # <<>> /\ batch' = <<>>
      /\ writing' = [writing EXCEPT ![t] = w]
      /\ UNCHANGED <<ingestedTotal, errorTotal, deadLetter, records, storeFaults,
                     received, refused, lost, evicted>>
  BY BalanceHolds DEF IngestorInv, Flush
<1>1. w \in Writes /\ w.attempt = 1 /\ w.batch = batch
  BY <1>0, IngestorSizes DEF Writes, IngestorTypes
<1> HIDE DEF w
<1>2. /\ writing' \in [Threads -> Writes]
      /\ \A u \in Threads : writing'[u].attempt = 0 => writing'[u].batch = <<>>
      /\ writing'[t] = w
      /\ \A u \in Threads : u # t => writing'[u] = writing[u]
  <2>1. w.attempt = 0 => w.batch = <<>>
    BY <1>1
  <2> QED
    BY <1>0, <1>1, <2>1, WritesKept
<1>3. Others(t)' = Others(t) /\ Kept' = Kept /\ Gone' = Gone
  BY <1>0, <1>2 DEF Others, Kept, Gone
<1>4. /\ Ids(writing[t].batch) = {} /\ Ids(batch') = {}
      /\ Distinct(batch') /\ batch' \in Seq(Outs)
  BY <1>0, NotWritingType, IdsOf DEF Distinct
<1>5. Balance(t)'
  BY <1>0, <1>1, <1>2, <1>3, <1>4 DEF Balance
<1>6. IngestorTypes'
  BY <1>0, <1>2, <1>4 DEF IngestorTypes
<1>7. OnceInv'
  <2>1. batch \in Seq(Outs) /\ Distinct(batch) /\ \A x \in Ids(batch) : Times(x) = 0
    BY <1>0, NotYetStored DEF IngestorTypes, Balance
  <2> QED
    BY <1>0, <2>1, HandedOver DEF w
<1> QED
  BY <1>2, <1>5, <1>6, <1>7, BalanceKept

(* An attempt ends the write: its outcomes are stored, or some of them     *)
(* are, and all that were not are given up.                                *)
LEMMA WriteEnds ==
  ASSUME IngestorInv, OnceInv, NEW t \in Threads, IngestorTypes',
         writing' = [writing EXCEPT ![t] = NotWriting],
         UNCHANGED <<batch, ingestedTotal, received, refused>>,
         Kept \subseteq Kept', Kept' \subseteq Kept \cup Ids(writing[t].batch),
         Gone \subseteq Gone', Gone' \subseteq Gone \cup Ids(writing[t].batch),
         Ids(writing[t].batch) \subseteq Kept' \cup Gone',
         Len(deadLetter') <= DeadLetterMax,
         errorTotal' = Cardinality(refused') + Len(deadLetter') + Cardinality(lost'),
         storeFaults <= storeFaults',
         \A e : Times(e)' \in Nat,
         \A e : Times(e)' <= Times(e) + (IF e \in Ids(writing[t].batch) THEN 1 ELSE 0),
         writing[t].attempt <= storeFaults' + 1
  PROVE  IngestorInv' /\ OnceInv'
<1>0. /\ IngestorTypes /\ Balance(t)
      /\ NotWriting \in Writes /\ NotWriting.batch = <<>> /\ NotWriting.attempt = 0
  BY BalanceHolds, NotWritingType DEF IngestorInv
<1>1. /\ writing'[t] = NotWriting
      /\ \A u \in Threads : u # t => writing'[u] = writing[u]
  BY <1>0, WritesKept
<1>2. Others(t)' = Others(t) /\ Ids(writing'[t].batch) = {} /\ Distinct(writing'[t].batch)
  BY <1>0, <1>1, IdsOf DEF Others, Distinct
<1>3. Balance(t)'
  BY <1>0, <1>1, <1>2 DEF Balance
<1>4. OnceInv'
  <2>0. /\ storeFaults \in Nat /\ storeFaults' \in Nat /\ Attempts \in Nat /\ Attempts > 0
        /\ writing[t].attempt \in 0..Attempts
        /\ \A e : Times(e) \in Nat
    BY <1>0, IngestorSizes, PlacesOf DEF IngestorTypes, Writes, Times
  <2>1. ASSUME NEW u \in Threads
        PROVE  /\ writing'[u].attempt <= storeFaults' + 1
               /\ \A e \in Ids(writing'[u].batch) : Times(e)' < writing'[u].attempt
    <3>1. CASE u = t
      BY <1>0, <1>1, <1>2, <2>0, <3>1
    <3>2. CASE u # t
      <4>1. Ids(writing[u].batch) \cap Ids(writing[t].batch) = {}
        BY <3>2, Sizes DEF IngestorInv, EventsAccounted
      <4>2. writing[u].attempt \in Nat /\ writing'[u] = writing[u]
        BY <1>0, <1>1, <3>2, IngestorSizes DEF IngestorTypes, Writes
      <4>3. writing[u].attempt <= storeFaults + 1
        BY DEF OnceInv
      <4>4. ASSUME NEW e \in Ids(writing[u].batch)
            PROVE  Times(e)' < writing[u].attempt
        <5>1. Times(e)' <= Times(e) /\ Times(e) < writing[u].attempt
          BY <2>0, <4>1 DEF OnceInv
        <5> QED
          BY <2>0, <4>2, <5>1
      <4> QED
        BY <2>0, <4>2, <4>3, <4>4
    <3> QED
      BY <3>1, <3>2
  <2>2. ASSUME NEW e \in EventIds
        PROVE  Times(e)' <= 1 + storeFaults' /\ Times(e)' <= Attempts
    <3>1. CASE e \in Ids(writing[t].batch)
      <4>1. Times(e)' <= Times(e) + 1 /\ Times(e) < writing[t].attempt
        BY <3>1 DEF OnceInv
      <4> QED
        BY <2>0, <4>1
    <3>2. CASE e \notin Ids(writing[t].batch)
      <4>1. Times(e)' <= Times(e) /\ Times(e) <= 1 + storeFaults /\ Times(e) <= Attempts
        BY <2>0, <3>2 DEF OnceInv
      <4> QED
        BY <2>0, <4>1
    <3> QED
      BY <3>1, <3>2
  <2> QED
    BY <2>1, <2>2 DEF OnceInv
<1> QED
  BY <1>1, <1>3, <1>4, BalanceKept

(* The store takes the whole batch (put_many).                             *)
LEMMA PutManyKeeps ==
  ASSUME IngestorInv, OnceInv, NEW t \in Threads, PutMany(t)
  PROVE  IngestorInv' /\ OnceInv'
<1> DEFINE outs == writing[t].batch
<1>0. /\ IngestorTypes /\ Balance(t) /\ outs \in Seq(Outs) /\ Distinct(outs)
      /\ NotWriting \in Writes /\ NotWriting.batch = <<>> /\ NotWriting.attempt = 0
      /\ records \in Seq(Outs)
  BY BalanceHolds, NotWritingType DEF IngestorInv, IngestorTypes, Writes, Balance
<1>1. /\ Stored(outs) /\ writing' = [writing EXCEPT ![t] = NotWriting]
      /\ UNCHANGED <<batch, ingestedTotal, errorTotal, deadLetter, storeFaults,
                     received, refused, lost>>
  BY DEF PutMany
<1>2. /\ records' \in Seq(Outs) /\ Kept' = Kept \cup Ids(outs)
      /\ \A e : Times(e)' <= Times(e) + (IF e \in Ids(outs) THEN 1 ELSE 0)
      /\ \A e : Times(e)' \in Nat
  BY <1>0, <1>1, StoredEffect
<1>3. /\ writing' \in [Threads -> Writes]
      /\ \A u \in Threads : writing'[u].attempt = 0 => writing'[u].batch = <<>>
  BY <1>0, <1>1, WritesKept
<1>4. IngestorTypes'
  BY <1>0, <1>1, <1>2, <1>3 DEF IngestorTypes
<1>5. Gone' = Gone /\ Len(deadLetter') <= DeadLetterMax
      /\ errorTotal' = Cardinality(refused') + Len(deadLetter') + Cardinality(lost')
  BY <1>0, <1>1 DEF Gone, Balance
<1>6. /\ Kept \subseteq Kept' /\ Kept' \subseteq Kept \cup Ids(outs)
      /\ Gone \subseteq Gone' /\ Gone' \subseteq Gone \cup Ids(outs)
      /\ Ids(outs) \subseteq Kept' \cup Gone'
  BY <1>2, <1>5
<1>7. storeFaults <= storeFaults' /\ writing[t].attempt <= storeFaults' + 1
  BY <1>0, <1>1 DEF IngestorTypes, OnceInv
<1> QED
  BY <1>1, <1>2, <1>4, <1>5, <1>6, <1>7, WriteEnds

(* The store keeps a part of the batch and raises (_write).                *)
LEMMA PutManyRaisesKeeps ==
  ASSUME IngestorInv, OnceInv, NEW t \in Threads, PutManyRaises(t)
  PROVE  IngestorInv' /\ OnceInv'
<1> DEFINE outs == writing[t].batch
<1>0. /\ IngestorTypes /\ Balance(t) /\ outs \in Seq(Outs) /\ Distinct(outs)
      /\ NotWriting \in Writes /\ NotWriting.batch = <<>> /\ NotWriting.attempt = 0
      /\ records \in Seq(Outs) /\ storeFaults \in Nat /\ writing[t].attempt \in 0..Attempts
  BY BalanceHolds, NotWritingType DEF IngestorInv, IngestorTypes, Writes, Balance
<1>1. PICK n \in 0..Len(outs) : Stored(SubSeq(outs, 1, n))
  BY DEF PutManyRaises
<1> DEFINE part == SubSeq(outs, 1, n)
<1>2. /\ writing[t] # NotWriting /\ storeFaults' = storeFaults + 1
      /\ UNCHANGED <<batch, ingestedTotal, received, refused>>
  BY DEF PutManyRaises
<1>3. part \in Seq(Outs) /\ Distinct(part) /\ Ids(part) \subseteq Ids(outs)
  <2>1. 1 \in Nat /\ n \in Nat /\ n <= Len(outs) /\ 1 <= 1
    BY <1>0
  <2> HIDE DEF outs
  <2> QED
    BY <1>0, <2>1, PartOf
<1> HIDE DEF part
<1>4. /\ records' \in Seq(Outs) /\ Kept' = Kept \cup Ids(part)
      /\ \A e : Times(e)' <= Times(e) + (IF e \in Ids(part) THEN 1 ELSE 0)
      /\ \A e : Times(e)' \in Nat
  BY <1>0, <1>1, <1>3, StoredEffect DEF part
<1>5. /\ writing[t].attempt <= storeFaults + 1
      /\ \A e : Times(e) \in Nat
      /\ \A e : Times(e)' <= Times(e) + (IF e \in Ids(outs) THEN 1 ELSE 0)
  <2>1. \A e : Times(e) \in Nat
    BY <1>0, PlacesOf DEF Times
  <2>2. ASSUME NEW e PROVE Times(e)' <= Times(e) + (IF e \in Ids(outs) THEN 1 ELSE 0)
    BY <1>3, <1>4, <2>1
  <2> QED
    BY <2>1, <2>2 DEF OnceInv
<1>6. CASE ~Exhausted(t)
  <2> DEFINE w == [writing[t] EXCEPT !.attempt = @ + 1]
  <2>1. /\ writing' = [writing EXCEPT ![t] = w]
        /\ UNCHANGED <<deadLetter, errorTotal, lost>>
    BY <1>6 DEF PutManyRaises
  <2>2. /\ w \in Writes /\ w.batch = outs /\ w.attempt = writing[t].attempt + 1
        /\ w.attempt # 0
    <3>1. /\ writing[t] \in [batch : Seq(Outs), attempt : 0..Attempts]
          /\ Attempts \in Nat /\ writing[t].attempt \in Nat
          /\ writing[t].attempt + 1 \in 0..Attempts
      BY <1>0, <1>6, IngestorSizes DEF IngestorTypes, Writes, Exhausted
    <3>2. w = [batch |-> outs, attempt |-> writing[t].attempt + 1]
      BY <3>1
    <3> QED
      BY <1>0, <3>1, <3>2 DEF Writes
  <2> HIDE DEF w
  <2>3. /\ writing' \in [Threads -> Writes]
        /\ \A u \in Threads : writing'[u].attempt = 0 => writing'[u].batch = <<>>
        /\ writing'[t] = w
        /\ \A u \in Threads : u # t => writing'[u] = writing[u]
    BY <1>0, <2>1, <2>2, WritesKept
  <2>4. IngestorTypes'
    BY <1>0, <1>2, <1>4, <2>1, <2>3 DEF IngestorTypes
  <2>5. Others(t)' = Others(t) /\ Gone' = Gone
    BY <2>1, <2>3 DEF Others, Gone
  <2>6. Balance(t)'
    <3>1. Ids(batch) \cap Kept' = {} /\ Kept' \subseteq Kept \cup Ids(outs) /\ Kept \subseteq Kept'
      BY <1>0, <1>3, <1>4 DEF Balance
    <3> QED
      BY <1>0, <1>2, <2>1, <2>2, <2>3, <2>5, <3>1 DEF Balance
  <2>7. OnceInv'
    <3>1. ASSUME NEW u \in Threads
          PROVE  /\ writing'[u].attempt <= storeFaults' + 1
                 /\ \A e \in Ids(writing'[u].batch) : Times(e)' < writing'[u].attempt
      <4>1. CASE u = t
        <5>1. \A e \in Ids(outs) : Times(e) < writing[t].attempt /\ Times(e)' <= Times(e) + 1
          BY <1>5 DEF OnceInv
        <5> QED
          BY <1>0, <1>2, <1>4, <1>5, <2>2, <2>3, <4>1, <5>1
      <4>2. CASE u # t
        <5>1. Ids(writing[u].batch) \cap Ids(outs) = {}
          BY <4>2, Sizes DEF IngestorInv, EventsAccounted
        <5>2. writing[u].attempt \in Nat /\ writing'[u] = writing[u]
          BY <1>0, <2>3, <4>2, IngestorSizes DEF IngestorTypes, Writes
        <5>3. writing[u].attempt <= storeFaults + 1
          BY DEF OnceInv
        <5>4. \A e \in Ids(writing[u].batch) : Times(e)' <= Times(e) /\ Times(e) < writing[u].attempt
          BY <1>5, <5>1 DEF OnceInv
        <5> QED
          BY <1>0, <1>2, <1>4, <1>5, <5>2, <5>3, <5>4
      <4> QED
        BY <4>1, <4>2
    <3>2. ASSUME NEW e \in EventIds
          PROVE  Times(e)' <= 1 + storeFaults' /\ Times(e)' <= Attempts
      <4>1. CASE e \in Ids(outs)
        <5>1. Times(e)' <= Times(e) + 1 /\ Times(e) < writing[t].attempt
          BY <1>5, <4>1 DEF OnceInv
        <5> QED
          BY <1>0, <1>2, <1>4, <1>5, <5>1, IngestorSizes
      <4>2. CASE e \notin Ids(outs)
        <5>1. Times(e)' <= Times(e) /\ Times(e) <= 1 + storeFaults /\ Times(e) <= Attempts
          BY <1>5, <4>2 DEF OnceInv
        <5> QED
          BY <1>0, <1>2, <1>4, <1>5, <5>1, IngestorSizes
      <4> QED
        BY <4>1, <4>2
    <3> QED
      BY <3>1, <3>2 DEF OnceInv
  <2> QED
    BY <2>3, <2>4, <2>6, <2>7, BalanceKept
<1>7. CASE Exhausted(t)
  <2>1. writing' = [writing EXCEPT ![t] = NotWriting] /\ Buried(outs)
    BY <1>7 DEF PutManyRaises
  <2>2. Len(deadLetter) <= DeadLetterMax /\ Ids(outs) \cap lost = {}
    BY <1>0 DEF Balance, Gone
  <2>3. /\ deadLetter' \in Seq(Outs) /\ Len(deadLetter') <= DeadLetterMax
        /\ errorTotal' \in Nat /\ IsFiniteSet(lost')
        /\ Ids(deadLetter') \cup lost' = Ids(deadLetter) \cup lost \cup Ids(outs)
        /\ Len(deadLetter') + Cardinality(lost')
             = Len(deadLetter) + Cardinality(lost) + Len(outs)
    <3> HIDE DEF outs
    <3> QED
      BY <1>0, <2>1, <2>2, BuriedEffect
  <2>4. /\ writing' \in [Threads -> Writes]
        /\ \A u \in Threads : writing'[u].attempt = 0 => writing'[u].batch = <<>>
    BY <1>0, <2>1, WritesKept
  <2>5. IngestorTypes'
    BY <1>0, <1>2, <1>4, <2>3, <2>4 DEF IngestorTypes
  <2>6. errorTotal' = Cardinality(refused') + Len(deadLetter') + Cardinality(lost')
    <3>1. /\ Cardinality(lost) \in Nat /\ Cardinality(lost') \in Nat
          /\ Cardinality(refused) \in Nat /\ Len(deadLetter) \in Nat /\ Len(deadLetter') \in Nat
      BY <1>0, <2>3, FS_CardinalityType, FS_Subset DEF IngestorTypes
    <3>2. errorTotal = Cardinality(refused) + Len(deadLetter) + Cardinality(lost)
          /\ refused' = refused /\ errorTotal \in Nat
      BY <1>0, <1>2 DEF Balance, IngestorTypes
    <3>3. errorTotal' = errorTotal + Len(outs)
      BY <2>1 DEF Buried
    <3>4. /\ Len(outs) \in Nat
          /\ Len(deadLetter') + Cardinality(lost') = Len(deadLetter) + Cardinality(lost) + Len(outs)
      BY <1>0, <2>3
    <3>5. PICK a \in Nat, b \in Nat, c \in Nat, n1 \in Nat, b1 \in Nat, c1 \in Nat :
             /\ a = Cardinality(refused) /\ n1 = Len(outs)
             /\ b = Len(deadLetter) /\ c = Cardinality(lost)
             /\ b1 = Len(deadLetter') /\ c1 = Cardinality(lost')
      BY <3>1, <3>4
    <3>6. b1 + c1 = b + c + n1
      BY <3>4, <3>5
    <3>7. a + b + c + n1 = a + b1 + c1
      BY <3>6
    <3>8. errorTotal' = (a + b + c) + n1
      BY <3>2, <3>3, <3>5, Zenon
    <3>9. errorTotal' = a + b1 + c1
      BY <3>7, <3>8, Zenon
    <3> QED
      BY <3>2, <3>5, <3>9, Zenon
  <2>7. /\ Kept \subseteq Kept' /\ Kept' \subseteq Kept \cup Ids(outs)
        /\ Gone \subseteq Gone' /\ Gone' \subseteq Gone \cup Ids(outs)
        /\ Ids(outs) \subseteq Kept' \cup Gone'
    BY <1>3, <1>4, <2>3 DEF Gone
  <2>8. storeFaults <= storeFaults' /\ writing[t].attempt <= storeFaults' + 1
    BY <1>0, <1>2, <1>5
  <2> QED
    BY <1>2, <1>4, <1>5, <2>1, <2>3, <2>5, <2>6, <2>7, <2>8, WriteEnds
<1> QED
  BY <1>6, <1>7

(* What a step of the pipeline is to the ingestor. *)
LEMMA StepOfIngestor ==
  ASSUME IInv, [Next]_vars
  PROVE  \/ \E t \in Threads, e \in EventIds : Ingest(t, e)
         \/ \E t \in Threads : Flush(t) \/ PutMany(t) \/ PutManyRaises(t)
         \/ UNCHANGED ivars
<1>1. ASSUME NEW t \in Threads, OnEvent(t)
      PROVE  \E e \in EventIds : Ingest(t, e)
  <2>1. emitting[t].event \in EmitTuples /\ emitting[t].event # <<>>
    BY <1>1 DEF OnEvent, Calling, IInv, EmitterInv, EmitterTypes, Emits, Handover
  <2>2. PICK e \in EventIds : emitting[t].event = <<e>>
    BY <2>1 DEF EmitTuples
  <2>3. emitting[t].event[1] = e
    BY <2>2
  <2> QED
    BY <1>1, <2>3 DEF OnEvent
<1>2. ASSUME NEW t \in Threads, EmitStep(t)
      PROVE  \/ \E e \in EventIds : Ingest(t, e)
             \/ PutMany(t) \/ PutManyRaises(t)
             \/ UNCHANGED ivars
  BY <1>1, <1>2 DEF EmitStep, OnEventWrites, OnOtherEvent, OtherCallback
<1> QED
  BY <1>2 DEF Next, Emit, FlusherWrites, vars

(* Nothing is ingested, stored or given up.                                *)
LEMMA IngestorRests ==
  ASSUME IngestorInv, OnceInv, UNCHANGED ivars
  PROVE  IngestorInv' /\ OnceInv'
<1>1. UNCHANGED <<batch, ingestedTotal, errorTotal, deadLetter, records, writing,
                  storeFaults, received, refused, lost, evicted>>
  BY DEF ivars
<1>2. IngestorTypes' /\ Unwritten'
  BY <1>1 DEF IngestorInv, IngestorTypes, Unwritten
<1>4. InFlight' = InFlight
  BY <1>1 DEF InFlight
<1>5. EventsAccounted'
  BY <1>1, <1>4, Zenon DEF IngestorInv, EventsAccounted
<1>3. OnceInv'
  BY <1>1 DEF OnceInv, Times
<1> QED
  BY <1>2, <1>3, <1>5 DEF IngestorInv

(* The accounts of the ingestor hold in every reachable state.             *)
LEMMA IngestorInvariance == Spec => [](IngestorInv /\ OnceInv)
<1>1. ASSUME Init PROVE IngestorInv /\ OnceInv
  <2>0. /\ batch = <<>> /\ deadLetter = <<>> /\ records = <<>>
        /\ ingestedTotal = 0 /\ errorTotal = 0 /\ storeFaults = 0
        /\ writing = [t \in Threads |-> NotWriting]
        /\ received = {} /\ refused = {} /\ lost = {} /\ evicted = {}
    BY <1>1, Sizes DEF Init, IngestorInit
  <2>1. IngestorTypes
    BY <2>0, NotWritingType, FS_EmptySet DEF IngestorTypes
  <2>2. Ids(<<>>) = {} /\ Distinct(<<>>) /\ Cardinality({}) = 0 /\ IsFiniteSet({}) /\ Len(<<>>) = 0
    BY IdsOf, FS_EmptySet DEF Distinct
  <2>3. \A t \in Threads : writing[t].batch = <<>> /\ writing[t].attempt = 0
    BY <2>0, NotWritingType
  <2>4. Unwritten
    BY <2>0, <2>2, <2>3 DEF Unwritten
  <2>5. InFlight = {}
    BY <2>2, <2>3, Sizes DEF InFlight
  <2>6. EventsAccounted
    BY <2>0, <2>2, <2>3, <2>5, Sizes, IngestorSizes DEF EventsAccounted
  <2>7. ASSUME NEW e PROVE Times(e) = 0
    <3>1. records \in Seq(Outs) /\ e \notin Ids(records)
      BY <2>0, <2>2
    <3> QED
      BY <3>1, PlacesOf DEF Times
  <2>8. OnceInv
    BY <2>0, <2>2, <2>3, <2>7, IngestorSizes DEF OnceInv
  <2> QED
    BY <2>1, <2>4, <2>6, <2>8 DEF IngestorInv
<1>2. ASSUME IInv, IngestorInv, OnceInv, [Next]_vars PROVE IngestorInv' /\ OnceInv'
  BY <1>2, StepOfIngestor, IngestKeeps, FlushKeepsInv, PutManyKeeps, PutManyRaisesKeeps,
     IngestorRests
<1> QED
  BY <1>1, <1>2, Invariance, PTL DEF Spec

(* Whatever threads do and the store refuses, every event that was         *)
(* converted is in one place or counted, the totals are those of the       *)
(* events and the dead letter keeps to its limit (ingest, flush, _write).  *)
THEOREM PipelineEventsAccounted == Spec => []EventsAccounted
<1>1. IngestorInv => EventsAccounted
  BY DEF IngestorInv
<1> QED
  BY <1>1, IngestorInvariance, PTL

(* The store holds an event once, and once more for each failed attempt    *)
(* that can have stored it, up to the number of attempts (_write).         *)
THEOREM PipelineStoredOncePerAttempt == Spec => []StoredOncePerAttempt
<1>1. ASSUME IngestorInv, OnceInv PROVE StoredOncePerAttempt
  <2> SUFFICES ASSUME NEW e \in EventIds
               PROVE  Times(e) <= 1 + Min({storeFaults, Attempts - 1})
    BY DEF StoredOncePerAttempt, Times, Positions
  <2>1. storeFaults \in Int /\ Attempts - 1 \in Int /\ Times(e) \in Nat
    BY <1>1, IngestorSizes, PlacesOf DEF IngestorInv, IngestorTypes, Times
  <2>2. Min({storeFaults, Attempts - 1})
          = IF storeFaults <= Attempts - 1 THEN storeFaults ELSE Attempts - 1
    BY <2>1, OfTwo
  <2>3. Times(e) <= 1 + storeFaults /\ Times(e) <= Attempts
    BY <1>1 DEF OnceInv
  <2> DEFINE m == Min({storeFaults, Attempts - 1})
             k == Times(e)
  <2>4. m = IF storeFaults <= Attempts - 1 THEN storeFaults ELSE Attempts - 1
    BY <2>2
  <2>5. k \in Nat /\ k <= 1 + storeFaults /\ k <= Attempts
    BY <2>1, <2>3
  <2> HIDE DEF m, k
  <2>6. k <= 1 + m
    BY <2>1, <2>4, <2>5, IngestorSizes
  <2> QED
    BY <2>6 DEF m, k
<1> QED
  BY <1>1, IngestorInvariance, PTL

-----------------------------------------------------------------------------
(* What is replayed.  Induction is over sets of naturals, as it is derived  *)
(* from the well-foundedness of < on Nat.                                   *)

(* Every nonempty set of naturals has a least element. *)
LEMMA LeastNatural ==
  ASSUME NEW T \in SUBSET Nat, T # {}
  PROVE  \E m \in T : \A n \in T : m <= n
<1> DEFINE R == {p \in Nat \X Nat : p[1] < p[2]}
<1>1. IsWellFoundedOn(R, Nat)
  BY NatLessThanWellFounded, Zenon DEF OpToRel
<1> HIDE DEF R
<1>2. PICK m \in T : \A n \in T : <<n, m>> \notin R
  BY <1>1, WFMin, Zenon
<1>3. \A n \in T : ~(n < m)
  BY <1>2 DEF R
<1> QED BY <1>3

(* Induction: a set of naturals that holds 0 and is closed under successor *)
(* is all of Nat.                                                          *)
LEMMA SetInduction ==
  ASSUME NEW S \in SUBSET Nat, 0 \in S, \A n \in S : n + 1 \in S
  PROVE  S = Nat
<1> SUFFICES ASSUME Nat \ S # {} PROVE FALSE
  OBVIOUS
<1>1. PICK m \in Nat \ S : \A n \in Nat \ S : m <= n
  BY LeastNatural
<1>2. m # 0 /\ m - 1 \in Nat
  BY <1>1
<1>3. m - 1 \in S
  BY <1>1, <1>2
<1> QED BY <1>1, <1>3

(* g starts with v and takes the steps of F. *)
Iteration(g, n, V, v, F) ==
  g \in [0..n -> V] /\ g[0] = v /\ \A i \in 1..n : g[i] = F[i][g[i - 1]]

(* A function of 0..n that is computed step by step exists. *)
LEMMA Iterates ==
  ASSUME NEW n \in Nat, NEW V, NEW v \in V, NEW F \in [1..n -> [V -> V]]
  PROVE  \E g : Iteration(g, n, V, v, F)
<1> DEFINE Steps(m, g) == g \in [0..m -> V] /\ g[0] = v /\ \A i \in 1..m : g[i] = F[i][g[i - 1]]
           S == {m \in Nat : m <= n => \E g : Steps(m, g)}
<1>1. 0 \in S
  <2> DEFINE z == [i \in 0..0 |-> v]
  <2>1. z \in [0..0 -> V] /\ z[0] = v /\ 1..0 = {}
    OBVIOUS
  <2>2. Steps(0, z)
    BY <2>1
  <2> QED BY <2>2
<1>2. ASSUME NEW m \in S PROVE m + 1 \in S
  <2> HIDE DEF Steps
  <2> SUFFICES ASSUME m + 1 <= n PROVE \E g : Steps(m + 1, g)
    OBVIOUS
  <2>1. PICK g : Steps(m, g)
    OBVIOUS
  <2> USE DEF Steps
  <2> DEFINE h == [i \in 0..(m + 1) |-> IF i = m + 1 THEN F[m + 1][g[m]] ELSE g[i]]
  <2>2. F[m + 1][g[m]] \in V
    <3>1. m + 1 \in 1..n /\ g[m] \in V
      BY <2>1
    <3> QED BY <3>1
  <2>3. h \in [0..(m + 1) -> V]
    BY <2>1, <2>2
  <2>4. \A i \in 1..(m + 1) : h[i] = F[i][h[i - 1]]
    <3> SUFFICES ASSUME NEW i \in 1..(m + 1) PROVE h[i] = F[i][h[i - 1]]
      OBVIOUS
    <3>1. CASE i = m + 1
      BY <3>1
    <3>2. CASE i # m + 1
      <4>1. i \in 1..m /\ i - 1 \in 0..m /\ i - 1 # m + 1
        BY <3>2
      <4>2. h[i] = g[i] /\ h[i - 1] = g[i - 1]
        BY <4>1
      <4> QED BY <4>1, <4>2, <2>1
    <3> QED BY <3>1, <3>2
  <2>5. h[0] = v
    BY <2>1
  <2>6. Steps(m + 1, h)
    BY <2>3, <2>4, <2>5
  <2> QED BY <2>6
<1>3. S = Nat
  <2> HIDE DEF S
  <2>1. S \in SUBSET Nat
    BY DEF S
  <2> QED BY <1>1, <1>2, <2>1, SetInduction
<1>4. n \in S
  BY <1>3
<1>5. \E g : Steps(n, g)
  <2> HIDE DEF Steps
  <2> QED BY <1>4
<1> QED BY <1>5 DEF Iteration

(* Values that stay in a set at each step of 1..n are in it. *)
LEMMA StaysIn ==
  ASSUME NEW n \in Nat, NEW V, NEW g, g[0] \in V,
         \A i \in 1..n : g[i - 1] \in V => g[i] \in V
  PROVE  \A i \in 0..n : g[i] \in V
<1> DEFINE S == {m \in Nat : m <= n => g[m] \in V}
<1>1. 0 \in S
  OBVIOUS
<1>2. ASSUME NEW m \in S PROVE m + 1 \in S
  <2> SUFFICES ASSUME m + 1 <= n PROVE g[m + 1] \in V
    OBVIOUS
  <2>1. m + 1 \in 1..n /\ (m + 1) - 1 = m /\ g[m] \in V
    OBVIOUS
  <2> QED BY <2>1
<1>3. S = Nat
  <2> HIDE DEF S
  <2>1. S \in SUBSET Nat
    BY DEF S
  <2> QED BY <1>1, <1>2, <2>1, SetInduction
<1> HIDE DEF S
<1>4. ASSUME NEW i \in 0..n PROVE g[i] \in V
  <2>1. i \in S
    BY <1>3
  <2> QED BY <2>1 DEF S
<1> QED BY <1>4

(* What is wanted of a store is some of its events (replay).               *)
LEMMA WantedType ==
  ASSUME NEW S, NEW store \in Seq(S), NEW chain, NEW from, NEW to
  PROVE  Wanted(store, chain, from, to) \in Seq(S)
<1> DEFINE n == Len(store)
           next(i, v) == Picked(v, store[i], chain, from, to)
           Solves(u) == u = [i \in 0..n |-> IF i = 0 THEN <<>> ELSE next(i, u[i - 1])]
           F == [i \in 1..n |-> [v \in Seq(S) |-> next(i, v)]]
<1>1. n \in Nat /\ <<>> \in Seq(S) /\ \A i \in 1..n : store[i] \in S
  OBVIOUS
<1>2. \A i \in 1..n, v \in Seq(S) : next(i, v) \in Seq(S)
  BY <1>1 DEF Picked
<1>3. Wanted(store, chain, from, to) = (CHOOSE u : Solves(u))[n]
  BY DEF Wanted
<1> HIDE DEF n, next
<1>4. F \in [1..n -> [Seq(S) -> Seq(S)]]
  BY <1>2
<1> HIDE DEF F
<1>5. PICK g : Iteration(g, n, Seq(S), <<>>, F)
  BY <1>1, <1>4, Iterates
<1>6. \A i \in 1..n : g[i] = next(i, g[i - 1])
  <2>1. \A i \in 1..n : g[i] = F[i][g[i - 1]] /\ g[i - 1] \in Seq(S)
    BY <1>1, <1>5 DEF Iteration
  <2>2. \A i \in 1..n : \A v \in Seq(S) : F[i][v] = next(i, v)
    BY DEF F
  <2> QED BY <2>1, <2>2, Zenon
<1>7. Solves(g)
  <2>1. \A i \in 0..n : g[i] = IF i = 0 THEN <<>> ELSE next(i, g[i - 1])
    BY <1>1, <1>5, <1>6 DEF Iteration
  <2> QED BY <2>1, <1>5 DEF Iteration
<1> DEFINE u == CHOOSE x : Solves(x)
<1>8. Solves(u)
  BY <1>7
<1> HIDE DEF u
<1>9. u[0] \in Seq(S) /\ \A i \in 1..n : u[i - 1] \in Seq(S) => u[i] \in Seq(S)
  <2>1. u[0] = <<>> /\ \A i \in 1..n : u[i] = next(i, u[i - 1])
    BY <1>1, <1>8
  <2> QED BY <1>1, <1>2, <2>1
<1>10. \A i \in 0..n : u[i] \in Seq(S)
  BY <1>1, <1>9, StaysIn
<1>11. u[n] \in Seq(S)
  BY <1>1, <1>10
<1> QED BY <1>3, <1>11 DEF u

(* What a set of events costs, and the fold it is. *)
CostOf(T) == FoldSet(LAMBDA f, sum : f.cost + sum, 0, T)
AnyOf(s) == CHOOSE x \in s : TRUE
IsFold(g, T) ==
  g = [s \in SUBSET T |-> IF s = {} THEN 0 ELSE AnyOf(s).cost + g[s \ {AnyOf(s)}]]

(* The definition of the fold, opened. *)
LEMMA CostIsFold == ASSUME NEW T PROVE CostOf(T) = (CHOOSE g : IsFold(g, T))[T]
BY Zenon DEF CostOf, FoldSet, MapThenFoldSet, IsFold, AnyOf

(* A finite set without the element that was chosen is smaller. *)
LEMMA OneLess ==
  ASSUME NEW s, IsFiniteSet(s), NEW x \in s
  PROVE  /\ IsFiniteSet(s \ {x}) /\ Cardinality(s) \in Nat \ {0}
         /\ Cardinality(s \ {x}) = Cardinality(s) - 1 /\ Cardinality(s \ {x}) \in Nat
<1>1. Cardinality(s) \in Nat /\ Cardinality(s) # 0
  BY FS_CardinalityType, FS_EmptySet
<1>2. IsFiniteSet(s \ {x}) /\ Cardinality(s \ {x}) = Cardinality(s) - 1
  BY FS_RemoveElement
<1> QED BY <1>1, <1>2

(* A fold of a finite set exists: it is built for sets of more and more    *)
(* elements.                                                               *)
LEMMA FoldExists ==
  ASSUME NEW T, IsFiniteSet(T), \A x \in T : x.cost \in Int
  PROVE  \E g : IsFold(g, T)
<1> DEFINE Sub(m) == {s \in SUBSET T : Cardinality(s) <= m}
           Of(g, s) == IF s = {} THEN 0 ELSE AnyOf(s).cost + g[s \ {AnyOf(s)}]
           Part(m, g) == g \in [Sub(m) -> Int] /\ \A s \in Sub(m) : g[s] = Of(g, s)
           S == {m \in Nat : \E g : Part(m, g)}
<1>1. ASSUME NEW s \in SUBSET T
      PROVE  IsFiniteSet(s) /\ Cardinality(s) \in Nat /\ (Cardinality(s) = 0 <=> s = {})
  BY FS_Subset, FS_CardinalityType, FS_EmptySet
<1>2. ASSUME NEW s \in SUBSET T, s # {}
      PROVE  /\ AnyOf(s) \in s /\ AnyOf(s).cost \in Int /\ s \ {AnyOf(s)} \in SUBSET T
             /\ Cardinality(s \ {AnyOf(s)}) = Cardinality(s) - 1
  <2>1. AnyOf(s) \in s
    BY <1>2 DEF AnyOf
  <2>2. Cardinality(s \ {AnyOf(s)}) = Cardinality(s) - 1
    BY <1>1, <2>1, OneLess
  <2> QED BY <2>1, <2>2
<1>3. 0 \in S
  <2> DEFINE z == [s \in Sub(0) |-> 0]
  <2>1. \A s \in Sub(0) : s = {}
    BY <1>1
  <2>2. Part(0, z)
    BY <2>1
  <2> HIDE DEF Part
  <2> QED BY <2>2
<1>4. ASSUME NEW m \in S PROVE m + 1 \in S
  <2> HIDE DEF Part
  <2>1. PICK g : Part(m, g)
    OBVIOUS
  <2> USE DEF Part
  <2> DEFINE h == [s \in Sub(m + 1) |-> IF s \in Sub(m) THEN g[s] ELSE Of(g, s)]
  <2>2. ASSUME NEW s \in Sub(m + 1), s # {}
        PROVE  s \ {AnyOf(s)} \in Sub(m) /\ AnyOf(s).cost \in Int
    BY <1>1, <1>2, <2>2
  <2>3. ASSUME NEW s \in Sub(m + 1)
        PROVE  Of(g, s) \in Int /\ h[s] = Of(g, s) /\ Of(h, s) = Of(g, s)
    <3>1. CASE s = {}
      <4>1. s \in Sub(m)
        BY <1>1, <3>1
      <4> QED BY <2>1, <3>1, <4>1
    <3>2. CASE s # {}
      <4> DEFINE r == s \ {AnyOf(s)}
      <4>1. r \in Sub(m) /\ r \in Sub(m + 1) /\ AnyOf(s).cost \in Int
        BY <1>1, <2>2, <3>2
      <4>2. g[r] \in Int /\ h[r] = g[r]
        BY <2>1, <4>1
      <4>3. Of(g, s) = AnyOf(s).cost + g[r] /\ Of(h, s) = AnyOf(s).cost + h[r]
        BY <3>2
      <4>4. s \in Sub(m) => g[s] = Of(g, s)
        BY <2>1
      <4> QED BY <4>1, <4>2, <4>3, <4>4
    <3> QED BY <3>1, <3>2
  <2>4. Part(m + 1, h)
    <3> HIDE DEF Of
    <3>1. h \in [Sub(m + 1) -> Int]
      <4>1. \A s \in Sub(m + 1) : h[s] \in Int
        BY <2>3
      <4> HIDE DEF Sub
      <4> QED BY <4>1
    <3> QED BY <2>3, <3>1
  <2> HIDE DEF Part
  <2> QED BY <2>4
<1>5. S = Nat
  <2> HIDE DEF S
  <2>1. S \in SUBSET Nat
    BY DEF S
  <2> QED BY <1>3, <1>4, <2>1, SetInduction
<1>6. PICK g : Part(Cardinality(T), g)
  <2> HIDE DEF Part
  <2>1. Cardinality(T) \in S
    BY <1>5, FS_CardinalityType
  <2> QED BY <2>1
<1>7. Sub(Cardinality(T)) = SUBSET T
  BY FS_Subset
<1>8. g \in [SUBSET T -> Int] /\ \A s \in SUBSET T : g[s] = Of(g, s)
  BY <1>6, <1>7
<1>9. g = [s \in SUBSET T |-> Of(g, s)]
  <2> HIDE DEF Of
  <2> QED BY <1>8
<1> QED BY <1>9 DEF IsFold

(* A fold does not depend on what is chosen first: any element may be      *)
(* taken out of the set.                                                   *)
LEMMA FoldTakesAny ==
  ASSUME NEW T, IsFiniteSet(T), \A x \in T : x.cost \in Int, NEW g, IsFold(g, T)
  PROVE  /\ g[{}] = 0
         /\ \A s \in SUBSET T : g[s] \in Int /\ \A x \in s : g[s] = x.cost + g[s \ {x}]
<1> DEFINE Free(s) == g[s] \in Int /\ \A x \in s : g[s] = x.cost + g[s \ {x}]
           S == {m \in Nat : \A s \in SUBSET T : Cardinality(s) <= m => Free(s)}
<1>1. ASSUME NEW s \in SUBSET T
      PROVE  IsFiniteSet(s) /\ Cardinality(s) \in Nat /\ (Cardinality(s) = 0 <=> s = {})
  BY FS_Subset, FS_CardinalityType, FS_EmptySet
<1>2. g[{}] = 0
  <2>1. {} \in SUBSET T
    OBVIOUS
  <2> QED BY <2>1 DEF IsFold
<1>3. ASSUME NEW s \in SUBSET T, s # {}
      PROVE  AnyOf(s) \in s /\ g[s] = AnyOf(s).cost + g[s \ {AnyOf(s)}]
  <2>1. AnyOf(s) \in s
    BY <1>3 DEF AnyOf
  <2> QED BY <1>3, <2>1 DEF IsFold
<1>4. Free({})
  BY <1>2
<1>5. 0 \in S
  <2> HIDE DEF Free
  <2> SUFFICES ASSUME NEW s \in SUBSET T, Cardinality(s) <= 0 PROVE Free(s)
    OBVIOUS
  <2>1. s = {}
    BY <1>1
  <2> QED BY <1>4, <2>1
<1>6. ASSUME NEW m \in S PROVE m + 1 \in S
  <2> HIDE DEF Free
  <2> SUFFICES ASSUME NEW s \in SUBSET T, Cardinality(s) <= m + 1, s # {} PROVE Free(s)
    BY <1>4
  <2> DEFINE c == AnyOf(s)
  <2>1. c \in s /\ c \in T /\ c.cost \in Int /\ g[s] = c.cost + g[s \ {c}]
    BY <1>3
  <2> HIDE DEF c
  <2>2. ASSUME NEW r \in SUBSET T, NEW x \in r, Cardinality(r) <= m + 1
        PROVE  r \ {x} \in SUBSET T /\ Cardinality(r \ {x}) <= m
    BY <1>1, <2>2, OneLess
  <2>3. ASSUME NEW r \in SUBSET T, NEW x \in r, Cardinality(r) <= m + 1
        PROVE  Free(r \ {x})
    BY <2>2, <2>3
  <2>4. ASSUME NEW r \in SUBSET T, NEW x \in r, Cardinality(r) <= m + 1
        PROVE  /\ g[r \ {x}] \in Int
               /\ \A y \in r \ {x} : g[r \ {x}] = y.cost + g[(r \ {x}) \ {y}]
    BY <2>3, <2>4 DEF Free
  <2>5. g[s] \in Int
    <3>1. g[s \ {c}] \in Int
      BY <2>1, <2>4
    <3>2. PICK p \in Int : p = g[s \ {c}]
      BY <3>1
    <3>3. PICK q \in Int : q = c.cost
      BY <2>1
    <3> QED BY <2>1, <3>2, <3>3
  <2>6. ASSUME NEW x \in s, x # c PROVE g[s] = x.cost + g[s \ {x}]
    <3>1. g[s \ {c}] = x.cost + g[(s \ {c}) \ {x}]
      BY <2>1, <2>4, <2>6
    <3>2. g[s \ {x}] = c.cost + g[(s \ {x}) \ {c}]
      BY <2>1, <2>4, <2>6
    <3>3. (s \ {c}) \ {x} = (s \ {x}) \ {c}
      OBVIOUS
    <3>4. g[(s \ {x}) \ {c}] \in Int
      <4>1. s \ {x} \in SUBSET T /\ Cardinality(s \ {x}) <= m
        BY <2>2
      <4>2. c \in s \ {x} /\ Cardinality(s \ {x}) <= m + 1
        <5>1. Cardinality(s \ {x}) \in Nat
          BY <1>1, <4>1
        <5> QED BY <2>1, <2>6, <4>1, <5>1
      <4> QED BY <2>4, <4>1, <4>2
    <3>5. PICK r \in Int : r = g[(s \ {x}) \ {c}]
      BY <3>4
    <3>6. PICK p \in Int : p = x.cost
      OBVIOUS
    <3>7. PICK q \in Int : q = c.cost
      BY <2>1
    <3>8. g[s \ {c}] = p + r /\ g[s \ {x}] = q + r
      BY <3>1, <3>2, <3>3, <3>5, <3>6, <3>7
    <3>9. g[s] = q + (p + r) /\ x.cost + g[s \ {x}] = p + (q + r)
      BY <2>1, <3>6, <3>7, <3>8
    <3> QED BY <3>9
  <2>7. \A x \in s : g[s] = x.cost + g[s \ {x}]
    BY <2>1, <2>6
  <2> QED BY <2>5, <2>7 DEF Free
<1>7. S = Nat
  <2> HIDE DEF S
  <2>1. S \in SUBSET Nat
    BY DEF S
  <2> QED BY <1>5, <1>6, <2>1, SetInduction
<1>8. ASSUME NEW s \in SUBSET T PROVE Free(s)
  <2>1. Cardinality(s) \in S
    BY <1>1, <1>7
  <2> HIDE DEF Free
  <2> QED BY <1>1, <2>1
<1> QED BY <1>2, <1>8

(* Folds of two sets agree on the subsets of both. *)
LEMMA FoldsAgree ==
  ASSUME NEW U, IsFiniteSet(U), \A x \in U : x.cost \in Int, NEW T \in SUBSET U,
         NEW g, IsFold(g, T), NEW h, IsFold(h, U)
  PROVE  \A s \in SUBSET T : g[s] = h[s]
<1> DEFINE S == {m \in Nat : \A s \in SUBSET T : Cardinality(s) <= m => g[s] = h[s]}
<1>1. /\ IsFiniteSet(T) /\ \A x \in T : x.cost \in Int
      /\ g[{}] = 0 /\ h[{}] = 0
  <2>1. IsFiniteSet(T) /\ \A x \in T : x.cost \in Int
    BY FS_Subset
  <2> QED BY <2>1, FoldTakesAny
<1>2. \A s \in SUBSET U : h[s] \in Int /\ \A x \in s : h[s] = x.cost + h[s \ {x}]
  BY FoldTakesAny
<1>3. ASSUME NEW s \in SUBSET T
      PROVE  IsFiniteSet(s) /\ Cardinality(s) \in Nat /\ (Cardinality(s) = 0 <=> s = {})
  BY <1>1, FS_Subset, FS_CardinalityType, FS_EmptySet
<1>4. 0 \in S
  BY <1>1, <1>3
<1>5. ASSUME NEW m \in S PROVE m + 1 \in S
  <2> SUFFICES ASSUME NEW s \in SUBSET T, Cardinality(s) <= m + 1, s # {}
               PROVE  g[s] = h[s]
    <3>1. \A s \in SUBSET T : s = {} => g[s] = h[s]
      BY <1>1
    <3> QED BY <3>1
  <2>1. PICK x : x \in s
    OBVIOUS
  <2>2. s \ {x} \in SUBSET T /\ Cardinality(s \ {x}) <= m
    BY <1>3, <2>1, OneLess
  <2>3. g[s] = x.cost + g[s \ {x}]
    BY <1>1, <2>1, FoldTakesAny
  <2>4. h[s] = x.cost + h[s \ {x}]
    <3>1. s \in SUBSET U
      OBVIOUS
    <3> QED BY <1>2, <2>1, <3>1
  <2>5. g[s \ {x}] = h[s \ {x}]
    BY <2>2
  <2> QED BY <2>3, <2>4, <2>5
<1>6. S = Nat
  <2> HIDE DEF S
  <2>1. S \in SUBSET Nat
    BY DEF S
  <2> QED BY <1>4, <1>5, <2>1, SetInduction
<1>7. ASSUME NEW s \in SUBSET T PROVE g[s] = h[s]
  <2>1. Cardinality(s) \in S
    BY <1>3, <1>6
  <2> QED BY <1>3, <2>1
<1> QED BY <1>7

(* The cost of a set with one event more. *)
LEMMA CostAdds ==
  ASSUME NEW T, IsFiniteSet(T), NEW x, x \notin T, \A y \in T \cup {x} : y.cost \in Int
  PROVE  CostOf(T) \in Int /\ CostOf(T \cup {x}) = CostOf(T) + x.cost
<1> DEFINE U == T \cup {x}
           g == CHOOSE f : IsFold(f, T)
           h == CHOOSE f : IsFold(f, U)
<1>1. IsFiniteSet(U)
  BY FS_AddElement
<1>2. IsFold(g, T) /\ IsFold(h, U)
  BY <1>1, FoldExists
<1>3. CostOf(T) = g[T] /\ CostOf(U) = h[U]
  BY CostIsFold
<1> HIDE DEF g, h
<1>4. g[T] \in Int
  BY <1>2, FoldTakesAny
<1>5. g[T] = h[T]
  BY <1>1, <1>2, FoldsAgree
<1>6. h[U] = x.cost + h[U \ {x}]
  BY <1>1, <1>2, FoldTakesAny
<1>7. U \ {x} = T
  OBVIOUS
<1>8. PICK p \in Int : p = g[T]
  BY <1>4
<1>9. PICK q \in Int : q = x.cost
  OBVIOUS
<1>10. CostOf(U) = q + p
  BY <1>3, <1>5, <1>6, <1>7, <1>8, <1>9
<1>11. CostOf(T) = p /\ q + p = p + q
  BY <1>3, <1>8
<1> QED BY <1>8, <1>9, <1>10, <1>11

(* Nothing costs nothing. *)
LEMMA CostOfNone == CostOf({}) = 0
<1> DEFINE g == CHOOSE f : IsFold(f, {})
<1>1. IsFiniteSet({})
  BY FS_EmptySet
<1>2. IsFold(g, {})
  BY <1>1, FoldExists
<1>3. CostOf({}) = g[{}]
  BY CostIsFold
<1> HIDE DEF g
<1> QED BY <1>1, <1>2, <1>3, FoldTakesAny

(* What sorting and adding up need to know of events. *)
Typed(S) == \A e \in S : e.time \in Int /\ e.step \in Int /\ e.cost \in Int /\ e.tokens \in Int

(* How many events come before one tells where it is when they are sorted: *)
(* the place is between the first and the last, no two have the same, and  *)
(* each place has an event.                                                *)
LEMMA Places ==
  ASSUME NEW S, Typed(S), NEW w \in Seq(S)
  PROVE  /\ \A i \in 1..Len(w) : /\ Before(w, i) \in SUBSET (1..Len(w))
                                /\ Cardinality(Before(w, i)) \in 0..(Len(w) - 1)
         /\ \A i, j \in 1..Len(w) :
              j \in Before(w, i) <=> Cardinality(Before(w, j)) < Cardinality(Before(w, i))
         /\ \A i, j \in 1..Len(w) :
              Cardinality(Before(w, j)) = Cardinality(Before(w, i)) => i = j
         /\ \A k \in 1..Len(w) : \E i \in 1..Len(w) : Cardinality(Before(w, i)) = k - 1
<1> DEFINE n == Len(w)
           c(i) == Cardinality(Before(w, i))
<1>1. n \in Nat /\ DOMAIN w = 1..n
  OBVIOUS
<1>2. \A i \in 1..n : w[i].time \in Int /\ w[i].step \in Int
  BY DEF Typed
<1> HIDE DEF n
<1>3. IsFiniteSet(1..n) /\ Cardinality(1..n) = n
  BY <1>1, FS_Interval
<1>4. ASSUME NEW i \in 1..n PROVE Before(w, i) \in SUBSET (1..n) /\ i \notin Before(w, i)
  BY <1>1, <1>2 DEF Before
<1>5. ASSUME NEW i \in 1..n, NEW j \in 1..n, i # j
      PROVE  j \in Before(w, i) \/ i \in Before(w, j)
  BY <1>1, <1>2, <1>5 DEF Before
<1>6. ASSUME NEW i \in 1..n, NEW j \in Before(w, i), NEW k \in Before(w, j)
      PROVE  k \in Before(w, i)
  BY <1>1, <1>2, <1>4 DEF Before
<1>7. ASSUME NEW i \in 1..n PROVE IsFiniteSet(Before(w, i)) /\ c(i) \in 0..(n - 1)
  <2>1. IsFiniteSet(Before(w, i)) /\ c(i) \in Nat /\ c(i) <= n
    BY <1>3, <1>4, FS_Subset, FS_CardinalityType
  <2>2. Before(w, i) # 1..n
    BY <1>4
  <2>3. c(i) # n
    BY <1>3, <1>4, <2>2, FS_Subset
  <2> QED BY <1>1, <2>1, <2>3
<1>8. ASSUME NEW i \in 1..n, NEW j \in Before(w, i) PROVE c(j) < c(i)
  <2>1. j \in 1..n
    BY <1>4
  <2>2. Before(w, j) \in SUBSET Before(w, i) /\ Before(w, j) # Before(w, i)
    BY <1>4, <1>6, <2>1
  <2>3. c(j) <= c(i) /\ c(j) # c(i)
    BY <1>7, <2>2, FS_Subset
  <2> QED BY <1>7, <2>1, <2>3
<1>9. ASSUME NEW i \in 1..n, NEW j \in 1..n PROVE j \in Before(w, i) <=> c(j) < c(i)
  <2>1. CASE i = j
    BY <1>4, <1>7, <2>1
  <2>2. CASE i # j
    <3>1. i \in Before(w, j) => c(i) < c(j)
      BY <1>8
    <3>2. j \in Before(w, i) => c(j) < c(i)
      BY <1>8
    <3>3. c(i) \in Nat /\ c(j) \in Nat
      BY <1>7
    <3> HIDE DEF c
    <3> QED BY <1>5, <2>2, <3>1, <3>2, <3>3
  <2> QED BY <2>1, <2>2
<1>10. ASSUME NEW i \in 1..n, NEW j \in 1..n, c(j) = c(i) PROVE i = j
  <2>1. c(i) \in Nat
    BY <1>7
  <2>2. j \notin Before(w, i) /\ i \notin Before(w, j)
    BY <1>9, <1>10, <2>1
  <2> QED BY <1>5, <2>2
<1>11. ASSUME NEW k \in 1..n PROVE \E i \in 1..n : c(i) = k - 1
  <2> DEFINE f == [i \in 1..n |-> c(i) + 1]
  <2>1. f \in [1..n -> 1..n]
    BY <1>1, <1>7
  <2>2. \A i, j \in 1..n : f[i] = f[j] => i = j
    <3> SUFFICES ASSUME NEW i \in 1..n, NEW j \in 1..n, f[i] = f[j] PROVE i = j
      OBVIOUS
    <3>1. c(i) \in Nat /\ c(j) \in Nat
      BY <1>7
    <3>2. c(i) + 1 = c(j) + 1
      OBVIOUS
    <3> QED BY <1>10, <3>1, <3>2
  <2>3. f \in Injection(1..n, 1..n)
    <3> HIDE DEF f
    <3> QED BY <2>1, <2>2 DEF Injection, IsInjective
  <2>4. f \in Surjection(1..n, 1..n)
    <3> HIDE DEF f
    <3> QED BY <1>3, <2>3, FS_Injection
  <2>5. PICK i \in 1..n : f[i] = k
    <3> HIDE DEF f
    <3> QED BY <2>4 DEF Surjection
  <2>6. c(i) \in Nat /\ c(i) + 1 = k
    BY <1>7, <2>5
  <2>7. c(i) = k - 1
    <3> HIDE DEF c
    <3> QED BY <2>6
  <2> QED BY <2>7
<1> QED BY <1>4, <1>7, <1>9, <1>10, <1>11 DEF n

(* The numbers up to n are n. *)
LEMMA Counting == ASSUME NEW n \in Nat PROVE IsFiniteSet(1..n) /\ Cardinality(1..n) = n
BY FS_Interval

(* The events that are replayed are the first when sorted: the k-th has    *)
(* k - 1 events before it (replay).                                        *)
LEMMA Sorted ==
  ASSUME NEW S, Typed(S), NEW w \in Seq(S)
  PROVE  LET s == Chronological(w) IN
         /\ s \in Seq(S)
         /\ Len(s) <= Len(w) /\ Len(s) <= MaxReplayEvents
         /\ Len(s) = Len(w) \/ Len(s) = MaxReplayEvents
         /\ \A k \in 1..Len(s) :
              \E i \in 1..Len(w) : s[k] = w[i] /\ Cardinality(Before(w, i)) = k - 1
<1> DEFINE n == Len(w)
           m == Min({n, MaxReplayEvents})
           c(i) == Cardinality(Before(w, i))
           at(k) == CHOOSE i \in 1..n : c(i) = k - 1
           s == Chronological(w)
<1>1. n \in Nat /\ DOMAIN w = 1..n /\ MaxReplayEvents \in Nat /\ \A i \in 1..n : w[i] \in S
  BY ReplayAssumption
<1>2. m \in Nat /\ m <= n /\ m <= MaxReplayEvents /\ (m = n \/ m = MaxReplayEvents)
  <2>1. \E x \in {n, MaxReplayEvents} : \A y \in {n, MaxReplayEvents} : x <= y
    BY <1>1
  <2>2. m \in {n, MaxReplayEvents} /\ \A y \in {n, MaxReplayEvents} : m <= y
    BY <2>1 DEF Min
  <2> HIDE DEF m
  <2> QED BY <1>1, <2>2
<1>3. s = [k \in 1..m |-> w[at(k)]]
  <2> DEFINE first(k) == CHOOSE i \in DOMAIN w :
                           Cardinality([j \in DOMAIN w |-> Before(w, j)][i]) = k - 1
  <2>1. s = [k \in 1..m |-> w[first(k)]]
    BY DEF Chronological, Earliest
  <2>2. ASSUME NEW k PROVE first(k) = at(k)
    <3>1. \A i \in DOMAIN w : [j \in DOMAIN w |-> Before(w, j)][i] = Before(w, i)
      OBVIOUS
    <3> QED BY <1>1, <3>1
  <2> HIDE DEF at, m, s, first
  <2> QED BY <2>1, <2>2
<1>4. ASSUME NEW k \in 1..m PROVE at(k) \in 1..n /\ c(at(k)) = k - 1
  <2>1. k \in 1..n
    BY <1>1, <1>2
  <2>2. \E i \in 1..n : c(i) = k - 1
    BY <2>1, Places
  <2> QED BY <2>2
<1> HIDE DEF at, m, s, n
<1>5. s \in [1..m -> S] /\ \A k \in 1..m : s[k] = w[at(k)]
  BY <1>1, <1>3, <1>4
<1>6. s \in Seq(S) /\ Len(s) = m
  BY <1>2, <1>5
<1> QED BY <1>2, <1>4, <1>5, <1>6 DEF s, n

(* The costs of a replay add up event by event (replay: the cumulative cost). *)
LEMMA CostsAdd ==
  ASSUME NEW S, Typed(S), NEW ev \in Seq(S)
  PROVE  /\ \A i \in 0..Len(ev) : Costs(ev)[i] \in Int
         /\ Costs(ev)[0] = 0
         /\ \A i \in 1..Len(ev) : Costs(ev)[i] = Costs(ev)[i - 1] + ev[i].cost
<1> DEFINE n == Len(ev)
           V == Int
           none == 0
           next(i, v) == v + ev[i].cost
           Solves(u) == u = [i \in 0..n |-> IF i = 0 THEN none ELSE next(i, u[i - 1])]
           F == [i \in 1..n |-> [v \in V |-> next(i, v)]]
           u == Costs(ev)
<1>1. n \in Nat /\ none \in V /\ \A i \in 1..n, v \in V : next(i, v) \in V
  BY DEF Typed
<1>2. u = CHOOSE x : Solves(x)
  BY DEF Costs
<1> HIDE DEF n, V, none, next
<1>3. F \in [1..n -> [V -> V]]
  BY <1>1
<1> HIDE DEF F
<1>4. PICK g : Iteration(g, n, V, none, F)
  <2>1. n \in Nat /\ none \in V
    BY <1>1
  <2> QED BY <1>3, <2>1, Iterates
<1>5. Solves(g)
  <2>1. \A i \in 1..n : g[i - 1] \in V
    BY <1>1, <1>4 DEF Iteration
  <2>2. \A i \in 1..n : \A v \in V : F[i][v] = next(i, v)
    BY DEF F
  <2>3. \A i \in 1..n : g[i] = next(i, g[i - 1])
    BY <1>4, <2>1, <2>2, Zenon DEF Iteration
  <2>4. \A i \in 0..n : g[i] = IF i = 0 THEN none ELSE next(i, g[i - 1])
    BY <1>1, <1>4, <2>3 DEF Iteration
  <2> QED BY <1>4, <2>4 DEF Iteration
<1>6. Solves(u)
  BY <1>2, <1>5
<1>7. u[0] = none /\ \A i \in 1..n : u[i] = next(i, u[i - 1])
  BY <1>1, <1>6
<1>8. \A i \in 0..n : u[i] \in V
  <2>1. u[0] \in V /\ \A i \in 1..n : u[i - 1] \in V => u[i] \in V
    BY <1>1, <1>7
  <2> QED BY <1>1, <2>1, StaysIn
<1> QED BY <1>7, <1>8 DEF n, V, none, next, u

(* The events that replay counts towards one of them. *)
UpTo(E, e) == {f \in E : f = e \/ Earlier(f, e)}

(* When no two events have the same time and step, the number of those     *)
(* that count towards an event is its place in the replay, whatever order  *)
(* they were stored in.                                                    *)
LEMMA Ranked ==
  ASSUME NEW S, Typed(S), NEW w \in Seq(S), Cardinality(ToSet(w)) = Len(w),
         \A e, f \in ToSet(w) : e = f \/ Earlier(e, f) \/ Earlier(f, e)
  PROVE  LET s == Chronological(w)
             E == ToSet(w)
         IN
         /\ \A k \in 1..Len(s) : /\ s[k] \in E /\ Cardinality(UpTo(E, s[k])) = k
                                /\ UpTo(E, s[k]) = {s[j] : j \in 1..k}
         /\ \A e \in E : Cardinality(UpTo(E, e)) <= MaxReplayEvents
                        => /\ Cardinality(UpTo(E, e)) \in 1..Len(s)
                           /\ s[Cardinality(UpTo(E, e))] = e
         /\ Len(s) = Cardinality({e \in E : Cardinality(UpTo(E, e)) <= MaxReplayEvents})
<1> DEFINE n == Len(w)
           s == Chronological(w)
           m == Len(s)
           E == ToSet(w)
           c(i) == Cardinality(Before(w, i))
           rank(e) == Cardinality(UpTo(E, e))
<1>1. n \in Nat
  OBVIOUS
<1>2. DOMAIN w = 1..n /\ E = {w[i] : i \in 1..n} /\ E \in SUBSET S
  BY DEF ToSet
<1>3. \A e \in E : e.time \in Int /\ e.step \in Int
  BY <1>2 DEF Typed
<1>4. /\ \A i \in 1..n : Before(w, i) \in SUBSET (1..n) /\ c(i) \in 0..(n - 1)
      /\ \A i, j \in 1..n : j \in Before(w, i) <=> c(j) < c(i)
      /\ \A i, j \in 1..n : c(j) = c(i) => i = j
  BY Places
<1>5. s = [k \in 1..m |-> s[k]] /\ \A k \in 1..m : \E i \in 1..n : s[k] = w[i] /\ c(i) = k - 1
  BY Sorted
<1>6. m \in Nat /\ m <= n /\ m <= MaxReplayEvents /\ (m = n \/ m = MaxReplayEvents)
  BY Sorted
<1> HIDE DEF n, s, m
<1>7. \A i, j \in 1..n : w[i] = w[j] => i = j
  <2>1. w \in [1..n -> E]
    <3>1. \A i \in 1..n : w[i] \in E
      BY <1>2
    <3>2. w = [i \in 1..n |-> w[i]]
      BY DEF n
    <3> HIDE DEF E
    <3> QED BY <3>1, <3>2
  <2>2. w \in Surjection(1..n, E)
    BY <1>2, <2>1 DEF Surjection
  <2>3. IsFiniteSet(1..n) /\ Cardinality(1..n) = n
    BY <1>1, Counting
  <2>4. Cardinality(E) = n
    BY DEF n
  <2>5. w \in Injection(1..n, E)
    <3> HIDE DEF E
    <3> QED BY <2>2, <2>3, <2>4, FS_Surjection
  <2> QED BY <2>5 DEF Injection, IsInjective
<1>8. ASSUME NEW i \in 1..n PROVE \A j \in 1..n : j \in Before(w, i) <=> Earlier(w[j], w[i])
  <2> TAKE j \in 1..n
  <2>1. /\ w[i] \in E /\ w[j] \in E
        /\ w[i].time \in Int /\ w[j].time \in Int /\ w[i].step \in Int /\ w[j].step \in Int
    BY <1>2, <1>3
  <2>2. w[i] = w[j] \/ Earlier(w[i], w[j]) \/ Earlier(w[j], w[i])
    BY <2>1
  <2>3. i = j => ~Earlier(w[j], w[i])
    BY <2>1 DEF Earlier
  <2>4. i = j => j \notin Before(w, i)
    BY <1>4
  <2>5. Earlier(w[j], w[i]) => j \in Before(w, i)
    BY <1>2 DEF Earlier, Before
  <2>6. j \in Before(w, i) => ~Earlier(w[i], w[j])
    <3>1. PICK ti \in Int, si \in Int : w[i].time = ti /\ w[i].step = si
      BY <2>1
    <3>2. PICK tj \in Int, sj \in Int : w[j].time = tj /\ w[j].step = sj
      BY <2>1
    <3>3. j \in Before(w, i) => tj < ti \/ (tj = ti /\ sj <= si)
      BY <3>1, <3>2 DEF Before
    <3>4. Earlier(w[i], w[j]) => ti < tj \/ (ti = tj /\ si < sj)
      BY <3>1, <3>2 DEF Earlier
    <3> QED BY <3>3, <3>4
  <2> QED BY <1>7, <2>2, <2>3, <2>4, <2>5, <2>6
<1>9. ASSUME NEW i \in 1..n PROVE \A j \in 1..n : w[j] \in UpTo(E, w[i]) <=> c(j) <= c(i)
  <2> TAKE j \in 1..n
  <2>1. w[j] \in UpTo(E, w[i]) <=> w[j] = w[i] \/ j \in Before(w, i)
    BY <1>2, <1>8 DEF UpTo
  <2>2. w[j] = w[i] <=> c(j) = c(i)
    BY <1>4, <1>7
  <2>3. j \in Before(w, i) <=> c(j) < c(i)
    BY <1>4
  <2>4. c(i) \in Nat /\ c(j) \in Nat
    BY <1>4
  <2> HIDE DEF c, E
  <2> QED BY <2>1, <2>2, <2>3, <2>4
<1>10. ASSUME NEW i \in 1..n PROVE rank(w[i]) = c(i) + 1 /\ c(i) \in Nat /\ c(i) + 1 \in 1..n
  <2> DEFINE D == Before(w, i) \cup {i}
             U == UpTo(E, w[i])
             f == [j \in D |-> w[j]]
  <2>1. c(i) \in Nat /\ c(i) + 1 \in 1..n /\ D \in SUBSET (1..n) /\ i \notin Before(w, i)
    <3>1. c(i) \in 0..(n - 1) /\ Before(w, i) \in SUBSET (1..n) /\ ~(c(i) < c(i))
      BY <1>1, <1>4
    <3>2. i \notin Before(w, i)
      BY <1>4, <3>1
    <3> HIDE DEF c
    <3> QED BY <1>1, <3>1, <3>2
  <2>2. IsFiniteSet(Before(w, i)) /\ IsFiniteSet(D)
    <3>1. IsFiniteSet(1..n)
      BY <1>1, Counting
    <3>2. Before(w, i) \in SUBSET (1..n)
      BY <1>4
    <3> HIDE DEF D
    <3> QED BY <2>1, <3>1, <3>2, FS_Subset
  <2>3. Cardinality(D) = c(i) + 1
    BY <2>1, <2>2, FS_AddElement
  <2>4. \A j \in 1..n : w[j] \in U <=> j \in D
    <3> SUFFICES ASSUME NEW j \in 1..n PROVE w[j] \in U <=> j \in D
      OBVIOUS
    <3>1. w[j] \in U <=> w[j] = w[i] \/ Earlier(w[j], w[i])
      BY <1>2 DEF UpTo
    <3>2. w[j] = w[i] <=> j = i
      BY <1>7
    <3> HIDE DEF U
    <3> QED BY <1>8, <3>1, <3>2
  <2>5. U \in SUBSET E
    BY DEF UpTo
  <2>6. f \in Bijection(D, U)
    <3>1. f \in [D -> U]
      <4> HIDE DEF D, U
      <4> QED BY <2>1, <2>4
    <3>2. \A u \in U : \E j \in D : f[j] = u
      <4> TAKE u \in U
      <4>1. PICK j \in 1..n : u = w[j]
        BY <1>2, <2>5
      <4> HIDE DEF D, U
      <4> QED BY <2>4, <4>1
    <3>3. \A j, l \in D : f[j] = f[l] => j = l
      <4> HIDE DEF D
      <4> QED BY <1>7, <2>1
    <3> HIDE DEF f, D, U
    <3> QED BY <3>1, <3>2, <3>3 DEF Bijection, Injection, Surjection, IsInjective
  <2>7. Cardinality(U) = Cardinality(D)
    <3> HIDE DEF f, D, U
    <3> QED BY <2>2, <2>6, FS_Bijection DEF ExistsBijection
  <2> QED BY <2>1, <2>3, <2>7
<1> HIDE DEF c, rank
<1>11. ASSUME NEW i \in 1..n, c(i) + 1 <= m PROVE s[c(i) + 1] = w[i]
  <2>1. c(i) \in Nat /\ c(i) + 1 \in 1..m
    BY <1>5, <1>10, <1>11
  <2>2. PICK j \in 1..n : s[c(i) + 1] = w[j] /\ c(j) = (c(i) + 1) - 1
    BY <1>5, <2>1
  <2>3. c(j) = c(i)
    BY <2>1, <2>2
  <2> QED BY <1>4, <2>2, <2>3
<1>12. ASSUME NEW k \in 1..m PROVE s[k] \in E /\ rank(s[k]) = k
  <2>1. PICK i \in 1..n : s[k] = w[i] /\ c(i) = k - 1
    BY <1>5
  <2>2. rank(w[i]) = c(i) + 1
    BY <1>10
  <2>3. k \in Nat /\ (k - 1) + 1 = k
    BY <1>6
  <2> QED BY <1>2, <2>1, <2>2, <2>3
<1>13. ASSUME NEW k \in 1..m PROVE UpTo(E, s[k]) = {s[j] : j \in 1..k}
  <2>1. PICK i \in 1..n : s[k] = w[i] /\ c(i) = k - 1
    BY <1>5
  <2>2. ASSUME NEW e \in UpTo(E, s[k]) PROVE \E j \in 1..k : e = s[j]
    <3>1. e \in E
      BY DEF UpTo
    <3>2. PICK j \in 1..n : e = w[j]
      BY <1>2, <3>1
    <3>3. c(j) <= c(i) /\ c(j) \in Nat
      BY <1>9, <1>10, <2>1, <3>2
    <3>4. c(j) + 1 \in 1..k /\ c(j) + 1 <= m
      BY <1>6, <2>1, <3>3
    <3> QED BY <1>11, <3>2, <3>4
  <2>3. ASSUME NEW l \in 1..k PROVE s[l] \in UpTo(E, s[k])
    <3>1. l \in 1..m
      BY <1>6
    <3>2. PICK j \in 1..n : s[l] = w[j] /\ c(j) = l - 1
      BY <1>5, <3>1
    <3>3. c(j) <= c(i)
      BY <1>6, <2>1, <3>2
    <3> QED BY <1>9, <2>1, <3>2, <3>3
  <2> QED BY <2>2, <2>3
<1>14. ASSUME NEW e \in E, rank(e) <= MaxReplayEvents
       PROVE  rank(e) \in 1..m /\ s[rank(e)] = e
  <2>1. PICK i \in 1..n : e = w[i]
    BY <1>2
  <2>2. rank(e) = c(i) + 1 /\ c(i) \in Nat /\ rank(e) \in 1..n
    BY <1>10, <2>1
  <2>3. MaxReplayEvents \in Nat
    BY ReplayAssumption
  <2>4. rank(e) \in 1..m
    BY <1>1, <1>6, <1>14, <2>2, <2>3
  <2>5. c(i) + 1 <= m
    BY <1>6, <2>2, <2>4
  <2> QED BY <1>11, <2>1, <2>2, <2>4, <2>5
<1>15. m = Cardinality({e \in E : rank(e) <= MaxReplayEvents})
  <2> DEFINE R == {e \in E : rank(e) <= MaxReplayEvents}
  <2>1. MaxReplayEvents \in Nat
    BY ReplayAssumption
  <2>2. s \in [1..m -> R]
    <3>1. ASSUME NEW k \in 1..m PROVE s[k] \in R
      BY <1>6, <1>12, <2>1
    <3>2. DOMAIN s = 1..m /\ s = [k \in 1..m |-> s[k]]
      BY <1>5
    <3> HIDE DEF R
    <3> QED BY <3>1, <3>2
  <2>3. s \in Bijection(1..m, R)
    <3>1. \A e \in R : \E k \in 1..m : s[k] = e
      BY <1>14
    <3>2. \A j, k \in 1..m : s[j] = s[k] => j = k
      BY <1>12
    <3> HIDE DEF R
    <3> QED BY <2>2, <3>1, <3>2 DEF Bijection, Injection, Surjection, IsInjective
  <2>4. IsFiniteSet(1..m) /\ Cardinality(1..m) = m
    BY <1>6, Counting
  <2> HIDE DEF R
  <2>5. Cardinality(R) = m
    BY <2>3, <2>4, FS_Bijection DEF ExistsBijection
  <2> QED BY <2>5 DEF R
<1> QED BY <1>12, <1>13, <1>14, <1>15 DEF s, m, rank

(* What the first events cost is what the set of them costs. *)
LEMMA PrefixCosts ==
  ASSUME NEW S, Typed(S), NEW ev \in Seq(S), \A i, j \in 1..Len(ev) : ev[i] = ev[j] => i = j
  PROVE  \A k \in 0..Len(ev) : CostOf({ev[j] : j \in 1..k}) = Costs(ev)[k]
<1> DEFINE n == Len(ev)
           First(k) == {ev[j] : j \in 1..k}
           Q == {k \in Nat : k <= n => IsFiniteSet(First(k)) /\ CostOf(First(k)) = Costs(ev)[k]}
<1>1. n \in Nat
  OBVIOUS
<1>2. \A i \in 1..n : ev[i].cost \in Int
  BY DEF Typed
<1>3. /\ \A i \in 0..n : Costs(ev)[i] \in Int
      /\ Costs(ev)[0] = 0
      /\ \A i \in 1..n : Costs(ev)[i] = Costs(ev)[i - 1] + ev[i].cost
  BY CostsAdd
<1> HIDE DEF n
<1>4. 0 \in Q
  <2>1. First(0) = {}
    OBVIOUS
  <2> HIDE DEF First
  <2> QED BY <1>3, <2>1, CostOfNone, FS_EmptySet
<1>5. ASSUME NEW k \in Q PROVE k + 1 \in Q
  <2> SUFFICES ASSUME k + 1 <= n
               PROVE  /\ IsFiniteSet(First(k + 1))
                      /\ CostOf(First(k + 1)) = Costs(ev)[k + 1]
    OBVIOUS
  <2>1. k \in Nat /\ k + 1 \in 1..n /\ (k + 1) - 1 = k
    OBVIOUS
  <2>2. IsFiniteSet(First(k)) /\ CostOf(First(k)) = Costs(ev)[k]
    BY <1>1
  <2>3. First(k + 1) = First(k) \cup {ev[k + 1]}
    <3>1. 1..(k + 1) = (1..k) \cup {k + 1}
      BY <2>1
    <3> QED BY <3>1
  <2>4. ev[k + 1] \notin First(k)
    <3> SUFFICES ASSUME NEW j \in 1..k, ev[k + 1] = ev[j] PROVE FALSE
      OBVIOUS
    <3>1. j \in 1..n /\ j # k + 1
      BY <1>1, <2>1
    <3> QED BY <2>1, <3>1 DEF n
  <2>5. \A y \in First(k) \cup {ev[k + 1]} : y.cost \in Int
    <3>1. \A j \in 1..k : j \in 1..n
      BY <1>1, <2>1
    <3> QED BY <1>2, <2>1, <3>1
  <2> HIDE DEF First
  <2>6. CostOf(First(k + 1)) = CostOf(First(k)) + ev[k + 1].cost
    BY <2>2, <2>3, <2>4, <2>5, CostAdds
  <2>7. Costs(ev)[k + 1] = Costs(ev)[k] + ev[k + 1].cost
    BY <1>3, <2>1
  <2>8. IsFiniteSet(First(k + 1))
    <3>1. IsFiniteSet(First(k) \cup {ev[k + 1]})
      BY <2>2, FS_AddElement
    <3> QED BY <2>3, <3>1
  <2> QED BY <2>2, <2>6, <2>7, <2>8
<1>6. Q = Nat
  <2> HIDE DEF Q
  <2>1. Q \in SUBSET Nat
    BY DEF Q
  <2> QED BY <1>4, <1>5, <2>1, SetInduction
<1>7. ASSUME NEW k \in 0..n PROVE CostOf(First(k)) = Costs(ev)[k]
  <2>1. k \in Nat /\ k <= n
    BY <1>1
  <2>2. k \in Q
    <3> HIDE DEF Q
    <3> QED BY <1>6, <2>1
  <2> HIDE DEF First
  <2> QED BY <2>1, <2>2
<1> QED BY <1>7 DEF n

(* A policy that is given defaults keeps its ceilings (_build_override_policy). *)
LEMMA CeilingsKept ==
  ASSUME NEW raw \in Policies
  PROVE  /\ Defaulted(raw).usd = raw.usd /\ Defaulted(raw).steps = raw.steps
         /\ Defaulted(raw).tokens = raw.tokens
         /\ raw.onExceed \in OnExceed => Defaulted(raw).onExceed = raw.onExceed
         /\ raw # NoOverride
<1>1. /\ Defaulted(raw).usd = raw.usd /\ Defaulted(raw).steps = raw.steps
      /\ Defaulted(raw).tokens = raw.tokens
  BY DEF Defaulted, Policies
<1>2. raw.onExceed \in OnExceed => Defaulted(raw).onExceed = raw.onExceed
  BY DEF Defaulted, Policies, OnExceed
<1>3. raw.chain # "none" /\ NoOverride.chain = "none"
  BY DEF Policies, NoOverride
<1> QED BY <1>1, <1>2, <1>3

(* Replay answers as ReplayIsCumulative says, whatever the store holds and *)
(* in whatever order (replay).                                             *)
LEMMA ReplayCounts ==
  ASSUME NEW S, Typed(S), NEW store \in Seq(S), NEW chain, NEW from, NEW to,
         NEW raw, raw = NoOverride \/ raw \in Policies
  PROVE  ReplayIsCumulative(store, chain, from, to, raw)
<1> DEFINE w == Wanted(store, chain, from, to)
           E == ToSet(w)
           s == Chronological(w)
           rank(e) == Cardinality(UpTo(E, e))
           refuses(e) == \/ CostOf(UpTo(E, e)) > raw.usd.n
                         \/ Exceeds(rank(e), raw.steps) \/ Exceeds(e.tokens, raw.tokens)
           expected(e) == IF raw = NoOverride THEN e.decision
                          ELSE IF refuses(e) THEN Defaulted(raw).onExceed ELSE "allow"
           again(i) == IF raw = NoOverride THEN s[i].decision
                       ELSE ReplayDecision(s[i], i, Costs(s)[i - 1], Defaulted(raw))
           diff(i) == [step |-> s[i].step, original |-> s[i].decision, replayed |-> again(i)]
           result == Replayed(store, chain, from, to, raw)
           R == {e \in E : rank(e) <= MaxReplayEvents}
<1>1. SUFFICES ASSUME Cardinality(E) = Len(w),
                      \A e, f \in E : e = f \/ Earlier(e, f) \/ Earlier(f, e),
                      ~result.refused
               PROVE  /\ Len(result.diffs) = Cardinality(R)
                      /\ \A e \in E : rank(e) <= MaxReplayEvents =>
                           result.diffs[rank(e)] =
                             [step |-> e.step, original |-> e.decision, replayed |-> expected(e)]
  BY DEF ReplayIsCumulative, UpTo, CostOf
<1>2. result.diffs = [i \in 1..Len(s) |-> diff(i)]
  BY <1>1 DEF Replayed
<1>3. w \in Seq(S)
  BY WantedType
<1>4. s \in Seq(S) /\ Len(s) \in Nat
  BY <1>3, Sorted
<1>5. /\ \A k \in 1..Len(s) : /\ s[k] \in E /\ rank(s[k]) = k
                             /\ UpTo(E, s[k]) = {s[j] : j \in 1..k}
      /\ \A e \in E : rank(e) <= MaxReplayEvents => rank(e) \in 1..Len(s) /\ s[rank(e)] = e
      /\ Len(s) = Cardinality(R)
  BY <1>1, <1>3, Ranked
<1>6. Len(result.diffs) = Len(s)
  BY <1>2, <1>4
<1>7. ASSUME NEW k \in 1..Len(s)
      PROVE  CostOf(UpTo(E, s[k])) = Costs(s)[k - 1] + s[k].cost
  <2>1. \A i, j \in 1..Len(s) : s[i] = s[j] => i = j
    BY <1>5
  <2>2. k \in 0..Len(s)
    BY <1>4
  <2> HIDE DEF s
  <2>3. CostOf({s[j] : j \in 1..k}) = Costs(s)[k]
    BY <1>4, <2>1, <2>2, PrefixCosts
  <2>4. Costs(s)[k] = Costs(s)[k - 1] + s[k].cost
    BY <1>4, CostsAdd
  <2> QED BY <1>5, <2>3, <2>4
<1>8. ASSUME NEW k \in 1..Len(s) PROVE again(k) = expected(s[k])
  <2>1. CASE raw = NoOverride
    BY <2>1
  <2>2. CASE raw # NoOverride
    <3>1. raw \in Policies
      BY <2>2
    <3>2. /\ Defaulted(raw).usd = raw.usd /\ Defaulted(raw).steps = raw.steps
          /\ Defaulted(raw).tokens = raw.tokens
      BY <3>1, CeilingsKept
    <3>3. Costs(s)[k - 1] + s[k].cost = CostOf(UpTo(E, s[k])) /\ rank(s[k]) = k
      BY <1>5, <1>7
    <3> HIDE DEF s, rank, E
    <3> QED BY <2>2, <3>2, <3>3 DEF ReplayDecision
  <2> QED BY <2>1, <2>2
<1> HIDE DEF result, s, rank, E, again, expected, R, w
<1>9. ASSUME NEW e \in E, rank(e) <= MaxReplayEvents
      PROVE  result.diffs[rank(e)] =
               [step |-> e.step, original |-> e.decision, replayed |-> expected(e)]
  <2>1. rank(e) \in 1..Len(s) /\ s[rank(e)] = e
    BY <1>5, <1>9
  <2>2. result.diffs[rank(e)] = diff(rank(e))
    BY <1>2, <2>1
  <2>3. again(rank(e)) = expected(e)
    BY <1>8, <2>1
  <2> QED BY <2>1, <2>2, <2>3
<1> QED BY <1>5, <1>6, <1>9

(* What a simulation has come to after some steps. *)
Stages == [cost : Int, tokens : Int, allowed : Int, halted : Int, decision : OnExceed \cup {"allow"}]

IsRun(u, raw, steps) ==
  u = [i \in 0..Len(steps) |-> IF i = 0 THEN NotRun ELSE Stepped(u[i - 1], i, raw, steps)]

(* From s to r: a simulation goes on from where it is, with the step       *)
(* allowed by the decision d or with the rest halted.                      *)
GoesOn(s, r, d, step, rest) ==
  /\ r \in Stages /\ d \in OnExceed \cup {"allow"}
  /\ s.decision # "allow" => r = s
  /\ s.decision = "allow" /\ d = "allow"
     => /\ r.cost = s.cost + step.cost /\ r.allowed = s.allowed + 1
        /\ r.halted = s.halted /\ r.decision = "allow"
  /\ s.decision = "allow" /\ d # "allow"
     => /\ r.cost = s.cost /\ r.allowed = s.allowed
        /\ r.halted = rest /\ r.decision = d

(* Each step of the loop does (simulate).                                  *)
LEMMA SteppedEffect ==
  ASSUME NEW S, Typed(S), NEW steps \in Seq(S), NEW raw \in Policies, raw.onExceed \in OnExceed,
         NEW s \in Stages, NEW i \in 1..Len(steps)
  PROVE  GoesOn(s, Stepped(s, i, raw, steps), EvaluateStep(steps[i], i - 1, s.cost, s.tokens, raw),
                steps[i], 1 + Len(steps) - i)
<1> DEFINE d == EvaluateStep(steps[i], i - 1, s.cost, s.tokens, raw)
           r == Stepped(s, i, raw, steps)
           total == Len(steps)
<1>1. steps[i].cost \in Int /\ steps[i].tokens \in Int /\ total \in Nat /\ i \in Int
  BY DEF Typed
<1>2. d \in OnExceed \cup {"allow"}
  BY DEF EvaluateStep, OnExceed
<1>3. r = IF s.decision # "allow" THEN s
          ELSE IF d = "allow"
          THEN [s EXCEPT !.cost = @ + steps[i].cost, !.tokens = @ + steps[i].tokens,
                         !.allowed = @ + 1]
          ELSE [s EXCEPT !.halted = 1 + total - i, !.decision = d]
  BY DEF Stepped
<1> HIDE DEF d, r, total
<1>4. CASE s.decision # "allow"
  BY <1>2, <1>3, <1>4 DEF GoesOn, r, d, total
<1>5. PICK p \in Int, q \in Int : steps[i].cost = p /\ steps[i].tokens = q
  BY <1>1
<1>6. /\ s.cost \in Int /\ s.tokens \in Int /\ s.allowed \in Int /\ s.halted \in Int
      /\ s = [cost |-> s.cost, tokens |-> s.tokens, allowed |-> s.allowed,
              halted |-> s.halted, decision |-> s.decision]
  BY DEF Stages
<1>7. CASE s.decision = "allow" /\ d = "allow"
  <2>1. r = [s EXCEPT !.cost = s.cost + p, !.tokens = s.tokens + q, !.allowed = s.allowed + 1]
    BY <1>3, <1>5, <1>7
  <2>2. r = [cost |-> s.cost + p, tokens |-> s.tokens + q, allowed |-> s.allowed + 1,
             halted |-> s.halted, decision |-> "allow"]
    BY <1>6, <1>7, <2>1
  <2>3. r \in Stages
    BY <1>6, <2>2 DEF Stages
  <2>4. /\ r.cost = s.cost + p /\ r.allowed = s.allowed + 1
        /\ r.halted = s.halted /\ r.decision = "allow"
    BY <2>2
  <2> QED BY <1>2, <1>5, <1>7, <2>3, <2>4 DEF GoesOn, r, d, total
<1>8. CASE s.decision = "allow" /\ d # "allow"
  <2>1. r = [s EXCEPT !.halted = 1 + total - i, !.decision = d]
    BY <1>3, <1>8
  <2>2. r = [cost |-> s.cost, tokens |-> s.tokens, allowed |-> s.allowed,
             halted |-> 1 + total - i, decision |-> d]
    BY <1>6, <2>1
  <2>3. r \in Stages
    BY <1>1, <1>2, <1>6, <2>2 DEF Stages
  <2>4. /\ r.cost = s.cost /\ r.allowed = s.allowed
        /\ r.halted = 1 + total - i /\ r.decision = d
    BY <2>2
  <2> QED BY <1>2, <1>8, <2>3, <2>4 DEF GoesOn, r, d, total
<1> QED BY <1>4, <1>7, <1>8 DEF GoesOn, r, d, total

(* A simulation is a run of its steps, one after the other. *)
LEMMA AfterIsRun ==
  ASSUME NEW raw, NEW steps, Len(steps) \in Nat,
         \A i \in 1..Len(steps), v \in Stages : Stepped(v, i, raw, steps) \in Stages
  PROVE  \E u : /\ \A i \in 0..Len(steps) : u[i] \in Stages
                /\ u[0] = NotRun
                /\ \A i \in 1..Len(steps) : u[i] = Stepped(u[i - 1], i, raw, steps)
                /\ After(raw, steps) = u[Len(steps)]
<1> DEFINE n == Len(steps)
           V == Stages
           none == NotRun
           next(i, v) == Stepped(v, i, raw, steps)
           F == [i \in 1..n |-> [v \in V |-> next(i, v)]]
           u == CHOOSE x : IsRun(x, raw, steps)
<1>1. n \in Nat
  OBVIOUS
<1>2. none \in V
  BY DEF NotRun, Stages
<1>3. \A i \in 1..n, v \in V : next(i, v) \in V
  OBVIOUS
<1>4. After(raw, steps) = u[n]
  BY DEF After, IsRun
<1>5. \A x : IsRun(x, raw, steps)
             <=> x = [i \in 0..n |-> IF i = 0 THEN none ELSE next(i, x[i - 1])]
  BY DEF IsRun
<1> HIDE DEF n, V, none, next
<1>6. F \in [1..n -> [V -> V]]
  BY <1>3
<1> HIDE DEF F
<1>7. PICK g : Iteration(g, n, V, none, F)
  <2>1. n \in Nat /\ none \in V
    BY <1>1, <1>2
  <2> QED BY <1>6, <2>1, Iterates
<1>8. IsRun(g, raw, steps)
  <2>1. \A i \in 1..n : g[i - 1] \in V
    BY <1>1, <1>7 DEF Iteration
  <2>2. \A i \in 1..n : \A v \in V : F[i][v] = next(i, v)
    BY DEF F
  <2>3. \A i \in 1..n : g[i] = next(i, g[i - 1])
    BY <1>7, <2>1, <2>2, Zenon DEF Iteration
  <2>4. \A i \in 0..n : g[i] = IF i = 0 THEN none ELSE next(i, g[i - 1])
    BY <1>1, <1>7, <2>3 DEF Iteration
  <2>5. g = [i \in 0..n |-> IF i = 0 THEN none ELSE next(i, g[i - 1])]
    BY <1>7, <2>4 DEF Iteration
  <2> QED BY <1>5, <2>5
<1>9. IsRun(u, raw, steps)
  BY <1>8
<1> HIDE DEF u
<1>10. u = [i \in 0..n |-> IF i = 0 THEN none ELSE next(i, u[i - 1])]
  BY <1>5, <1>9
<1>11. u[0] = none /\ \A i \in 1..n : u[i] = next(i, u[i - 1])
  BY <1>1, <1>10
<1>12. \A i \in 0..n : u[i] \in V
  <2>1. u[0] \in V /\ \A i \in 1..n : u[i - 1] \in V => u[i] \in V
    BY <1>2, <1>3, <1>11
  <2> QED BY <1>1, <2>1, StaysIn
<1> QED BY <1>4, <1>11, <1>12 DEF n, V, none, next

(* A scenario of recorded events stops where their replay first refuses,   *)
(* within the budget, and accounts for every step (simulate, replay).      *)
LEMMA SimulationFollows ==
  ASSUME NEW S, Typed(S), NEW store \in Seq(S), NEW chain, NEW from, NEW to,
         NEW raw, raw = NoOverride \/ raw \in Policies
  PROVE  SimulationFollowsReplay(store, chain, from, to, raw)
<1> DEFINE ev == Chronological(Wanted(store, chain, from, to))
           n == Len(ev)
           replay == Replayed(store, chain, from, to, raw)
           run == Simulated(raw, ev)
           refusals == {i \in DOMAIN replay.diffs : replay.diffs[i].replayed # "allow"}
           again(i) == ReplayDecision(ev[i], i, Costs(ev)[i - 1], Defaulted(raw))
           Plain == None(raw.tokens) /\ ~Passed(raw.deadline) /\ ~Passed(raw.expires)
           end == run.result
<1>1. SUFFICES ASSUME ~replay.refused, ~run.refused
               PROVE  /\ end.allowed + end.halted = n /\ end.cost <= raw.usd.n
                      /\ Plain => \A i \in DOMAIN ev :
                            (i <= end.allowed) <=> (\A j \in refusals : i < j)
  BY DEF SimulationFollowsReplay
<1>2. PolicyValid(raw) /\ end = After(raw, ev)
  BY <1>1 DEF Simulated
<1>3. raw # NoOverride
  <2>1. raw.chain \in {"word", "blank"}
    BY <1>2 DEF PolicyValid
  <2>2. NoOverride.chain = "none"
    BY DEF NoOverride
  <2> QED BY <2>1, <2>2
<1>4. raw \in Policies /\ raw.onExceed \in OnExceed /\ raw.usd.n \in Nat
  <2>1. raw.onExceed \in OnExceed /\ raw.usd.n >= 0
    BY <1>2 DEF PolicyValid, Number
  <2>2. raw.usd.n \in Int
    BY <1>3 DEF Policies, Given
  <2> QED BY <1>3, <2>1, <2>2
<1>5. ev \in Seq(S) /\ n \in Nat /\ DOMAIN ev = 1..n
  BY WantedType, Sorted
<1>6. refusals = {i \in 1..n : again(i) # "allow"}
  <2>1. replay.diffs = [i \in 1..n |->
                          [step |-> ev[i].step, original |-> ev[i].decision,
                           replayed |-> again(i)]]
    BY <1>1, <1>3 DEF Replayed
  <2> HIDE DEF ev, n, again, replay
  <2> QED BY <2>1
<1>7. /\ \A i \in 0..n : Costs(ev)[i] \in Int
      /\ Costs(ev)[0] = 0
      /\ \A i \in 1..n : Costs(ev)[i] = Costs(ev)[i - 1] + ev[i].cost
  BY <1>5, CostsAdd
<1>8. PICK u : /\ \A i \in 0..n : u[i] \in Stages
               /\ u[0] = NotRun
               /\ \A i \in 1..n : u[i] = Stepped(u[i - 1], i, raw, ev)
               /\ end = u[n]
  <2>1. \A i \in 1..n, v \in Stages : Stepped(v, i, raw, ev) \in Stages
    BY <1>4, <1>5, SteppedEffect DEF GoesOn
  <2> QED BY <1>2, <1>5, <2>1, AfterIsRun
<1> HIDE DEF ev, n, replay, run, refusals, again, Plain, end
<1>9. ASSUME Plain, NEW i \in 1..n, NEW t
      PROVE  EvaluateStep(ev[i], i - 1, Costs(ev)[i - 1], t, raw) = again(i)
  <2>1. /\ Defaulted(raw).usd = raw.usd /\ Defaulted(raw).steps = raw.steps
        /\ Defaulted(raw).tokens = raw.tokens /\ Defaulted(raw).onExceed = raw.onExceed
    BY <1>4, CeilingsKept
  <2>2. \A x : ~Exceeds(x, raw.tokens)
    BY <1>9 DEF Plain, None, Exceeds
  <2>3. (i - 1) + 1 = i
    BY <1>5
  <2>4. ~Passed(raw.deadline) /\ ~Passed(raw.expires)
    BY <1>9 DEF Plain
  <2> QED BY <2>1, <2>2, <2>3, <2>4 DEF EvaluateStep, ReplayDecision, again
<1> DEFINE J(k) == LET s == u[k] IN
             /\ s.cost <= raw.usd.n
             /\ s.decision = "allow" => s.allowed = k /\ s.halted = 0
             /\ s.decision # "allow" => s.allowed \in 0..(k - 1) /\ s.halted = n - s.allowed
             /\ Plain => /\ \A j \in 1..s.allowed : again(j) = "allow"
                         /\ s.decision = "allow" => s.cost = Costs(ev)[k]
                         /\ s.decision # "allow" => again(s.allowed + 1) # "allow"
           Q == {k \in Nat : k <= n => J(k)}
<1>10. J(0)
  BY <1>4, <1>5, <1>7, <1>8 DEF NotRun
<1>11. ASSUME NEW k \in Nat, k + 1 <= n, J(k) PROVE J(k + 1)
  <2> DEFINE s == u[k]
             r == u[k + 1]
             e == ev[k + 1]
             d == EvaluateStep(e, k, s.cost, s.tokens, raw)
  <2>1. k + 1 \in 1..n /\ k \in 0..n /\ (k + 1) - 1 = k /\ s \in Stages
    BY <1>5, <1>8, <1>11
  <2>2. GoesOn(s, r, d, e, n - k)
    <3>1. r = Stepped(s, k + 1, raw, ev)
      BY <1>8, <2>1
    <3>2. d = EvaluateStep(ev[k + 1], (k + 1) - 1, s.cost, s.tokens, raw)
      BY <2>1
    <3>3. k + 1 \in 1..Len(ev)
      BY <2>1 DEF n
    <3>4. 1 + Len(ev) - (k + 1) = n - k
      BY <1>5, <2>1 DEF n
    <3>5. GoesOn(s, Stepped(s, k + 1, raw, ev),
                 EvaluateStep(ev[k + 1], (k + 1) - 1, s.cost, s.tokens, raw),
                 ev[k + 1], 1 + Len(ev) - (k + 1))
      <4> HIDE DEF s
      <4> QED BY <1>4, <1>5, <2>1, <3>3, SteppedEffect
    <3> QED BY <3>1, <3>2, <3>4, <3>5
  <2>3. /\ s.cost <= raw.usd.n
        /\ s.decision = "allow" => s.allowed = k /\ s.halted = 0
        /\ s.decision # "allow" => s.allowed \in 0..(k - 1) /\ s.halted = n - s.allowed
        /\ Plain => /\ \A j \in 1..s.allowed : again(j) = "allow"
                    /\ s.decision = "allow" => s.cost = Costs(ev)[k]
                    /\ s.decision # "allow" => again(s.allowed + 1) # "allow"
    BY <1>11
  <2>4. Plain /\ s.decision = "allow" => d = again(k + 1)
    <3>1. SUFFICES ASSUME Plain, s.decision = "allow" PROVE d = again(k + 1)
      OBVIOUS
    <3>2. s.cost = Costs(ev)[k]
      BY <2>3, <3>1
    <3> QED BY <1>9, <2>1, <3>1, <3>2
  <2>5. d = "allow" => s.cost + e.cost <= raw.usd.n
    <3>1. raw.onExceed # "allow"
      BY <1>4 DEF OnExceed
    <3>2. s.cost \in Int /\ e.cost \in Int
      BY <1>5, <2>1 DEF Stages, Typed
    <3>3. d = "allow" => ~(s.cost + e.cost > raw.usd.n)
      BY <3>1 DEF EvaluateStep
    <3> HIDE DEF s, e, d
    <3> QED BY <1>4, <3>2, <3>3
  <2> HIDE DEF s, r, e, d
  <2>6. CASE s.decision # "allow"
    <3>1. r = s
      BY <2>2, <2>6 DEF GoesOn
    <3>2. s.allowed \in 0..((k + 1) - 1)
      BY <2>1, <2>3, <2>6
    <3> QED BY <2>3, <2>6, <3>1, <3>2 DEF r
  <2>7. CASE s.decision = "allow" /\ d = "allow"
    <3>1. /\ r.cost = s.cost + e.cost /\ r.allowed = k + 1 /\ r.halted = 0 /\ r.decision = "allow"
      BY <2>2, <2>3, <2>7 DEF GoesOn
    <3>2. r.cost <= raw.usd.n
      BY <2>5, <2>7, <3>1
    <3>3. Plain => r.cost = Costs(ev)[k + 1]
      BY <1>7, <2>1, <2>3, <2>7, <3>1 DEF e
    <3>4. Plain => \A j \in 1..(k + 1) : again(j) = "allow"
      <4>1. \A j \in 1..(k + 1) : j \in 1..k \/ j = k + 1
        OBVIOUS
      <4>2. Plain => \A j \in 1..k : again(j) = "allow"
        BY <2>3, <2>7
      <4> QED BY <2>4, <2>7, <4>1, <4>2
    <3> QED BY <3>1, <3>2, <3>3, <3>4 DEF r
  <2>8. CASE s.decision = "allow" /\ d # "allow"
    <3>1. /\ r.cost = s.cost /\ r.allowed = k /\ r.halted = n - k /\ r.decision # "allow"
      BY <2>2, <2>3, <2>8 DEF GoesOn
    <3>2. k \in 0..((k + 1) - 1) /\ r.halted = n - k
      BY <1>5, <3>1
    <3>3. Plain => again(k + 1) # "allow"
      BY <2>4, <2>8
    <3>4. Plain => \A j \in 1..k : again(j) = "allow"
      BY <2>3, <2>8
    <3> QED BY <2>3, <3>1, <3>2, <3>3, <3>4 DEF r
  <2> QED BY <2>6, <2>7, <2>8
<1> HIDE DEF J
<1>12. Q = Nat
  <2>1. 0 \in Q
    BY <1>10
  <2>2. ASSUME NEW k \in Q PROVE k + 1 \in Q
    <3> SUFFICES ASSUME k + 1 <= n PROVE J(k + 1)
      OBVIOUS
    <3>1. k \in Nat /\ k <= n
      BY <1>5
    <3>2. J(k)
      BY <3>1
    <3> QED BY <1>11, <3>1, <3>2
  <2> HIDE DEF Q
  <2>3. Q \in SUBSET Nat
    BY DEF Q
  <2> QED BY <2>1, <2>2, <2>3, SetInduction
<1>13. J(n)
  <2>1. n \in Q
    <3> HIDE DEF Q
    <3> QED BY <1>5, <1>12
  <2> QED BY <1>5, <2>1
<1>14. /\ end \in Stages /\ end.cost <= raw.usd.n
       /\ end.decision = "allow" => end.allowed = n /\ end.halted = 0
       /\ end.decision # "allow" => end.allowed \in 0..(n - 1) /\ end.halted = n - end.allowed
       /\ Plain => /\ \A j \in 1..end.allowed : again(j) = "allow"
                   /\ end.decision # "allow" => again(end.allowed + 1) # "allow"
  <2>1. n \in 0..n
    BY <1>5
  <2> QED BY <1>8, <1>13, <2>1 DEF J
<1>15. end.allowed + end.halted = n
  BY <1>5, <1>14
<1>16. ASSUME Plain, NEW i \in 1..n
       PROVE  (i <= end.allowed) <=> (\A j \in refusals : i < j)
  <2>1. end.allowed \in 0..n
    BY <1>5, <1>14
  <2>2. ASSUME i <= end.allowed, NEW j \in refusals PROVE i < j
    <3>1. j \in 1..n /\ again(j) # "allow"
      BY <1>6
    <3>2. j \notin 1..end.allowed
      BY <1>14, <1>16, <3>1
    <3> QED BY <2>1, <2>2, <3>1, <3>2
  <2>3. ASSUME ~(i <= end.allowed) PROVE \E j \in refusals : ~(i < j)
    <3>1. end.decision # "allow"
      BY <1>5, <1>14, <2>3
    <3>2. end.allowed + 1 \in 1..n /\ again(end.allowed + 1) # "allow"
      BY <1>5, <1>14, <1>16, <3>1
    <3>3. end.allowed + 1 \in refusals
      BY <1>6, <3>2
    <3>4. ~(i < end.allowed + 1)
      BY <2>1, <2>3
    <3> QED BY <3>3, <3>4
  <2> QED BY <2>2, <2>3
<1> QED BY <1>5, <1>14, <1>15, <1>16

(* What is written has numbers for its time, step, cost and tokens: only   *)
(* reports that can be converted are taken (ingest).                       *)
LEMMA OutsTyped == Typed(Outs)
<1> SUFFICES ASSUME NEW e \in EventIds, NEW f \in EventIds, NEW raw \in Raw[f], Convertible(raw)
             PROVE  LET o == Converted(e, raw) IN
                    o.time \in Int /\ o.step \in Int /\ o.cost \in Int /\ o.tokens \in Int
  BY DEF Typed, Outs, Reports
<1>1. /\ raw.cost \in Int \cup {NonFinite} /\ raw.tokens \in Int
      /\ CleanId[raw.step] \in Int /\ raw.time \in Int
  BY IngestorAssumption DEF Convertible
<1>2. ASSUME NEW x \in Int PROVE Max({0, x}) \in Int
  <2>1. \E y \in {0, x} : \A z \in {0, x} : y >= z
    OBVIOUS
  <2> QED BY <2>1 DEF Max
<1>3. NonNegative(raw.cost) \in Int
  BY <1>1, <1>2 DEF NonNegative
<1>4. Max({0, raw.tokens}) \in Int
  BY <1>1, <1>2
<1> QED BY <1>1, <1>3, <1>4 DEF Converted

(* Whatever the threads wrote and in whatever order they wrote it, replay  *)
(* answers as if the events had come in the order of their times.          *)
THEOREM PipelineReplayIgnoresArrival == Spec => []ReplayIgnoresArrival
<1>1. IngestorInv => ReplayIgnoresArrival
  <2> SUFFICES ASSUME IngestorInv, NEW p \in Overrides
               PROVE  ReplayIsCumulative(records, Window.chain, Window.from, Window.to, p)
    BY DEF ReplayIgnoresArrival
  <2>1. records \in Seq(Outs)
    BY DEF IngestorInv, IngestorTypes
  <2>2. p = NoOverride \/ p \in Policies
    BY PipelineAssumption
  <2> QED BY <2>1, <2>2, OutsTyped, ReplayCounts
<1> QED BY <1>1, IngestorInvariance, PTL

(* A simulation of what the threads wrote stops where its replay refuses,  *)
(* within the budget, and accounts for every step.                         *)
THEOREM PipelineSimulationAgrees == Spec => []SimulationAgrees
<1>1. IngestorInv => SimulationAgrees
  <2> SUFFICES ASSUME IngestorInv, NEW p \in Overrides
               PROVE  SimulationFollowsReplay(records, Window.chain, Window.from, Window.to, p)
    BY DEF SimulationAgrees
  <2>1. records \in Seq(Outs)
    BY DEF IngestorInv, IngestorTypes
  <2>2. p = NoOverride \/ p \in Policies
    BY PipelineAssumption
  <2> QED BY <2>1, <2>2, OutsTyped, SimulationFollows
<1> QED BY <1>1, IngestorInvariance, PTL

=============================================================================
