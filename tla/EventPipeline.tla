--------------------------- MODULE EventPipeline ----------------------------
(***************************************************************************)
(* Events from the kernel to their replay: threads emit through a          *)
(* BufferedEmitter one of whose callbacks is EventIngestor.on_event, which *)
(* writes to a store in the thread that emits what has a report of the     *)
(* kernel; another callback may raise; a thread that emits nothing may     *)
(* flush; what the store holds is replayed.                                *)
(***************************************************************************)
EXTENDS BufferedEmitter, EventIngestor, Replay

CONSTANTS
    Ingestor,       \* the name EventIngestor.on_event is subscribed under
    Overrides,      \* override policies that are tried
    Window          \* [chain, from, to]: what is replayed

ASSUME PipelineAssumption ==
    /\ Ingestor \in Names /\ Callers = Threads
    /\ \A p \in Overrides : p = NoOverride \/ p \in Policies

vars == <<evars, ivars>>

Init == EmitterInit(Names) /\ IngestorInit

(* Whether the payload of an event has a "safety_event". *)
HasReport(e) == Raw[e] # {}

(* An emit that has yet to call the ingestor, or waits for it to return. *)
Calling(t) == \E c \in emitting[t].targets : c[1] = Ingestor

(* Events start to be emitted in the order of their numbers; threads then   *)
(* overtake each other.                                                     *)
Emit(t, e) ==
    /\ e \notin emitted /\ \A f \in EventIds : f < e => f \in emitted
    /\ writing[t] = NotWriting
    /\ BeginEmit(t, e) /\ UNCHANGED ivars

IngestorReturns(t) ==
    \E c \in emitting[t].targets : c[1] = Ingestor /\ CallbackReturns(t, c)

(* on_event never raises; it returns when the batch it took over is written. *)
ReturnsOnceWritten(t) ==
    IF writing'[t] = NotWriting THEN IngestorReturns(t) ELSE UNCHANGED evars

OnEvent(t) ==
    /\ Calling(t) /\ HasReport(emitting[t].event[1])
    /\ Ingest(t, emitting[t].event[1])
    /\ ReturnsOnceWritten(t)

(* Other events are ignored, such as VeronicaOS' own. *)
OnOtherEvent(t) ==
    /\ Calling(t) /\ ~HasReport(emitting[t].event[1])
    /\ IngestorReturns(t)
    /\ UNCHANGED ivars

OnEventWrites(t) ==
    /\ emitting[t] # NotEmitting
    /\ PutMany(t) \/ PutManyRaises(t)
    /\ ReturnsOnceWritten(t)

(* Callbacks are called in the order of their subscriptions, and the        *)
(* ingestor's was the first.                                                *)
OtherCallback(t) ==
    /\ ~Calling(t)
    /\ \E c \in emitting[t].targets :
          CallbackReturns(t, c) \/ CallbackRaises(t, c) \/ CallbackExits(t, c)
    /\ UNCHANGED ivars

FlusherWrites(t) ==
    /\ emitting[t] = NotEmitting
    /\ PutMany(t) \/ PutManyRaises(t)
    /\ UNCHANGED evars

EmitStep(t) ==
    \/ OnEvent(t) \/ OnEventWrites(t) \/ OnOtherEvent(t)
    \/ OtherCallback(t)
    \/ EndEmit(t) /\ UNCHANGED ivars

Next ==
    \/ \E t \in Threads, e \in EventIds : Emit(t, e)
    \/ \E t \in Threads : EmitStep(t)
    \/ \E n \in Names \ {Ingestor} : (Subscribe(n) \/ Unsubscribe(n)) /\ UNCHANGED ivars
    \/ Drain(MaxLen) /\ UNCHANGED ivars
    \/ \E t \in Threads : emitting[t] = NotEmitting /\ Flush(t) /\ UNCHANGED evars
    \/ \E t \in Threads : FlusherWrites(t)

Spec == Init /\ [][Next]_vars

----------------------------------------------------------------------------
(***************************************************************************)
(* The ring and the ingestor account for the same events, as far as they   *)
(* concern it: one that was emitted was drained, waits in the ring or is   *)
(* counted by dropped_total; the ingestor has received those of them with  *)
(* a report, and no other, or will in the emit under way, whatever other   *)
(* callbacks do (emit, on_event).                                          *)
(***************************************************************************)
EmittedIsIngested ==
    /\ Cardinality(emitted) = drained + buffered + dropped
    /\ received \subseteq {e \in emitted : HasReport(e)}
    /\ \A e \in emitted \ received :
          HasReport(e) => \E t \in Threads : emitting[t].event = <<e>> /\ Calling(t)

Quiet == \A t \in Threads : emitting[t] = NotEmitting /\ writing[t] = NotWriting

(* However the writes of threads overlapped and were repeated, once they    *)
(* have ended; see ReplayIsCumulative.                                      *)
ReplayIgnoresArrival ==
    Quiet => \A p \in Overrides : ReplayIsCumulative(records, Window.chain, Window.from, Window.to, p)

(* See SimulationFollowsReplay, of all that was written.                    *)
SimulationAgrees ==
    Quiet => \A p \in Overrides : SimulationFollowsReplay(records, Window.chain, Window.from, Window.to, p)
=============================================================================
