---------------------------- MODULE EventIngestor ----------------------------
(***************************************************************************)
(* EventIngestor and its store (ingest/event_ingestor.py): events are      *)
(* converted, batched, and written by the thread that fills a batch or     *)
(* flushes it, with retries; what cannot be written goes to a dead letter  *)
(* of limited size.  Each region under the lock and each attempt to write  *)
(* is one action.                                                          *)
(***************************************************************************)
EXTENDS Integers, Sequences, SequencesExt, FiniteSetsExt

CONSTANTS
    Callers,        \* threads that ingest or flush
    EventIds,       \* events that occur, each once
    Raw,            \* Raw[e]: the reports the kernel may make of event e, none of
                    \* an event that is not the kernel's
    CleanId,        \* CleanId[i]: an id with its unsafe characters replaced by "_"
    Decisions,      \* decisions of veronica-core that _DECISION_MAP has
    NonFinite,      \* a number that is not finite
    NotANumber,     \* a value float() or int() refuses
    BatchSize,      \* batch_size, 0 for none
    Attempts,       \* 1 + Len(_WRITE_RETRY_DELAYS): attempts to write
    DeadLetterMax,  \* _DEAD_LETTER_MAX
    MaxRecords,     \* max_records of the store
    MaxStoreFaults  \* bound: attempts to write that fail

ASSUME IngestorAssumption ==
    /\ BatchSize \in Nat /\ DeadLetterMax \in Nat /\ MaxStoreFaults \in Nat
    /\ Attempts \in Nat \ {0} /\ MaxRecords \in Nat \ {0}
    /\ \A e \in EventIds : \A raw \in Raw[e] :
          /\ raw.cost \in Int \cup {NonFinite, NotANumber}
          /\ raw.tokens \in Int \cup {NotANumber}
          /\ CleanId[raw.step] \in Int /\ raw.time \in Int

VARIABLES
    batch,          \* _batch
    ingestedTotal,  \* _ingested_total
    errorTotal,     \* _error_total
    deadLetter,     \* _dead_letter
    records,        \* _records of the store, the oldest first
    writing,        \* what each caller has yet to write: [batch, attempt]
    storeFaults,    \* attempts that have failed
    received,       \* history: events given to ingest
    refused,        \* history: events that were not converted
    lost,           \* history: events dropped since the dead letter was full
    evicted         \* history: events the store has dropped

ivars == <<batch, ingestedTotal, errorTotal, deadLetter, records, writing,
           storeFaults, received, refused, lost, evicted>>

NotWriting == [batch |-> <<>>, attempt |-> 0]

IngestorInit ==
    /\ batch = <<>> /\ deadLetter = <<>> /\ records = <<>>
    /\ ingestedTotal = 0 /\ errorTotal = 0 /\ storeFaults = 0
    /\ writing = [t \in Callers |-> NotWriting]
    /\ received = {} /\ refused = {} /\ lost = {} /\ evicted = {}

----------------------------------------------------------------------------
(* Conversion.                                                              *)

Convertible(raw) == raw.cost # NotANumber /\ raw.tokens # NotANumber

NonNegative(x) == IF x = NonFinite THEN 0 ELSE Max({0, x})

(* A decision that is not mapped is not taken for an "allow". *)
MappedDecision(d) == IF d \in Decisions THEN d ELSE "unknown"

Converted(e, raw) ==
    [id |-> e, step |-> CleanId[raw.step], chain |-> CleanId[raw.chain],
     cost |-> NonNegative(raw.cost), tokens |-> Max({0, raw.tokens}),
     decision |-> MappedDecision(raw.decision), time |-> raw.time]

----------------------------------------------------------------------------
(* ingest, for an event that can be converted: a batch that is full changes *)
(* hands under the lock.                                                    *)
Take(t, e, raw) ==
    /\ Convertible(raw)
    /\ LET filled == Append(batch, Converted(e, raw)) IN
          IF Len(filled) >= BatchSize
          THEN /\ writing' = [writing EXCEPT ![t] = [batch |-> filled, attempt |-> 1]]
               /\ batch' = <<>>
          ELSE batch' = filled /\ UNCHANGED writing
    /\ ingestedTotal' = ingestedTotal + 1
    /\ UNCHANGED <<errorTotal, refused>>

Refuse(e, raw) ==
    /\ ~Convertible(raw)
    /\ errorTotal' = errorTotal + 1
    /\ refused' = refused \cup {e}
    /\ UNCHANGED <<batch, ingestedTotal, writing>>

Ingest(t, e) ==
    /\ writing[t] = NotWriting
    /\ e \notin received
    /\ \E raw \in Raw[e] : Take(t, e, raw) \/ Refuse(e, raw)
    /\ received' = received \cup {e}
    /\ UNCHANGED <<deadLetter, records, storeFaults, lost, evicted>>

Flush(t) ==
    /\ writing[t] = NotWriting /\ batch # <<>>
    /\ writing' = [writing EXCEPT ![t] = [batch |-> batch, attempt |-> 1]]
    /\ batch' = <<>>
    /\ UNCHANGED <<ingestedTotal, errorTotal, deadLetter, records, storeFaults,
                   received, refused, lost, evicted>>

(* The store with outcomes appended and the oldest dropped beyond its cap. *)
Ids(outs) == {outs[i].id : i \in DOMAIN outs}
Stored(outs) ==
    LET all == records \o outs
        kept == SubSeq(all, Max({1, Len(all) - MaxRecords + 1}), Len(all))
    IN  /\ records' = kept
        /\ evicted' = evicted \cup (Ids(all) \ Ids(kept))

PutMany(t) ==
    /\ writing[t] # NotWriting
    /\ Stored(writing[t].batch)
    /\ writing' = [writing EXCEPT ![t] = NotWriting]
    /\ UNCHANGED <<batch, ingestedTotal, errorTotal, deadLetter, storeFaults,
                   received, refused, lost>>

(* What becomes of outcomes that could not be written. *)
BuriedAnyway(outs) ==
    /\ deadLetter' = SubSeq(deadLetter \o outs, 1,
                            Min({DeadLetterMax, Len(deadLetter) + Len(outs)}))
    /\ errorTotal' = errorTotal + Len(outs)
    /\ UNCHANGED lost

Buried(outs) ==
    LET room  == Max({0, DeadLetterMax - Len(deadLetter)})
        saved == Min({Len(outs), room})
    IN  /\ deadLetter' = deadLetter \o SubSeq(outs, 1, saved)
        /\ errorTotal' = errorTotal + Len(outs)
        /\ lost' = lost \cup Ids(SubSeq(outs, saved + 1, Len(outs)))

ExhaustedLate(t) == writing[t].attempt > Attempts
Exhausted(t) == writing[t].attempt >= Attempts

(* A store of another kind raises, and may have kept some of the batch.     *)
PutManyRaises(t) ==
    /\ writing[t] # NotWriting /\ storeFaults < MaxStoreFaults
    /\ \E n \in 0..Len(writing[t].batch) : Stored(SubSeq(writing[t].batch, 1, n))
    /\ storeFaults' = storeFaults + 1
    /\ IF ~Exhausted(t)
       THEN /\ writing' = [writing EXCEPT ![t].attempt = @ + 1]
            /\ UNCHANGED <<deadLetter, errorTotal, lost>>
       ELSE /\ writing' = [writing EXCEPT ![t] = NotWriting]
            /\ Buried(writing[t].batch)
    /\ UNCHANGED <<batch, ingestedTotal, received, refused>>

----------------------------------------------------------------------------
InFlight == UNION {Ids(writing[t].batch) : t \in Callers}

(***************************************************************************)
(* Whatever the threads do and the store refuses, an event that was        *)
(* converted is waiting, with a writer, in the store, in the dead letter   *)
(* or counted: as an error if it was not written, as evicted if it was.    *)
(* It waits in one place only, the two totals account for all events and   *)
(* the dead letter keeps to its limit (ingest, flush, _write).             *)
(***************************************************************************)
EventsAccounted ==
    LET taken == received \ refused
        kept  == Ids(records) \cup evicted
    IN  /\ ingestedTotal = Cardinality(taken) /\ Len(deadLetter) <= DeadLetterMax
        /\ taken = Ids(batch) \cup InFlight \cup kept \cup Ids(deadLetter) \cup lost
        /\ errorTotal = Cardinality(refused) + Len(deadLetter) + Cardinality(lost)
        /\ Ids(batch) \cap (InFlight \cup kept \cup Ids(deadLetter) \cup lost) = {}
        /\ \A t, u \in Callers : t # u => Ids(writing[t].batch) \cap Ids(writing[u].batch) = {}

(* Only a failed attempt makes the store hold an event twice, and no event  *)
(* more often than there are attempts.                                      *)
StoredOncePerAttempt ==
    \A e \in EventIds :
        Cardinality({i \in DOMAIN records : records[i].id = e})
            <= 1 + Min({storeFaults, Attempts - 1})
=============================================================================
