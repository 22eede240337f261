--------------------------- MODULE EnricherProofs ---------------------------
(***************************************************************************)
(* The enricher's accounting across checkpoints and restarts, for every    *)
(* instance: types, then the inductive invariant behind Accounted,         *)
(* WaitingHasTimer, MetadataFirst, NothingTwice and OneVerdict.            *)
(***************************************************************************)
EXTENDS Enricher, TLAPS

-----------------------------------------------------------------------------
(* Operators *)

LEMMA ClueInVerdict ==
  ASSUME NEW facts, NEW titled \in BOOLEAN
  PROVE  ClassifyWithTitle(facts, titled) \in Verdict
<1> DEFINE present == {i \in DOMAIN Clues : IF Clues[i] = "title_keyword" THEN titled ELSE Clues[i] \in facts}
<1>1. DOMAIN Clues = 1 .. 6
  BY DEF Clues
<1>2. ASSUME present # {}
      PROVE  \E i \in present : \A j \in present : i <= j
  <2> HIDE DEF present
  <2>1. present \subseteq 1 .. 6
    BY <1>1 DEF present
  <2>2. PICK k \in 1 .. 6 : k \in present /\ \A i \in 1 .. k - 1 : i \notin present
    <3>1. \A j \in 1 .. 6 : j \in {1, 2, 3, 4, 5, 6}
      OBVIOUS
    <3>2. CASE 1 \in present
      BY <3>2
    <3>3. CASE 1 \notin present /\ 2 \in present
      BY <3>3
    <3>4. CASE 1 \notin present /\ 2 \notin present /\ 3 \in present
      BY <3>4
    <3>5. CASE 1 \notin present /\ 2 \notin present /\ 3 \notin present /\ 4 \in present
      BY <3>5
    <3>6. CASE 1 \notin present /\ 2 \notin present /\ 3 \notin present /\ 4 \notin present /\ 5 \in present
      BY <3>6
    <3>7. CASE 1 \notin present /\ 2 \notin present /\ 3 \notin present /\ 4 \notin present /\ 5 \notin present
      <4>1. PICK i \in present : i \in {1, 2, 3, 4, 5, 6}
        BY <1>2, <2>1, <3>1
      <4>2. i = 6
        BY <4>1, <3>7
      <4>3. QED
        BY <4>1, <4>2, <3>7
    <3>8. QED
      BY <3>2, <3>3, <3>4, <3>5, <3>6, <3>7
  <2>3. QED
    BY <2>1, <2>2
<1>3. ASSUME present # {}
      PROVE  (CHOOSE i \in present : \A j \in present : i <= j) \in DOMAIN Clues
  BY <1>2, <1>3
<1>4. \A i \in DOMAIN Clues : Clues[i] \in Verdict
  BY DEF Verdict, Range
<1>5. QED
  BY <1>3, <1>4 DEF ClassifyWithTitle, Verdict

LEMMA VerdictOnInVerdict ==
  ASSUME NEW v \in Videos
  PROVE  VerdictOn(v) \in Verdict
<1>1. (FirstOf(v) \in Titled) \in BOOLEAN
  OBVIOUS
<1>2. ClassifyWithTitle(ApiFacts[v], FirstOf(v) \in Titled) \in Verdict
  BY <1>1, ClueInVerdict
<1>3. QED
  BY <1>2 DEF VerdictOn

LEMMA RangeOfSeq ==
  ASSUME NEW S, NEW s \in Seq(S), NEW e \in S
  PROVE  /\ Range(s) \subseteq S
         /\ Append(s, e) \in Seq(S)
         /\ Range(Append(s, e)) = Range(s) \cup {e}
<1>1. DOMAIN s = 1 .. Len(s) /\ \A i \in 1 .. Len(s) : s[i] \in S
  OBVIOUS
<1>2. Append(s, e) \in Seq(S) /\ Len(Append(s, e)) = Len(s) + 1
  OBVIOUS
<1>3. /\ \A i \in 1 .. Len(s) : Append(s, e)[i] = s[i]
      /\ Append(s, e)[Len(s) + 1] = e
      /\ DOMAIN Append(s, e) = 1 .. Len(s) + 1
  OBVIOUS
<1>4. 1 .. Len(s) + 1 = (1 .. Len(s)) \cup {Len(s) + 1}
  OBVIOUS
<1>5. QED
  BY <1>1, <1>2, <1>3, <1>4 DEF Range

LEMMA RangeOfEmpty == Range(<<>>) = {}
BY DEF Range

-----------------------------------------------------------------------------
(* Types *)

LEMMA FlushBatchType ==
  ASSUME NEW read \in SUBSET Events, NEW pending \in Seq(Events), FlushBatch(read, pending)
  PROVE  state' \in State /\ ids' \subseteq Videos /\ flush' \in Flush
<1>1. state' \in State /\ ids' \subseteq Videos
  BY DEF FlushBatch, State
<1>2. 0 \in 0 .. MAX_RETRIES - 1 /\ <<>> \in Seq(Events)
  BY EnricherAssumption
<1>3. flush' \in Flush
  BY <1>2 DEF FlushBatch, Flush, NoFlush
<1>4. QED
  BY <1>1, <1>3

LEMMA SettledType ==
  ASSUME NEW v \in Videos, flush \in Flush, Settled(v)
  PROVE  flush' \in Flush
<1>1. 0 \in 0 .. MAX_RETRIES - 1 /\ <<>> \in Seq(Events)
  BY EnricherAssumption
<1>2. QED
  BY <1>1 DEF Settled, Flush, NoFlush

LEMMA EmitType ==
  ASSUME NEW records \in SUBSET Record, sent \subseteq Record, emitted \subseteq Events, Emit(records)
  PROVE  sent' \subseteq Record /\ emitted' \subseteq Events
BY DEF Emit, Record

LEMMA WaitingForEvents ==
  ASSUME TypeOK, NEW v \in Videos
  PROVE  WaitingFor(v) \subseteq Events
<1>1. flush.events \in Seq(Events)
  BY DEF TypeOK, Flush
<1>2. \A i \in DOMAIN flush.events : flush.events[i] \in Events
  BY <1>1
<1>3. QED
  BY <1>2 DEF WaitingFor, Range

LEMMA RestoreType ==
  ASSUME TypeOK, TaskEnds
  PROVE  /\ state' \in State /\ checkpoint' \in State /\ submitted' \in Metadata
         /\ ids' \subseteq Videos /\ flush' \in Flush
         /\ sent' \subseteq Record /\ topics' \subseteq Record /\ emitted' \subseteq Events
<1>1. 0 \in 0 .. MAX_RETRIES - 1 /\ <<>> \in Seq(Events)
  BY EnricherAssumption
<1>2. flush' \in Flush
  BY <1>1 DEF TaskEnds, Flush, NoFlush
<1>3. QED
  BY <1>2 DEF TaskEnds, TypeOK

LEMMA TypeInit == Init => TypeOK
<1> SUFFICES ASSUME Init PROVE TypeOK
  OBVIOUS
<1>1. 0 \in 0 .. MAX_RETRIES - 1 /\ 0 \in 0 .. MaxFaults /\ <<>> \in Seq(Events)
  BY EnricherAssumption
<1>2. flush \in Flush
  BY <1>1 DEF Init, Flush, NoFlush
<1>3. state \in State /\ checkpoint \in State
  BY <1>1 DEF Init, State, Start
<1>4. Empty \in Metadata
  BY DEF Empty, Metadata
<1>5. QED
  BY <1>1, <1>2, <1>3, <1>4 DEF Init, TypeOK

LEMMA FaultType ==
  ASSUME faults \in 0 .. MaxFaults, Fault
  PROVE  faults' \in 0 .. MaxFaults
BY EnricherAssumption DEF Fault

LEMMA TypeStep == TypeOK /\ [Next]_vars => TypeOK'
<1> SUFFICES ASSUME TypeOK, [Next]_vars PROVE TypeOK'
  OBVIOUS
<1> USE DEF flowVars, outVars
<1>1. CASE LoadPoll
  <2>1. cache' \in Metadata /\ unread' \subseteq Videos
    BY <1>1 DEF LoadPoll, TypeOK, Metadata
  <2>2. QED
    BY <1>1, <2>1 DEF LoadPoll, TypeOK
<1>2. CASE Submit
  BY <1>2 DEF Submit, TypeOK
<1>3. ASSUME NEW e \in Events, CacheHit(e) PROVE TypeOK'
  <2>1. cache[VideoOf[e]] \in Verdict
    BY <1>3, EnricherAssumption DEF CacheHit, TypeOK, Metadata
  <2>2. {[event |-> e, as |-> cache[VideoOf[e]]]} \in SUBSET Record
    BY <2>1 DEF Record
  <2>3. sent' \subseteq Record /\ emitted' \subseteq Events
    BY <1>3, <2>2, EmitType DEF CacheHit, TypeOK
  <2>4. state' \in State
    BY <1>3 DEF CacheHit, TypeOK, State
  <2>5. QED
    BY <1>3, <2>3, <2>4 DEF CacheHit, TypeOK
<1>4. ASSUME NEW e \in Events, Collect(e) PROVE TypeOK'
  <2> DEFINE collected == Append(state.pending, e)
             unique    == ids \cup {VideoOf[e]}
  <2>1. /\ state.read \cup {e} \in SUBSET Events /\ collected \in Seq(Events)
        /\ unique \subseteq Videos
    BY EnricherAssumption DEF TypeOK, State
  <2>2. CASE Cardinality(unique) >= BATCH_SIZE
    <3>1. FlushBatch(state.read \cup {e}, collected)
      BY <1>4, <2>2 DEF Collect, Await
    <3>2. QED
      BY <1>4, <2>1, <3>1, FlushBatchType DEF Collect, Await, TypeOK
  <2>3. CASE ~(Cardinality(unique) >= BATCH_SIZE)
    <3>1. /\ state' = [read |-> state.read \cup {e}, pending |-> collected, timer |-> TRUE]
          /\ ids' = unique /\ UNCHANGED flush
      BY <1>4, <2>3 DEF Collect, Await
    <3>2. state' \in State
      BY <2>1, <3>1 DEF State
    <3>3. QED
      BY <1>4, <2>1, <3>1, <3>2 DEF Collect, Await, TypeOK
  <2>4. QED
    BY <2>2, <2>3
<1>5. CASE OnTimer
  <2>1. state.read \in SUBSET Events /\ state.pending \in Seq(Events)
    BY DEF TypeOK, State
  <2>2. QED
    BY <1>5, <2>1, FlushBatchType DEF OnTimer, TypeOK
<1>6. CASE Fetched
  <2>1. Batch \subseteq Videos
    <3>1. flush.events \in Seq(Events)
      BY DEF TypeOK, Flush
    <3>2. \A i \in DOMAIN flush.events : VideoOf[flush.events[i]] \in Videos
      BY <3>1, EnricherAssumption
    <3>3. QED
      BY <3>2 DEF Batch, VideosOf, Range
  <2>2. flush' \in Flush
    <3>1. PICK gone \in SUBSET (Batch \cap Fragile) :
            flush' = [flush EXCEPT !.step = "settle", !.found = Batch \ gone, !.left = Batch]
      BY <1>6 DEF Fetched
    <3>2. flush \in Flush /\ Batch \ gone \in SUBSET Videos /\ Batch \in SUBSET Videos
      BY <2>1 DEF TypeOK
    <3>3. QED
      BY <3>1, <3>2 DEF Flush
  <2>3. QED
    BY <1>6, <2>2 DEF Fetched, TypeOK
<1>7. CASE Retry
  <2>1. flush' \in Flush
    <3>1. flush \in Flush /\ flush.attempt \in 0 .. MAX_RETRIES - 1
      BY DEF TypeOK, Flush
    <3>2. flush.attempt + 1 \in 0 .. MAX_RETRIES - 1
      BY <1>7, <3>1, EnricherAssumption DEF Retry
    <3>3. QED
      BY <1>7, <3>1, <3>2 DEF Retry, Flush
  <2>2. QED
    BY <1>7, <2>1 DEF Retry, TypeOK
<1>8. ASSUME NEW v \in Videos, DeadLetter(v) PROVE TypeOK'
  <2>1. {[event |-> e, as |-> "dlq"] : e \in WaitingFor(v)} \in SUBSET Record
    BY WaitingForEvents DEF Record
  <2>2. sent' \subseteq Record /\ emitted' \subseteq Events /\ flush' \in Flush
    BY <1>8, <2>1, EmitType, SettledType DEF DeadLetter, TypeOK
  <2>3. QED
    BY <1>8, <2>2 DEF DeadLetter, TypeOK
<1>9. ASSUME NEW v \in Videos, Enrich(v) PROVE TypeOK'
  <2>1. {[event |-> e, as |-> VerdictOn(v)] : e \in WaitingFor(v)} \in SUBSET Record
    BY WaitingForEvents, VerdictOnInVerdict DEF Record
  <2>2. sent' \subseteq Record /\ emitted' \subseteq Events /\ flush' \in Flush
    BY <1>9, <2>1, EmitType, SettledType DEF Enrich, EnrichWith, TypeOK
  <2>3. cache' \in Metadata /\ metadata' \in Metadata
    BY <1>9, VerdictOnInVerdict DEF Enrich, EnrichWith, TypeOK, Metadata
  <2>4. QED
    BY <1>9, <2>2, <2>3 DEF Enrich, EnrichWith, TypeOK
<1>10. CASE Checkpoint
  BY <1>10 DEF Checkpoint, Completed, TypeOK
<1>11. CASE TooMany
  BY <1>11, RestoreType DEF TooMany, Restore, TypeOK
<1>12. CASE TaskFails
  BY <1>12, RestoreType, FaultType DEF TaskFails, Restore, TypeOK
<1>13. ASSUME NEW v \in Videos, PublishFails(v) PROVE TypeOK'
  <2>1. metadata' \in Metadata
    BY <1>13, VerdictOnInVerdict DEF PublishFails, TypeOK, Metadata
  <2>2. QED
    BY <1>13, <2>1, RestoreType, FaultType DEF PublishFails, Restore, TypeOK
<1>14. CASE JobFails
  <2>1. Empty \in Metadata
    BY DEF Empty, Metadata
  <2>2. QED
    BY <1>14, <2>1, RestoreType, FaultType DEF JobFails, TypeOK
<1>15. CASE UNCHANGED vars
  BY <1>15 DEF vars, TypeOK
<1>16. QED
  BY <1>1, <1>2, <1>3, <1>4, <1>5, <1>6, <1>7, <1>8, <1>9, <1>10, <1>11, <1>12, <1>13, <1>14, <1>15
  DEF Next, Read, Answer, Settle

\* Types are kept, whatever fails and restarts.
THEOREM TypeSafety == Spec => []TypeOK
BY TypeInit, TypeStep, PTL DEF Spec

-----------------------------------------------------------------------------
(* The inductive invariant *)

\* A batch is being flushed only when the state is clear of events.
FlushShape ==
  /\ flush.step = "none" => flush.events = <<>>
  /\ flush.step # "none" => state.pending = <<>> /\ ~booting
  /\ flush.left \subseteq Batch
  /\ booting => state.pending = checkpoint.pending

\* What a cache knows, the topic knows.
CacheIsDurable ==
  \A v \in Videos : cache[v] # Unknown \/ submitted[v] # Unknown => metadata[v] # Unknown

Handed == {r.event : r \in sent}

\* What waits or was handed over since the last restart was read, and a checkpoint
\* holds no event twice.
WasRead ==
  /\ Range(state.pending) \cup Busy \cup Handed \subseteq state.read
  /\ Range(checkpoint.pending) \subseteq checkpoint.read
  /\ IsInjective(checkpoint.pending)

\* An event waits although its video is known only when it was restored.
WaitsUnknown ==
  \A e \in Range(state.pending) \cup Unsettled :
    cache[VideoOf[e]] = Unknown \/ VideoOf[e] \in VideosOf(checkpoint.pending)

IInv ==
  /\ TypeOK
  /\ FlushShape
  /\ Accounted
  /\ WaitingHasTimer
  /\ CacheIsDurable
  /\ MetadataFirst
  /\ WasRead
  /\ NothingTwice
  /\ WaitsUnknown

LEMMA AppendInjective ==
  ASSUME NEW S, NEW s \in Seq(S), NEW e \in S, IsInjective(s), e \notin Range(s)
  PROVE  IsInjective(Append(s, e))
<1>1. DOMAIN Append(s, e) = 1 .. Len(s) + 1 /\ DOMAIN s = 1 .. Len(s)
  OBVIOUS
<1>2. /\ \A i \in 1 .. Len(s) : Append(s, e)[i] = s[i]
      /\ Append(s, e)[Len(s) + 1] = e
  OBVIOUS
<1>3. \A i \in 1 .. Len(s) : s[i] # e
  BY <1>1 DEF Range
<1>4. \A i \in 1 .. Len(s) + 1 : i \in 1 .. Len(s) \/ i = Len(s) + 1
  OBVIOUS
<1>5. \A i, j \in 1 .. Len(s) : s[i] = s[j] => i = j
  BY <1>1 DEF IsInjective
<1>6. QED
  BY <1>1, <1>2, <1>3, <1>4, <1>5 DEF IsInjective

LEMMA EmptyInjective == IsInjective(<<>>)
BY DEF IsInjective

\* What flushBatch does before the API call: all that is pending becomes the batch.
LEMMA FlushBatchEffect ==
  ASSUME NEW read, NEW pending \in Seq(Events), FlushBatch(read, pending)
  PROVE  /\ state'.read = read /\ state'.pending = <<>> /\ flush'.events = pending
         /\ flush'.step # "settle" /\ flush'.left = {}
         /\ flush'.step = "none" => pending = <<>>
         /\ Busy' = Range(pending) /\ Unsettled' = Range(pending)
<1>1. state'.read = read /\ state'.pending = <<>>
  BY DEF FlushBatch
<1>2. /\ flush'.events = pending /\ flush'.step # "settle" /\ flush'.left = {}
      /\ flush'.step = "none" => pending = <<>>
  BY DEF FlushBatch, NoFlush
<1>3. QED
  BY <1>1, <1>2 DEF Busy, Unsettled

\* What the loop of flushBatch does over one video: its events are settled, no others.
LEMMA SettledEffect ==
  ASSUME TypeOK, NothingTwice, FlushShape, NEW v \in flush.left, flush.step = "settle", Settled(v)
  PROVE  /\ WaitingFor(v) \subseteq Unsettled
         /\ Unsettled' = Unsettled \ WaitingFor(v)
         /\ Busy' \subseteq Busy /\ IsInjective(flush'.events)
         /\ flush'.left \subseteq Batch' /\ (flush'.step = "none" => flush'.events = <<>>)
<1>1. WaitingFor(v) = {e \in Unsettled : VideoOf[e] = v}
  BY DEF WaitingFor, Unsettled, Busy
<1>2. CASE flush.left = {v}
  <2>1. flush' = NoFlush
    BY <1>2 DEF Settled
  <2>2. Busy' = {} /\ Unsettled' = {} /\ flush'.events = <<>> /\ flush'.left = {}
    BY <2>1, RangeOfEmpty DEF NoFlush, Busy, Unsettled
  <2>3. Unsettled \ WaitingFor(v) = {}
    BY <1>1, <1>2 DEF Unsettled
  <2>4. QED
    BY <1>1, <2>2, <2>3, EmptyInjective
<1>3. CASE flush.left # {v}
  <2>1. flush' = [flush EXCEPT !.left = @ \ {v}] /\ flush \in Flush
    BY <1>3 DEF Settled, TypeOK
  <2>2. /\ flush'.step = "settle" /\ flush'.events = flush.events
        /\ flush'.left = flush.left \ {v}
    BY <2>1 DEF Flush
  <2>3. Unsettled' = {e \in Unsettled : VideoOf[e] # v}
    BY <2>2 DEF Unsettled, Busy
  <2>4. Batch' = Batch
    BY <2>2 DEF Batch
  <2>5. QED
    BY <1>1, <2>2, <2>3, <2>4 DEF FlushShape, NothingTwice, Busy
<1>4. QED
  BY <1>2, <1>3

LEMMA EmitEffect ==
  ASSUME NEW records, Emit(records)
  PROVE  /\ Handed' = Handed \cup {r.event : r \in records}
         /\ emitted' = emitted \cup {r.event : r \in records}
BY DEF Emit, Handed

\* A flush that starts keeps every part, whether by the timer or with one more event.
LEMMA FlushStarts ==
  ASSUME IInv, TypeOK', Idle,
         NEW new \in SUBSET Events, new \cap state.read = {},
         NEW pending \in Seq(Events), Range(pending) = Range(state.pending) \cup new, IsInjective(pending),
         \A e \in new : cache[VideoOf[e]] = Unknown,
         FlushBatch(state.read \cup new, pending),
         UNCHANGED <<booting, unread, submitted, cache, checkpoint, outVars, faults>>
  PROVE  IInv'
<1>1. /\ state'.read = state.read \cup new /\ state'.pending = <<>> /\ flush'.events = pending
      /\ flush'.step # "settle" /\ flush'.left = {}
      /\ flush'.step = "none" => pending = <<>>
      /\ Busy' = Range(pending) /\ Unsettled' = Range(pending)
  BY FlushBatchEffect
<1>2. Range(state'.pending) = {} /\ IsInjective(state'.pending)
  BY <1>1, RangeOfEmpty, EmptyInjective
<1>3. Busy = {} /\ Unsettled = {} /\ ~booting
  BY RangeOfEmpty DEF IInv, FlushShape, Idle, Busy, Unsettled
<1>4. Handed' = Handed
  BY DEF outVars, Handed
<1>5. FlushShape'
  BY <1>1, <1>3 DEF FlushShape
<1>6. Accounted'
  BY <1>1, <1>2, <1>3 DEF IInv, Accounted, outVars
<1>7. WaitingHasTimer'
  BY <1>1 DEF IInv, WaitingHasTimer
<1>8. CacheIsDurable' /\ MetadataFirst'
  BY DEF IInv, CacheIsDurable, MetadataFirst, outVars
<1>9. WasRead'
  BY <1>1, <1>2, <1>4 DEF IInv, WasRead
<1>10. NothingTwice'
  <2>1. Range(pending) \cap Handed = {}
    BY DEF IInv, NothingTwice, WasRead, Handed
  <2>2. QED
    BY <1>1, <1>2, <1>4, <2>1 DEF IInv, NothingTwice, Handed, outVars
<1>11. WaitsUnknown'
  BY <1>1, <1>2 DEF IInv, WaitsUnknown
<1>12. QED
  BY <1>5, <1>6, <1>7, <1>8, <1>9, <1>10, <1>11 DEF IInv

\* Going back to the checkpoint keeps every part, whatever has become of the metadata
\* topic and the cache, as long as the cache is no better than the topic.
LEMMA GoingBack ==
  ASSUME IInv, TypeOK', TaskEnds, CacheIsDurable',
         \A v \in Videos : metadata[v] # Unknown => metadata'[v] # Unknown
  PROVE  IInv'
<1>1. /\ state' = checkpoint /\ checkpoint' = checkpoint /\ flush' = NoFlush /\ sent' = {}
      /\ emitted' = emitted /\ topics' \subseteq topics \cup sent
  BY DEF TaskEnds
<1>2. Busy' = {} /\ Unsettled' = {} /\ Handed' = {} /\ flush'.events = <<>> /\ flush'.left = {} /\ flush'.step = "none"
  BY <1>1, RangeOfEmpty DEF Busy, Unsettled, Handed, NoFlush
<1>3. FlushShape'
  BY <1>1, <1>2 DEF FlushShape
<1>4. Accounted' /\ WaitingHasTimer'
  BY <1>1, <1>2 DEF IInv, Accounted, WaitingHasTimer
<1>5. MetadataFirst'
  <2>1. \A r \in sent \cup topics : VideoOf[r.event] \in Videos
    BY EnricherAssumption DEF IInv, TypeOK, Record
  <2>2. QED
    BY <1>1, <2>1 DEF IInv, MetadataFirst
<1>6. WasRead'
  BY <1>1, <1>2 DEF IInv, WasRead
<1>7. NothingTwice'
  BY <1>1, <1>2, EmptyInjective DEF IInv, NothingTwice, WasRead
<1>8. WaitsUnknown'
  BY <1>1, <1>2 DEF WaitsUnknown, VideosOf
<1>9. QED
  BY <1>3, <1>4, <1>5, <1>6, <1>7, <1>8 DEF IInv

RecordsOf(W, as) == {[event |-> e, as |-> as] : e \in W}

LEMMA RecordsOfEvents ==
  ASSUME NEW W, NEW as
  PROVE  /\ {r.event : r \in RecordsOf(W, as)} = W
         /\ \A r \in RecordsOf(W, as) : r.event \in W /\ r.as = as
         /\ \A r, s \in RecordsOf(W, as) : r.event = s.event => r = s
<1> DEFINE rec(e) == [event |-> e, as |-> as]
           records == {rec(e) : e \in W}
<1>1. \A e \in W : rec(e).event = e /\ rec(e).as = as
  OBVIOUS
<1>2. \A r \in records : \E e \in W : r = rec(e)
  OBVIOUS
<1>3. \A e \in W : rec(e) \in records
  OBVIOUS
<1> HIDE DEF rec
<1>4. \A r \in records : r.event \in W /\ r.as = as /\ r = rec(r.event)
  BY <1>1, <1>2
<1>5. {r.event : r \in records} = W
  BY <1>1, <1>3, <1>4
<1>6. QED
  BY <1>4, <1>5 DEF rec, RecordsOf

\* The loop over one video, with or without data, keeps every part.
LEMMA VideoSettles ==
  ASSUME IInv, TypeOK', NEW v \in flush.left, flush.step = "settle", Settled(v),
         NEW as, Emit({[event |-> e, as |-> as] : e \in WaitingFor(v)}),
         CacheIsDurable', as # "dlq" => metadata'[v] # Unknown,
         \A w \in Videos : metadata[w] # Unknown => metadata'[w] # Unknown,
         \A w \in Videos \ {v} : cache'[w] = cache[w],
         UNCHANGED <<booting, state, checkpoint, topics>>
  PROVE  IInv'
<1> DEFINE records == {[event |-> e, as |-> as] : e \in WaitingFor(v)}
<1>1. /\ WaitingFor(v) \subseteq Unsettled
      /\ Unsettled' = Unsettled \ WaitingFor(v)
      /\ Busy' \subseteq Busy /\ IsInjective(flush'.events)
      /\ flush'.left \subseteq Batch' /\ (flush'.step = "none" => flush'.events = <<>>)
  BY SettledEffect DEF IInv
<1>2. /\ {r.event : r \in records} = WaitingFor(v)
      /\ \A r \in records : r.event \in WaitingFor(v) /\ r.as = as
      /\ \A r, s \in records : r.event = s.event => r = s
  <2>1. records = RecordsOf(WaitingFor(v), as)
    BY DEF RecordsOf
  <2>2. QED
    BY <2>1, RecordsOfEvents
<1>3. Handed' = Handed \cup WaitingFor(v) /\ emitted' = emitted \cup WaitingFor(v) /\ sent' = sent \cup records
  BY <1>2, EmitEffect DEF Emit
<1>4. state.pending = <<>> /\ ~booting /\ Range(state.pending) = {} /\ v \in Videos
  BY RangeOfEmpty DEF IInv, FlushShape, TypeOK, Flush
<1>5. FlushShape'
  BY <1>1, <1>4 DEF FlushShape
<1>6. Accounted'
  BY <1>1, <1>3 DEF IInv, Accounted
<1>7. WaitingHasTimer'
  BY DEF IInv, WaitingHasTimer
<1>8. MetadataFirst'
  <2>1. \A r \in sent \cup topics : VideoOf[r.event] \in Videos
    BY EnricherAssumption DEF IInv, TypeOK, Record
  <2>2. \A r \in records : r.as = as /\ VideoOf[r.event] = v
    <3> HIDE DEF records
    <3>1. QED
      BY <1>2 DEF WaitingFor
  <2>3. QED
    BY <1>3, <2>1, <2>2 DEF IInv, MetadataFirst
<1>9. WasRead'
  BY <1>1, <1>3 DEF IInv, WasRead, Unsettled
<1>10. NothingTwice'
  <2>1. Unsettled \cap Handed = {}
    BY DEF IInv, NothingTwice, Handed
  <2>2. \A r \in records : r.event \notin Handed
    <3> HIDE DEF records
    <3>1. QED
      BY <1>1, <1>2, <2>1
  <2>3. \A r \in sent : r.event \in Handed
    BY DEF Handed
  <2>4. \A r, s \in sent' : r.event = s.event => r = s
    <3>1. \A r, s \in sent : r.event = s.event => r = s
      BY DEF IInv, NothingTwice
    <3> HIDE DEF records
    <3>2. QED
      BY <1>2, <1>3, <2>2, <2>3, <3>1
  <2>5. Range(state'.pending) = {} /\ Unsettled' \cap Handed' = {} /\ IsInjective(state'.pending)
    BY <1>1, <1>3, <1>4, <2>1 DEF IInv, NothingTwice
  <2>6. QED
    BY <1>1, <2>4, <2>5 DEF NothingTwice, Handed
<1>11. WaitsUnknown'
  <2>1. \A e \in Unsettled' : e \in Unsettled /\ VideoOf[e] # v
    BY <1>1 DEF WaitingFor, Unsettled, Busy
  <2>2. \A e \in Unsettled : VideoOf[e] \in Videos
    BY EnricherAssumption DEF IInv, TypeOK, State, WasRead, Unsettled
  <2>3. VideosOf(checkpoint'.pending) = VideosOf(checkpoint.pending)
    BY DEF VideosOf
  <2>4. QED
    BY <1>4, <2>1, <2>2, <2>3 DEF IInv, WaitsUnknown
<1>12. QED
  BY <1>5, <1>6, <1>7, <1>8, <1>9, <1>10, <1>11 DEF IInv

LEMMA InvInit == Init => IInv
<1> SUFFICES ASSUME Init PROVE IInv
  OBVIOUS
<1>1. /\ Busy = {} /\ Unsettled = {} /\ Handed = {} /\ Range(state.pending) = {} /\ Range(checkpoint.pending) = {}
      /\ flush.step = "none" /\ flush.events = <<>> /\ flush.left = {} /\ state.pending = <<>> /\ checkpoint.pending = <<>>
      /\ state.read = {} /\ checkpoint.read = {}
  BY RangeOfEmpty DEF Init, Start, NoFlush, Busy, Unsettled, Handed
<1>2. \A v \in Videos : cache[v] = Unknown /\ submitted[v] = Unknown
  BY DEF Init, Empty
<1>3. sent = {} /\ topics = {}
  BY DEF Init
<1>4. QED
  BY <1>1, <1>2, <1>3, TypeInit, EmptyInjective
  DEF IInv, FlushShape, Accounted, WaitingHasTimer, CacheIsDurable, MetadataFirst, WasRead, NothingTwice, WaitsUnknown

LEMMA InvStep == IInv /\ [Next]_vars => IInv'
<1> SUFFICES ASSUME IInv, [Next]_vars PROVE IInv'
  OBVIOUS
<1>0. TypeOK'
  BY TypeStep DEF IInv
<1> USE DEF flowVars, outVars
<1>1. CASE LoadPoll
  <2>1. /\ Busy' = Busy /\ Unsettled' = Unsettled /\ Handed' = Handed /\ Batch' = Batch
        /\ VideosOf(checkpoint'.pending) = VideosOf(checkpoint.pending)
    BY <1>1 DEF LoadPoll, Busy, Unsettled, Handed, Batch, VideosOf
  <2>2. /\ FlushShape' /\ Accounted' /\ WaitingHasTimer' /\ MetadataFirst' /\ WasRead' /\ NothingTwice'
    BY <1>1, <2>1 DEF LoadPoll, IInv, FlushShape, Accounted, WaitingHasTimer, MetadataFirst, WasRead, NothingTwice, Handed
  <2>3. CacheIsDurable'
    BY <1>1 DEF LoadPoll, IInv, CacheIsDurable
  <2>4. Unsettled = {} /\ state.pending = checkpoint.pending
    BY <1>1, RangeOfEmpty DEF LoadPoll, IInv, FlushShape, Unsettled, Busy
  <2>5. WaitsUnknown'
    BY <1>1, <2>1, <2>4 DEF LoadPoll, WaitsUnknown, VideosOf
  <2>6. QED
    BY <1>0, <2>2, <2>3, <2>5 DEF IInv
<1>2. CASE Submit
  <2>1. /\ Busy' = Busy /\ Unsettled' = Unsettled /\ Handed' = Handed /\ Batch' = Batch
        /\ VideosOf(checkpoint'.pending) = VideosOf(checkpoint.pending)
    BY <1>2 DEF Submit, Busy, Unsettled, Handed, Batch, VideosOf
  <2>2. /\ FlushShape' /\ Accounted' /\ WaitingHasTimer' /\ MetadataFirst' /\ WasRead' /\ NothingTwice'
    BY <1>2, <2>1 DEF Submit, IInv, FlushShape, Accounted, WaitingHasTimer, MetadataFirst, WasRead, NothingTwice, Handed
  <2>3. CacheIsDurable' /\ WaitsUnknown'
    BY <1>2, <2>1 DEF Submit, IInv, CacheIsDurable, WaitsUnknown
  <2>4. QED
    BY <1>0, <2>2, <2>3 DEF IInv
<1>3. ASSUME NEW e \in Events, CacheHit(e) PROVE IInv'
  <2> DEFINE record == [event |-> e, as |-> cache[VideoOf[e]]]
  <2>1. /\ state' = [state EXCEPT !.read = @ \cup {e}] /\ state \in State
        /\ e \notin state.read /\ flush.step = "none" /\ ~booting /\ cache[VideoOf[e]] # Unknown
        /\ VideoOf[e] \in Videos
    BY <1>3, EnricherAssumption DEF CacheHit, Readable, Idle, IInv, TypeOK
  <2>2. state'.read = state.read \cup {e} /\ state'.pending = state.pending /\ state'.timer = state.timer
    BY <2>1 DEF State
  <2>3. Handed' = Handed \cup {e} /\ emitted' = emitted \cup {e} /\ sent' = sent \cup {record}
    <3>1. Emit({record})
      BY <1>3 DEF CacheHit
    <3>2. {r.event : r \in {record}} = {e}
      OBVIOUS
    <3>3. QED
      BY <3>1, <3>2, EmitEffect DEF Emit
  <2>4. /\ Busy' = Busy /\ Unsettled' = Unsettled /\ Batch' = Batch
        /\ VideosOf(checkpoint'.pending) = VideosOf(checkpoint.pending)
    BY <1>3 DEF CacheHit, Busy, Unsettled, Batch, VideosOf
  <2>5. Unsettled = {} /\ Busy = {}
    BY <2>1, RangeOfEmpty DEF IInv, FlushShape, Unsettled, Busy
  <2>6. FlushShape' /\ Accounted' /\ WaitingHasTimer' /\ WasRead'
    BY <1>3, <2>1, <2>2, <2>3, <2>4 DEF CacheHit, IInv, FlushShape, Accounted, WaitingHasTimer, WasRead
  <2>7. CacheIsDurable' /\ WaitsUnknown'
    BY <1>3, <2>2, <2>4 DEF CacheHit, IInv, CacheIsDurable, WaitsUnknown
  <2>8. MetadataFirst'
    BY <1>3, <2>1, <2>3 DEF CacheHit, IInv, MetadataFirst, CacheIsDurable
  <2>9. NothingTwice'
    <3>1. e \notin Handed /\ e \notin Range(state.pending)
      BY <2>1 DEF IInv, WasRead
    <3>2. QED
      BY <1>3, <2>2, <2>3, <2>4, <2>5, <3>1 DEF CacheHit, IInv, NothingTwice, Handed
  <2>10. QED
    BY <1>0, <2>6, <2>7, <2>8, <2>9 DEF IInv
<1>4. ASSUME NEW e \in Events, Collect(e) PROVE IInv'
  <2> DEFINE collected == Append(state.pending, e)
             unique    == ids \cup {VideoOf[e]}
  <2>1. /\ Idle /\ e \notin state.read /\ cache[VideoOf[e]] = Unknown
        /\ UNCHANGED <<booting, unread, submitted, cache, checkpoint, outVars, faults>>
    BY <1>4 DEF Collect, Await, Readable
  <2>2. state.pending \in Seq(Events) /\ state.read \subseteq Events
    BY DEF IInv, TypeOK, State
  <2>3. /\ collected \in Seq(Events) /\ Range(collected) = Range(state.pending) \cup {e}
        /\ e \notin Range(state.pending)
    BY <2>1, <2>2, RangeOfSeq DEF IInv, WasRead
  <2>4. IsInjective(collected)
    BY <2>2, <2>3, AppendInjective DEF IInv, NothingTwice
  <2>5. CASE Cardinality(unique) >= BATCH_SIZE
    <3>1. FlushBatch(state.read \cup {e}, collected)
      BY <1>4, <2>5 DEF Collect, Await
    <3>2. {e} \in SUBSET Events /\ {e} \cap state.read = {} /\ \A f \in {e} : cache[VideoOf[f]] = Unknown
      BY <2>1
    <3> HIDE DEF collected
    <3>3. QED
      BY <1>0, <2>1, <2>3, <2>4, <3>1, <3>2, FlushStarts
  <2>6. CASE ~(Cardinality(unique) >= BATCH_SIZE)
    <3>1. /\ state' = [read |-> state.read \cup {e}, pending |-> collected, timer |-> TRUE]
          /\ UNCHANGED flush
      BY <1>4, <2>6 DEF Collect, Await
    <3> HIDE DEF collected
    <3>2. state'.read = state.read \cup {e} /\ state'.pending = collected /\ state'.timer
      BY <3>1
    <3>3. /\ Busy' = Busy /\ Unsettled' = Unsettled /\ Handed' = Handed /\ Batch' = Batch
          /\ VideosOf(checkpoint'.pending) = VideosOf(checkpoint.pending)
      BY <2>1, <3>1 DEF Busy, Unsettled, Handed, Batch, VideosOf
    <3>4. Busy = {} /\ Unsettled = {} /\ ~booting /\ flush.step = "none"
      BY <2>1, RangeOfEmpty DEF IInv, FlushShape, Idle, Unsettled, Busy
    <3>5. FlushShape' /\ Accounted' /\ WaitingHasTimer' /\ WasRead'
      BY <2>1, <2>3, <3>1, <3>2, <3>3, <3>4 DEF IInv, FlushShape, Accounted, WaitingHasTimer, WasRead
    <3>6. CacheIsDurable' /\ MetadataFirst' /\ WaitsUnknown'
      BY <2>1, <2>3, <3>2, <3>3, <3>4 DEF IInv, CacheIsDurable, MetadataFirst, WaitsUnknown
    <3>7. NothingTwice'
      <4>1. e \notin Handed
        BY <2>1 DEF IInv, WasRead
      <4>2. QED
        BY <2>1, <2>3, <2>4, <3>1, <3>2, <3>3, <3>4, <4>1 DEF IInv, NothingTwice, Handed
    <3>8. QED
      BY <1>0, <3>5, <3>6, <3>7 DEF IInv
  <2>7. QED
    BY <2>5, <2>6
<1>5. CASE OnTimer
  <2>1. /\ Idle /\ FlushBatch(state.read \cup {}, state.pending)
        /\ UNCHANGED <<booting, unread, submitted, cache, checkpoint, outVars, faults>>
    <3>1. state.read \cup {} = state.read
      OBVIOUS
    <3>2. QED
      BY <1>5, <3>1 DEF OnTimer
  <2>2. /\ state.pending \in Seq(Events) /\ IsInjective(state.pending)
        /\ Range(state.pending) = Range(state.pending) \cup {}
    BY DEF IInv, TypeOK, State, NothingTwice
  <2>3. {} \in SUBSET Events /\ {} \cap state.read = {} /\ \A e \in {} : cache[VideoOf[e]] = Unknown
    OBVIOUS
  <2>4. QED
    BY <1>0, <2>1, <2>2, <2>3, FlushStarts
<1>6. CASE Fetched
  <2>1. /\ flush.step = "fetch" /\ flush \in Flush
        /\ UNCHANGED <<booting, unread, submitted, cache, state, ids, checkpoint, outVars, faults>>
    BY <1>6 DEF Fetched, IInv, TypeOK
  <2>2. flush'.step = "settle" /\ flush'.events = flush.events /\ flush'.left = Batch
    BY <1>6, <2>1 DEF Fetched, Flush
  <2>3. Busy' = Busy /\ Batch' = Batch /\ Handed' = Handed /\ VideosOf(checkpoint'.pending) = VideosOf(checkpoint.pending)
    BY <2>1, <2>2 DEF Busy, Batch, Handed, VideosOf
  <2>4. Unsettled' = Unsettled
    BY <2>1, <2>2, <2>3 DEF Unsettled, Batch, VideosOf, Busy
  <2>5. FlushShape' /\ Accounted' /\ WaitingHasTimer' /\ WasRead'
    BY <2>1, <2>2, <2>3, <2>4 DEF IInv, FlushShape, Accounted, WaitingHasTimer, WasRead
  <2>6. CacheIsDurable' /\ MetadataFirst' /\ WaitsUnknown'
    BY <2>1, <2>3, <2>4 DEF IInv, CacheIsDurable, MetadataFirst, WaitsUnknown
  <2>7. NothingTwice'
    BY <2>1, <2>2, <2>3, <2>4 DEF IInv, NothingTwice, Handed
  <2>8. QED
    BY <1>0, <2>5, <2>6, <2>7 DEF IInv
<1>7. CASE Retry
  <2>1. /\ flush.step = "fetch" /\ flush \in Flush
        /\ UNCHANGED <<booting, unread, submitted, cache, state, ids, checkpoint, outVars, faults>>
    BY <1>7 DEF Retry, IInv, TypeOK
  <2>2. flush'.step = flush.step /\ flush'.events = flush.events /\ flush'.left = flush.left
    BY <1>7, <2>1 DEF Retry, Flush
  <2>3. /\ Busy' = Busy /\ Unsettled' = Unsettled /\ Batch' = Batch /\ Handed' = Handed
        /\ VideosOf(checkpoint'.pending) = VideosOf(checkpoint.pending)
    BY <2>1, <2>2 DEF Busy, Unsettled, Batch, Handed, VideosOf
  <2>4. FlushShape' /\ Accounted' /\ WaitingHasTimer' /\ WasRead'
    BY <2>1, <2>2, <2>3 DEF IInv, FlushShape, Accounted, WaitingHasTimer, WasRead
  <2>5. CacheIsDurable' /\ MetadataFirst' /\ WaitsUnknown'
    BY <2>1, <2>3 DEF IInv, CacheIsDurable, MetadataFirst, WaitsUnknown
  <2>6. NothingTwice'
    BY <2>1, <2>2, <2>3 DEF IInv, NothingTwice, Handed
  <2>7. QED
    BY <1>0, <2>4, <2>5, <2>6 DEF IInv
<1>8. ASSUME NEW v \in Videos, DeadLetter(v) PROVE IInv'
  <2>1. /\ v \in flush.left /\ flush.step = "settle" /\ Settled(v)
        /\ Emit({[event |-> e, as |-> "dlq"] : e \in WaitingFor(v)})
        /\ UNCHANGED <<booting, submitted, cache, state, checkpoint, metadata, topics>>
    BY <1>8 DEF DeadLetter
  <2>2. CacheIsDurable'
    BY <2>1 DEF IInv, CacheIsDurable
  <2>3. QED
    BY <1>0, <2>1, <2>2, VideoSettles
<1>9. ASSUME NEW v \in Videos, Enrich(v) PROVE IInv'
  <2>1. /\ v \in flush.left /\ flush.step = "settle" /\ Settled(v)
        /\ Emit({[event |-> e, as |-> VerdictOn(v)] : e \in WaitingFor(v)})
        /\ UNCHANGED <<booting, submitted, state, checkpoint, topics>>
        /\ cache' = [cache EXCEPT ![v] = VerdictOn(v)] /\ metadata' = [metadata EXCEPT ![v] = VerdictOn(v)]
    BY <1>9 DEF Enrich, EnrichWith
  <2>2. VerdictOn(v) # Unknown
    BY VerdictOnInVerdict, EnricherAssumption
  <2>3. /\ metadata'[v] # Unknown /\ \A w \in Videos : metadata[w] # Unknown => metadata'[w] # Unknown
        /\ \A w \in Videos \ {v} : cache'[w] = cache[w]
    BY <2>1, <2>2 DEF IInv, TypeOK, Metadata
  <2>4. CacheIsDurable'
    BY <2>1, <2>3 DEF IInv, CacheIsDurable
  <2>5. QED
    BY <1>0, <2>1, <2>3, <2>4, VideoSettles
<1>10. CASE Checkpoint
  <2>1. /\ checkpoint' = state /\ flush.step = "none" /\ ~booting
        /\ UNCHANGED <<booting, unread, submitted, cache, flowVars, outVars, faults>>
    BY <1>10 DEF Checkpoint, Completed, Idle
  <2>2. Busy' = Busy /\ Unsettled' = Unsettled /\ Handed' = Handed /\ Batch' = Batch
    BY <2>1 DEF Busy, Unsettled, Handed, Batch
  <2>3. Busy = {} /\ Unsettled = {}
    BY <2>1, RangeOfEmpty DEF IInv, FlushShape, Unsettled, Busy
  <2>4. FlushShape' /\ Accounted' /\ WaitingHasTimer'
    BY <2>1, <2>2, <2>3 DEF IInv, FlushShape, Accounted, WaitingHasTimer
  <2>5. CacheIsDurable' /\ MetadataFirst' /\ NothingTwice'
    BY <2>1, <2>2 DEF IInv, CacheIsDurable, MetadataFirst, NothingTwice, Handed
  <2>6. WasRead'
    BY <2>1, <2>2 DEF IInv, WasRead, NothingTwice
  <2>7. WaitsUnknown'
    BY <2>1, <2>2, <2>3 DEF WaitsUnknown, VideosOf
  <2>8. QED
    BY <1>0, <2>4, <2>5, <2>6, <2>7 DEF IInv
<1>11. ASSUME Restore, UNCHANGED metadata PROVE IInv'
  BY <1>0, <1>11, GoingBack DEF Restore, TaskEnds, IInv, CacheIsDurable
<1>12. CASE TooMany
  BY <1>11, <1>12 DEF TooMany
<1>13. CASE TaskFails
  BY <1>11, <1>13 DEF TaskFails
<1>14. ASSUME NEW v \in Videos, PublishFails(v) PROVE IInv'
  <2>1. VerdictOn(v) # Unknown
    BY VerdictOnInVerdict, EnricherAssumption
  <2>2. \A w \in Videos : metadata[w] # Unknown => metadata'[w] # Unknown
    BY <1>14, <2>1 DEF PublishFails, IInv, TypeOK, Metadata
  <2>3. CacheIsDurable'
    BY <1>14, <2>2 DEF PublishFails, Restore, TaskEnds, IInv, CacheIsDurable
  <2>4. QED
    BY <1>0, <1>14, <2>2, <2>3, GoingBack DEF PublishFails, Restore
<1>15. CASE JobFails
  <2>1. CacheIsDurable'
    BY <1>15 DEF JobFails, TaskEnds, Empty, IInv, CacheIsDurable
  <2>2. QED
    BY <1>0, <1>15, <2>1, GoingBack DEF JobFails
<1>16. CASE UNCHANGED vars
  <2>1. UNCHANGED <<booting, unread, submitted, cache, state, ids, flush, checkpoint, metadata, sent, topics, emitted, faults>>
    BY <1>16 DEF vars
  <2>2. /\ Busy' = Busy /\ Unsettled' = Unsettled /\ Handed' = Handed /\ Batch' = Batch
        /\ VideosOf(checkpoint'.pending) = VideosOf(checkpoint.pending)
    BY <2>1 DEF Busy, Unsettled, Handed, Batch, VideosOf
  <2>3. /\ FlushShape' /\ Accounted' /\ WaitingHasTimer' /\ MetadataFirst' /\ WasRead' /\ NothingTwice'
    BY <2>1, <2>2 DEF IInv, FlushShape, Accounted, WaitingHasTimer, MetadataFirst, WasRead, NothingTwice, Handed
  <2>4. QED
    BY <1>0, <2>1, <2>2, <2>3 DEF IInv, CacheIsDurable, WaitsUnknown
<1>17. QED
  BY <1>1, <1>2, <1>3, <1>4, <1>5, <1>6, <1>7, <1>8, <1>9, <1>10, <1>12, <1>13, <1>14, <1>15, <1>16
  DEF Next, Read, Answer, Settle

-----------------------------------------------------------------------------
(* The theorems *)

LEMMA Invariance == Spec => []IInv
BY InvInit, InvStep, PTL DEF Spec

\* No event that the source or a checkpoint has passed is forgotten: EnrichmentFunction's
\* state is cleared before the API call, and never between a checkpoint and its recovery.
THEOREM AccountingSafety == Spec => []Accounted
<1>1. IInv => Accounted
  BY DEF IInv
<1>2. QED
  BY <1>1, Invariance, PTL

\* Events wait only under a timer, which a checkpoint keeps with them.
THEOREM TimerSafety == Spec => []WaitingHasTimer
<1>1. IInv => WaitingHasTimer
  BY DEF IInv
<1>2. QED
  BY <1>1, Invariance, PTL

\* An enriched event leaves only after the metadata of its video is on its topic.
THEOREM MetadataSafety == Spec => []MetadataFirst
<1>1. IInv => MetadataFirst
  BY DEF IInv
<1>2. QED
  BY <1>1, Invariance, PTL

\* Between two restarts an event is handed over at most once.
THEOREM OnceSafety == Spec => []NothingTwice
<1>1. IInv => NothingTwice
  BY DEF IInv
<1>2. QED
  BY <1>1, Invariance, PTL

LEMMA VerdictStep ==
  ASSUME IInv, [Next]_vars, NEW v \in Videos, cache[v] # Unknown
  PROVE  cache'[v] = cache[v] \/ booting' \/ cache' = submitted \/ v \in VideosOf(checkpoint.pending)
<1> USE DEF flowVars, outVars
<1>1. CASE LoadPoll
  BY <1>1 DEF LoadPoll
<1>2. ASSUME NEW w \in Videos, Enrich(w)
      PROVE  cache'[v] = cache[v] \/ v \in VideosOf(checkpoint.pending)
  <2>1. w \in flush.left /\ flush.step = "settle" /\ cache' = [cache EXCEPT ![w] = VerdictOn(w)]
    BY <1>2 DEF Enrich, EnrichWith
  <2>2. CASE w = v
    <3>1. v \in Batch
      BY <2>1, <2>2 DEF IInv, FlushShape
    <3>2. PICK e \in Busy : VideoOf[e] = v
      BY <3>1 DEF Batch, VideosOf, Busy
    <3>3. e \in Unsettled
      BY <2>1, <2>2, <3>2 DEF Unsettled
    <3>4. QED
      BY <3>2, <3>3 DEF IInv, WaitsUnknown
  <2>3. CASE w # v
    BY <2>1, <2>3 DEF IInv, TypeOK, Metadata
  <2>4. QED
    BY <2>2, <2>3
<1>3. CASE TooMany
  BY <1>3 DEF TooMany, Restore
<1>4. CASE TaskFails
  BY <1>4 DEF TaskFails, Restore
<1>5. CASE JobFails
  BY <1>5 DEF JobFails
<1>6. ASSUME NEW w \in Videos, PublishFails(w) PROVE cache' = submitted
  BY <1>6 DEF PublishFails, Restore
<1>7. CASE \/ Submit \/ OnTimer \/ Fetched \/ Retry \/ Checkpoint \/ UNCHANGED vars
           \/ \E e \in Events : CacheHit(e) \/ Collect(e)
           \/ \E w \in Videos : DeadLetter(w)
  <2>1. cache' = cache
    BY <1>7 DEF Submit, OnTimer, Fetched, Retry, Checkpoint, Completed, CacheHit, Collect, Await, DeadLetter, vars
  <2>2. QED
    BY <2>1
<1>8. QED
  BY <1>1, <1>2, <1>3, <1>4, <1>5, <1>6, <1>7 DEF Next, Read, Answer, Settle

\* A run of the task gives a video one verdict, but for events restored from a checkpoint.
THEOREM VerdictSafety == Spec => OneVerdict
<1>1. IInv /\ [Next]_vars =>
        [\A v \in Videos : cache[v] = Unknown \/ cache'[v] = cache[v] \/ booting' \/ cache' = submitted
                            \/ v \in VideosOf(checkpoint.pending)]_vars
  BY VerdictStep
<1>2. QED
  BY <1>1, Invariance, PTL DEF Spec, OneVerdict

=============================================================================
