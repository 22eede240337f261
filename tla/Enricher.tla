------------------------------ MODULE Enricher ------------------------------
(***************************************************************************)
(* The watch-history enricher (youtube-history/flink/yt-enricher): main    *)
(* (EnricherJob.java) loads the metadata topic into a cache that is sent   *)
(* to the one task with the job; the task (EnrichmentFunction.java)        *)
(* enriches an event from the cache, or keeps it for a batched call of the *)
(* YouTube API.                                                            *)
(*                                                                         *)
(* Flink runs processElement, onTimer and the checkpoint barrier one after *)
(* another on the task's thread; a process may die anywhere within them,   *)
(* and the sinks' producers send on threads of their own.                  *)
(***************************************************************************)
EXTENDS Naturals, Sequences, FiniteSets, Functions

CONSTANTS
  Events,         \* records of yt.raw.watch.events
  Precedes,       \* pairs of them, the first ahead of the second in their partition
  Videos,
  VideoOf,        \* the video of an event
  Titled,         \* events whose title holds one of TITLE_KEYWORDS
  ApiFacts,       \* what the API says of a video, as far as it decides the verdict
  Fragile,        \* videos that may be deleted or private when the API is asked
  BATCH_SIZE,
  ApiLimit,       \* ids the API takes in one call (external)
  MAX_RETRIES,
  MaxFaults,      \* bound: times the API, a broker or a process fails
  Unknown         \* no metadata

\* The classification's clues, strongest first.
Clues == <<"category_id", "topic_music", "channel_vevo", "channel_topic", "tag_music", "title_keyword">>
Verdict == Range(Clues) \cup {"none"}

ASSUME EnricherAssumption ==
  /\ Precedes \subseteq Events \X Events
  /\ VideoOf \in [Events -> Videos]
  /\ Titled \subseteq Events /\ Fragile \subseteq Videos
  /\ ApiFacts \in [Videos -> SUBSET Range(Clues)]
  /\ BATCH_SIZE \in Nat \ {0} /\ ApiLimit \in Nat /\ MAX_RETRIES \in Nat \ {0} /\ MaxFaults \in Nat
  /\ Unknown \notin Verdict

Metadata == [Videos -> Verdict \cup {Unknown}]
Empty == [v \in Videos |-> Unknown]
Record == [event : Events, as : Verdict \cup {"dlq"}]
State == [read : SUBSET Events, pending : Seq(Events), timer : BOOLEAN]

VARIABLES
  booting,    \* main is in MetadataBootstrap.load
  unread,     \* videos with a record in the metadata topic that load has not polled
  submitted,  \* the cache as it left main, part of the job graph
  cache,      \* metadataCache
  state,      \* the source's offsets, pendingEventsState and timerTimestampState
  checkpoint, \* the state of the last completed checkpoint
  ids,        \* pendingVideoIds
  flush,      \* flushBatch: its step, attempt, events, and what the API found and is left to settle
  metadata,   \* the compacted metadata topic
  sent,       \* records handed to the sinks' producers since the task started
  topics,     \* records of earlier runs of the task that reached the enriched topic or the DLQ
  emitted,    \* history: events ever handed to a sink
  faults      \* bound: so far

flowVars == <<state, ids, flush>>
outVars == <<metadata, sent, topics, emitted>>
vars == <<booting, unread, submitted, cache, flowVars, checkpoint, outVars, faults>>

VideosOf(s) == {VideoOf[e] : e \in Range(s)}
NoFlush == [step |-> "none", attempt |-> 0, events |-> <<>>, found |-> {}, left |-> {}]
Flush == [step : {"none", "fetch", "settle"}, attempt : 0 .. MAX_RETRIES - 1,
          events : Seq(Events), found : SUBSET Videos, left : SUBSET Videos]

TypeOK ==
  /\ booting \in BOOLEAN /\ unread \subseteq Videos
  /\ submitted \in Metadata /\ cache \in Metadata /\ metadata \in Metadata
  /\ state \in State /\ checkpoint \in State
  /\ ids \subseteq Videos /\ flush \in Flush
  /\ sent \subseteq Record /\ topics \subseteq Record /\ emitted \subseteq Events
  /\ faults \in 0 .. MaxFaults

Start == [read |-> {}, pending |-> <<>>, timer |-> FALSE]

Init ==
  /\ booting = TRUE /\ unread = {}
  /\ submitted = Empty /\ cache = Empty
  /\ state = Start /\ checkpoint = Start
  /\ ids = {} /\ flush = NoFlush
  /\ metadata = Empty /\ sent = {} /\ topics = {} /\ emitted = {}
  /\ faults = 0

-----------------------------------------------------------------------------
(* main *)

\* One poll of MetadataBootstrap.load: the newest record of a key wins.
LoadPoll ==
  /\ booting
  /\ \E polled \in SUBSET unread \ {{}} :
       /\ cache' = [v \in Videos |-> IF v \in polled THEN metadata[v] ELSE cache[v]]
       /\ unread' = unread \ polled
  /\ UNCHANGED <<booting, submitted, flowVars, checkpoint, outVars, faults>>

\* env.execute, once every partition is read to its end.
Submit ==
  /\ booting /\ unread = {}
  /\ booting' = FALSE /\ submitted' = cache
  /\ UNCHANGED <<unread, cache, flowVars, checkpoint, outVars, faults>>

-----------------------------------------------------------------------------
(* EnrichmentFunction *)

\* The records that the source may pass on next.
Readable == {e \in Events \ state.read : \A f \in Events : <<f, e>> \in Precedes => f \in state.read}

Idle == ~booting /\ flush.step = "none"

\* ClassificationService.classifyWithTitle.
ClassifyWithTitle(facts, titled) ==
  LET present == {i \in DOMAIN Clues : IF Clues[i] = "title_keyword" THEN titled ELSE Clues[i] \in facts}
  IN  IF present = {} THEN "none" ELSE Clues[CHOOSE i \in present : \A j \in present : i <= j]

Emit(records) ==
  /\ sent' = sent \cup records
  /\ emitted' = emitted \cup {r.event : r \in records}

\* Mutant: the pending events are not cleared.
FlushBatchUncleared(read, pending) ==
  /\ state' = [read |-> read, pending |-> pending, timer |-> FALSE]
  /\ ids' = {}
  /\ flush' = [NoFlush EXCEPT !.step = "fetch", !.events = pending]

\* flushBatch up to fetchBatch, on the state with these pending events.
FlushBatch(read, pending) ==
  /\ state' = [read |-> read, pending |-> <<>>, timer |-> FALSE]
  /\ ids' = {}
  /\ flush' = IF pending = <<>> THEN NoFlush
              ELSE [NoFlush EXCEPT !.step = "fetch", !.events = pending]

\* processElement of an event of a known video.
CacheHit(e) ==
  /\ Idle /\ e \in Readable
  /\ cache[VideoOf[e]] # Unknown
  /\ Emit({[event |-> e, as |-> cache[VideoOf[e]]]})
  /\ state' = [state EXCEPT !.read = @ \cup {e}]
  /\ UNCHANGED <<booting, unread, submitted, cache, ids, flush, checkpoint, metadata, topics, faults>>

\* processElement of an event that is not enriched at once.
Await(e, timer) ==
  /\ Idle /\ e \in Readable
  /\ LET collected == Append(state.pending, e)
         unique    == ids \cup {VideoOf[e]}
     IN  IF Cardinality(unique) >= BATCH_SIZE
         THEN FlushBatch(state.read \cup {e}, collected)
         ELSE /\ state' = [read |-> state.read \cup {e}, pending |-> collected, timer |-> timer]
              /\ ids' = unique
              /\ UNCHANGED flush
  /\ UNCHANGED <<booting, unread, submitted, cache, checkpoint, outVars, faults>>

\* Mutant: the cache is not asked.
CollectKnown(e) == Await(e, TRUE)
\* Mutant: no timer is registered.
CollectUntimed(e) == cache[VideoOf[e]] = Unknown /\ Await(e, state.timer)

\* processElement of any other event, which waits for a full batch or the timer.
Collect(e) == cache[VideoOf[e]] = Unknown /\ Await(e, TRUE)

OnTimer ==
  /\ Idle /\ state.timer
  /\ FlushBatch(state.read, state.pending)
  /\ UNCHANGED <<booting, unread, submitted, cache, checkpoint, outVars, faults>>

Batch == VideosOf(flush.events)

\* fetchBatch is answered 200, without the videos that are gone.
Fetched ==
  /\ flush.step = "fetch" /\ Cardinality(Batch) <= ApiLimit
  /\ \E gone \in SUBSET (Batch \cap Fragile) :
       flush' = [flush EXCEPT !.step = "settle", !.found = Batch \ gone, !.left = Batch]
  /\ UNCHANGED <<booting, unread, submitted, cache, state, ids, checkpoint, outVars, faults>>

\* fetchBatch tries again after an answer 5xx or an IOException.
Retry ==
  /\ flush.step = "fetch" /\ Cardinality(Batch) <= ApiLimit
  /\ flush.attempt < MAX_RETRIES - 1
  /\ flush' = [flush EXCEPT !.attempt = @ + 1]
  /\ UNCHANGED <<booting, unread, submitted, cache, state, ids, checkpoint, outVars, faults>>

\* The title that the verdict sees: that of the video's first pending event.
FirstOf(v) == CHOOSE e \in Range(flush.events) :
  \E i \in DOMAIN flush.events : /\ flush.events[i] = e /\ VideoOf[e] = v
                                 /\ \A j \in 1 .. i - 1 : VideoOf[flush.events[j]] # v

VerdictOn(v) == ClassifyWithTitle(ApiFacts[v], FirstOf(v) \in Titled)

WaitingFor(v) == {e \in Range(flush.events) : VideoOf[e] = v}

Settled(v) ==
  flush' = IF flush.left = {v} THEN NoFlush ELSE [flush EXCEPT !.left = @ \ {v}]

\* The loop of flushBatch over a video without data.
DeadLetter(v) ==
  /\ flush.step = "settle" /\ v \in flush.left \ flush.found
  /\ Emit({[event |-> e, as |-> "dlq"] : e \in WaitingFor(v)})
  /\ Settled(v)
  /\ UNCHANGED <<booting, unread, submitted, cache, state, ids, checkpoint, metadata, topics, faults>>

\* A video with data is classified and cached, and its events leave.
EnrichWith(v, metadataAfter) ==
  /\ flush.step = "settle" /\ v \in flush.left \cap flush.found
  /\ cache' = [cache EXCEPT ![v] = VerdictOn(v)]
  /\ Emit({[event |-> e, as |-> VerdictOn(v)] : e \in WaitingFor(v)})
  /\ metadata' = metadataAfter
  /\ Settled(v)
  /\ UNCHANGED <<booting, unread, submitted, state, ids, checkpoint, topics, faults>>

\* Mutant: the metadata's acknowledgement is not awaited.
EnrichUnawaited(v) == EnrichWith(v, metadata)

\* The loop of flushBatch over a video with data: its metadata is durable before its events leave.
Enrich(v) == EnrichWith(v, [metadata EXCEPT ![v] = VerdictOn(v)])

-----------------------------------------------------------------------------
(* Flink, Kafka and failures *)

Completed(taken) ==
  /\ checkpoint' = taken
  /\ UNCHANGED <<booting, unread, submitted, cache, flowVars, outVars, faults>>

\* Mutant: the barrier is met within flushBatch, which has cleared the state.
CheckpointAnytime == ~booting /\ Completed(state)
\* Mutant: the timer is not managed state.
CheckpointUntimed == Idle /\ Completed([state EXCEPT !.timer = FALSE])

\* The barrier passes the source, the function and the sinks, which do not flush.
Checkpoint == Idle /\ Completed(state)

\* The task ends, and so do the sinks' producers, with any of their records sent.
TaskEnds ==
  /\ state' = checkpoint /\ ids' = {} /\ flush' = NoFlush
  /\ sent' = {} /\ \E arrived \in SUBSET sent : topics' = topics \cup arrived
  /\ UNCHANGED <<submitted, checkpoint, emitted>>

\* It is deployed again from the job graph, and open starts with no ids.
Restore == TaskEnds /\ cache' = submitted /\ UNCHANGED <<booting, unread>>

Fault == faults < MaxFaults /\ faults' = faults + 1

\* fetchBatch throws at once for an answer 4xx, which a batch above the API's limit always gets.
TooMany ==
  /\ flush.step = "fetch" /\ Cardinality(Batch) > ApiLimit
  /\ Restore
  /\ UNCHANGED <<metadata, faults>>

\* Another 4xx, the last attempt failing, or the death of the task's process.
TaskFails ==
  /\ ~booting /\ Fault /\ Restore
  /\ UNCHANGED metadata

\* The metadata's acknowledgement fails to arrive, though the record may be stored.
PublishFails(v) ==
  /\ flush.step = "settle" /\ v \in flush.left \cap flush.found
  /\ Fault /\ Restore
  /\ metadata' = [metadata EXCEPT ![v] = VerdictOn(v)]

\* The whole application starts again, main included.
JobFails ==
  /\ Fault /\ TaskEnds
  /\ booting' = TRUE /\ cache' = Empty
  /\ unread' = {v \in Videos : metadata[v] # Unknown}
  /\ UNCHANGED metadata

Answer == Fetched \/ TooMany
Read == \E e \in Events : CacheHit(e) \/ Collect(e)
Settle == \E v \in Videos : DeadLetter(v) \/ Enrich(v)

Next ==
  \/ LoadPoll \/ Submit \/ Read \/ OnTimer \/ Answer \/ Retry \/ Settle
  \/ Checkpoint \/ TaskFails \/ JobFails \/ \E v \in Videos : PublishFails(v)

Spec == Init /\ [][Next]_vars

\* The task is scheduled, the API answers in the end, and a timer that is due fires
\* before more records are read.
FairSpec ==
  /\ Spec
  /\ WF_vars(LoadPoll) /\ WF_vars(Submit) /\ WF_vars(Answer) /\ WF_vars(Settle)
  /\ WF_vars(Read) /\ SF_vars(OnTimer)
-----------------------------------------------------------------------------
(* Properties *)

Busy == Range(flush.events)
Unsettled == {e \in Busy : flush.step = "settle" => VideoOf[e] \in flush.left}

\* An event that the source has passed is pending, in the batch being flushed, or
\* was handed to a sink; and one that the checkpoint has passed is pending in it or
\* was handed to a sink, so going back to it forgets nothing (EnrichmentFunction's
\* "state is cleared before the API call").
Accounted ==
  /\ state.read \subseteq Range(state.pending) \cup Unsettled \cup emitted
  /\ checkpoint.read \subseteq Range(checkpoint.pending) \cup emitted

\* Between two restarts no event is both waiting and handed to a sink, or waits twice.
NothingTwice ==
  LET handed == {r.event : r \in sent}
  IN  /\ \A r, s \in sent : r.event = s.event => r = s
      /\ Range(state.pending) \cap (Busy \cup handed) = {} /\ Unsettled \cap handed = {}
      /\ IsInjective(state.pending) /\ IsInjective(flush.events)

\* Events wait only while a timer is set, also in the checkpoint: the set of ids,
\* which a restart empties, is not what wakes them.
WaitingHasTimer ==
  /\ state.pending # <<>> => state.timer
  /\ checkpoint.pending # <<>> => checkpoint.timer

\* "Metadata is durable before enriched event is emitted" (ADR 0002), also for
\* events enriched from the cache, after any restart.
MetadataFirst ==
  \A r \in sent \cup topics : r.as # "dlq" => metadata[VideoOf[r.event]] # Unknown

\* The verdict that a run of the task gave to a video changes only for an event
\* restored from a checkpoint; the titles of later events do not matter.
OneVerdict ==
  [][\A v \in Videos : cache[v] = Unknown \/ cache'[v] = cache[v] \/ booting' \/ cache' = submitted
                       \/ v \in VideosOf(checkpoint.pending)]_vars

\* Every event is handed to a sink, unless restarts let more videos wait than the
\* API takes in a call.
EventsSettle ==
  \/ <>(Cardinality(VideosOf(state.pending)) > ApiLimit)
  \/ \A e \in Events : <>(e \in emitted)

\* "The timer restored via timerTimestampState ensures any events buffered before a
\* crash are eventually flushed and re-enriched" (ADR 0001).
BufferedAreFlushed == \A e \in Events : e \in Range(state.pending) ~> e \in emitted
=============================================================================
