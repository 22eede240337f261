--------------------------- MODULE ContextReplica ---------------------------
(***************************************************************************)
(* One context-mcp replica (device-trust-mesh/dtm/mesh): its Materializer  *)
(* (context/materializer.py) replays the context topics into the table,    *)
(* the Serve wrapper (context_mcp.py) admits lookups once it has caught    *)
(* up, and ContextClient (common/context_client.py) retries stale ones.    *)
(* Writers append to the topics all the while; a replica may die at any    *)
(* point and starts again with an empty table.                             *)
(*                                                                         *)
(* Each topic has one partition here.  A log also holds what the code has  *)
(* to survive: records that do not deserialize, and transaction markers,   *)
(* which occupy an offset and are never delivered.                         *)
(***************************************************************************)
EXTENDS ContextTable

CONSTANTS
  Produced,      \* per topic, the records its writers may append
  Unreadable,    \* a record whose key or value does not deserialize
  Control,       \* a transaction marker
  MinSeqs,       \* the min_seq arguments callers use
  StaleRetries,  \* ContextClient._stale_retries
  MaxLog,        \* bound: records per topic
  MaxFaults      \* bound: failed scans and deaths of the replica

Records(t) == CASE t = "device.context"   -> DeviceRecord
                [] t = "customer.context" -> CustomerRecord
                [] OTHER                  -> SignalRecord

ASSUME ReplicaAssumption ==
  /\ Produced = [t \in Topics |-> Produced[t]]
  /\ \A t \in Topics : Produced[t] \subseteq Records(t) \cup {Unreadable, Control}
  /\ \A t \in Topics : Unreadable \notin Records(t) /\ Control \notin Records(t)
  /\ Unreadable # Control
  /\ MinSeqs \subseteq Nat \cup {NoSeq}
  /\ StaleRetries \in Nat
  /\ MaxLog \in Nat /\ MaxFaults \in Nat

\* CONTEXT_TOPICS, in the order _scan reads their watermarks.
ContextTopics == <<"device.context", "customer.context", "device.risk-signals">>

VARIABLES
  log,       \* broker: the records of each topic
  phase,     \* down; scan: inside _begin; consume: the loop of run_once
  scanned,   \* topics whose watermarks this _scan has read
  targets,   \* _targets: last offset to consume, -1 where a topic was empty
  consumed,  \* _consumed: last offset consumed, -1 before the first
  position,  \* consumer: next offset to deliver
  ready,     \* ready
  atStart,   \* history: what each topic held when the process started
  faults     \* bound: faults so far

materializerVars == <<phase, scanned, targets, consumed, position, ready, atStart>>
vars == <<tableVars, lookup, answer, log, materializerVars, faults>>

Calls == [state : {"idle"}]
         \cup [state : {"calling", "waiting", "notified"}, device : Devices,
               min : MinSeqs, tries : 0 .. StaleRetries]

Answers == {NoAnswer}
           \cup [status : {"OK", "STALE", "NOT_FOUND"}, device : Devices, min : MinSeqs,
                 row : DeviceRow \cup {Absent}, offsets : [Topics -> Nat \cup {-1}]]

TypeOK ==
  /\ TableTypeOK
  /\ lookup \in [Callers -> Calls]
  /\ answer \in [Callers -> Answers]
  /\ DOMAIN log = Topics
  /\ \A t \in Topics : log[t] \in Seq(Produced[t]) /\ Len(log[t]) <= MaxLog
  /\ phase \in {"down", "scan", "consume"}
  /\ scanned \in 0 .. Len(ContextTopics)
  /\ targets \in [Topics -> Nat \cup {-1}]
  /\ consumed \in [Topics -> Nat \cup {-1}]
  /\ position \in [Topics -> Nat]
  /\ ready \in BOOLEAN
  /\ atStart \in [Topics -> Nat]
  /\ faults \in 0 .. MaxFaults

Init ==
  /\ TableInit
  /\ scanned = 0 /\ ready = FALSE
  /\ targets = NoOffsets /\ consumed = NoOffsets
  /\ position = [t \in Topics |-> 0]
  /\ lookup = [c \in Callers |-> Idle]
  /\ answer = [c \in Callers |-> NoAnswer]
  /\ log = [t \in Topics |-> <<>>]
  /\ phase = "down"
  /\ atStart = [t \in Topics |-> 0]
  /\ faults = 0

Fault == faults < MaxFaults /\ faults' = faults + 1

-----------------------------------------------------------------------------
(* Materializer *)

StartReplica ==
  /\ phase = "down"
  /\ phase' = "scan"
  /\ atStart' = [t \in Topics |-> Len(log[t])]
  /\ UNCHANGED <<tableVars, lookup, answer, log, scanned, targets, consumed, position,
                 ready, faults>>

\* _scan reads one topic's watermarks; writers may append between two topics.
Scan ==
  /\ phase = "scan"
  /\ scanned < Len(ContextTopics)
  /\ scanned' = scanned + 1
  /\ LET t == ContextTopics[scanned + 1]
     IN targets' = [targets EXCEPT ![t] = Len(log[t]) - 1]
  /\ UNCHANGED <<tableVars, lookup, answer, log, phase, consumed, position, ready, atStart,
                 faults>>

\* _scan or assign raises: the loop retries with nothing assigned.
BeginFails ==
  /\ phase = "scan"
  /\ Fault
  /\ scanned' = 0
  /\ targets' = NoOffsets
  /\ UNCHANGED <<tableVars, lookup, answer, log, phase, consumed, position, ready, atStart>>

\* assign every partition from the beginning.
Begin ==
  /\ phase = "scan"
  /\ scanned = Len(ContextTopics)
  /\ phase' = "consume"
  /\ UNCHANGED <<tableVars, lookup, answer, log, scanned, targets, consumed, position, ready,
                 atStart, faults>>

Next1(t) == log[t][position[t] + 1]

\* Whether _deserialize_* and apply accept a record.
Applicable(t, r) == r \in Records(t) /\ (t = "device.risk-signals" => r.time # NoTime)

\* One record of a batch: applied or skipped, and consumed either way.
Consume(t) ==
  /\ phase = "consume"
  /\ position[t] < Len(log[t])
  /\ Next1(t) # Control
  /\ position' = [position EXCEPT ![t] = @ + 1]
  /\ consumed' = [consumed EXCEPT ![t] = position[t]]
  /\ IF Applicable(t, Next1(t)) THEN Apply(t, position[t], Next1(t))
                                ELSE UNCHANGED <<tableVars, lookup>>
  /\ UNCHANGED <<answer, log, phase, scanned, targets, ready, atStart, faults>>

\* The client library passes a transaction marker without delivering it.
PassControl(t) ==
  /\ phase = "consume"
  /\ position[t] < Len(log[t])
  /\ Next1(t) = Control
  /\ position' = [position EXCEPT ![t] = @ + 1]
  /\ UNCHANGED <<tableVars, lookup, answer, log, phase, scanned, targets, consumed, ready,
                 atStart, faults>>

\* Mutants: markers at the end are waited for; one topic is enough.
ConsumedAsDelivered == consumed

\* _pass_trailing_control_records on the pending topics.
ConsumedWithMarkers ==
  [t \in Topics |-> IF consumed[t] < targets[t] /\ position[t] > targets[t]
                      THEN targets[t] ELSE consumed[t]]

CaughtUpSomewhere(upto) == \E t \in Topics : targets[t] # -1 /\ upto[t] >= targets[t]

CaughtUp(upto) == \A t \in Topics : upto[t] >= targets[t]

\* _check_ready after a batch.
CheckReady ==
  /\ phase = "consume" /\ ~ready
  /\ consumed' = ConsumedWithMarkers
  /\ ready' = CaughtUp(consumed')
  /\ UNCHANGED <<tableVars, lookup, answer, log, phase, scanned, targets, position, atStart,
                 faults>>

\* The replica dies, is stopped, or gives up catching up in time; the calls it
\* was serving raise in their clients.
Die ==
  /\ phase # "down"
  /\ Fault
  /\ phase' = "down"
  /\ TableLost
  /\ scanned' = 0 /\ ready' = FALSE
  /\ targets' = NoOffsets /\ consumed' = NoOffsets
  /\ position' = [t \in Topics |-> 0]
  /\ lookup' = [c \in Callers |-> Idle]
  /\ UNCHANGED <<answer, log, atStart>>

-----------------------------------------------------------------------------
(* Lookups *)

\* Mutant: a replica serves before it has caught up.
ServingAtOnce == phase = "consume"

\* wait_until_ready: ContextMcp is constructed once the materializer is ready.
Serving == ready

Ask(c, d, min) ==
  /\ Serving
  /\ lookup[c].state = "idle"
  /\ lookup' = [lookup EXCEPT
                  ![c] = [state |-> "calling", device |-> d, min |-> min, tries |-> 0]]
  /\ UNCHANGED <<tableVars, answer, log, materializerVars, faults>>

\* Mutant: a stale result is retried until it is not.
RepliedUntilFresh(c) ==
  LET result == Result(lookup[c].device, lookup[c].min)
  IN IF result.status = "STALE"
       THEN lookup' = [lookup EXCEPT ![c].state = "calling"] /\ UNCHANGED answer
       ELSE lookup' = [lookup EXCEPT ![c] = Idle] /\ answer' = [answer EXCEPT ![c] = result]

\* The client calls again on STALE while it has retries left.
Replied(c) ==
  LET result == Result(lookup[c].device, lookup[c].min)
  IN IF result.status = "STALE" /\ lookup[c].tries < StaleRetries
       THEN /\ lookup' = [lookup EXCEPT ![c].state = "calling", ![c].tries = @ + 1]
            /\ UNCHANGED answer
       ELSE /\ lookup' = [lookup EXCEPT ![c] = Idle]
            /\ answer' = [answer EXCEPT ![c] = result]

Met(c) == lookup[c].min = NoSeq \/ Satisfies(lookup[c].device, lookup[c].min)

\* get_device takes the lock: it answers, or waits for its sequence.
Call(c) ==
  /\ lookup[c].state = "calling"
  /\ IF Met(c) THEN Replied(c)
               ELSE /\ lookup' = [lookup EXCEPT ![c].state = "waiting"]
                    /\ UNCHANGED answer
  /\ UNCHANGED <<tableVars, log, materializerVars, faults>>

\* A woken lookup has the lock again and re-evaluates its condition.
Wake(c) ==
  /\ lookup[c].state = "notified"
  /\ IF Met(c) THEN Replied(c)
               ELSE /\ lookup' = [lookup EXCEPT ![c].state = "waiting"]
                    /\ UNCHANGED answer
  /\ UNCHANGED <<tableVars, log, materializerVars, faults>>

\* wait_timeout_ms has passed: the table answers with what it has.
Expire(c) ==
  /\ lookup[c].state \in {"waiting", "notified"}
  /\ Replied(c)
  /\ UNCHANGED <<tableVars, log, materializerVars, faults>>

-----------------------------------------------------------------------------
Append1(t) ==
  /\ Len(log[t]) < MaxLog
  /\ \E r \in Produced[t] : log' = [log EXCEPT ![t] = Append(@, r)]
  /\ UNCHANGED <<tableVars, lookup, answer, materializerVars, faults>>

Materializer ==
  StartReplica \/ Scan \/ Begin \/ CheckReady \/ \E t \in Topics : Consume(t) \/ PassControl(t)

Lookup(c) == Call(c) \/ Wake(c) \/ Expire(c)

Next ==
  \/ Materializer \/ BeginFails \/ Die
  \/ \E c \in Callers : Lookup(c) \/ \E d \in Devices, min \in MinSeqs : Ask(c, d, min)
  \/ \E t \in Topics : Append1(t)

Spec == Init /\ [][Next]_vars

\* Serve restarts a replica; the materializer's thread retries whatever raised
\* and goes through a batch and the check after it; a lookup's thread runs.
Fairness ==
  /\ WF_vars(StartReplica) /\ WF_vars(Scan) /\ WF_vars(Begin) /\ WF_vars(CheckReady)
  /\ \A t \in Topics : WF_vars(Consume(t) \/ PassControl(t))
  /\ \A c \in Callers : WF_vars(Call(c)) /\ WF_vars(Wake(c)) /\ WF_vars(Expire(c))

FairSpec == Spec /\ Fairness

-----------------------------------------------------------------------------
(* Properties *)

\* The first n records of topic t's log s that were applied.
Upto(t, s, n) == {i \in 1 .. n : Applicable(t, s[i])}

\* What a reader of the first n records of s has for device d, or customer c.
LatestRow(s, d, n) ==
  LET about == {i \in Upto("device.context", s, n) : s[i].device = d}
  IN IF about = {} THEN Absent ELSE s[Max(about)].row

LatestCustomer(s, c, n) ==
  LET about == {i \in Upto("customer.context", s, n) : s[i].customer = c}
  IN IF about = {} THEN FALSE ELSE s[Max(about)].row

\* The table is the compaction of what was consumed: records that are skipped,
\* tombstones, and rows that arrive again with an older sequence included.
TableReflectsLog ==
  /\ \A d \in Devices : rows[d] = LatestRow(log["device.context"], d, position["device.context"])
  /\ \A c \in Customers : (c \in customers) =
       LatestCustomer(log["customer.context"], c, position["customer.context"])

\* get_customer and list_devices, which follow the index into the rows, name a
\* device under its row's customer and nowhere else, however customers change
\* and rows go (table.py _apply_device).
IndexMatchesRows ==
  \A c \in Customers :
    LET theirs == {d \in Devices : rows[d] # Absent /\ rows[d].customer = c}
    IN /\ ListDevices(c) = {r \in ListDevices(Nobody) : r.row.customer = c}
       /\ c \in customers => GetCustomer(c).devices = theirs

\* The first arrivals of device d's signals among the records consumed.
Arrivals(d) ==
  LET t == "device.risk-signals"
      mine == {i \in Upto(t, log[t], position[t]) : log[t][i].device = d}
  IN {i \in mine : \A j \in mine : log[t][j].id = log[t][i].id => i <= j}

\* list_risk_signals returns the newest of the device's distinct signals by event
\* time and then by arrival, newest first, whatever order they arrived in.
NewestSignals ==
  \A d \in Devices :
    LET Times(i)    == log["device.risk-signals"][i].time
        Newer(i, j) == Times(i) > Times(j) \/ (Times(i) = Times(j) /\ i > j)
        n           == Cardinality(Arrivals(d))
        listed      == ListRiskSignals(d, SIGNALS_PER_DEVICE)
    IN /\ Len(listed) = IF n < SIGNALS_PER_DEVICE THEN n ELSE SIGNALS_PER_DEVICE
       /\ \A k \in DOMAIN listed : \E i \in Arrivals(d) :
            /\ listed[k] = [id |-> log["device.risk-signals"][i].id, time |-> Times(i)]
            /\ Cardinality({j \in Arrivals(d) : Newer(j, i)}) = k - 1

\* A replica that says it is ready has gone past everything its topics held when
\* it started, whatever was skipped, never delivered, or appended meanwhile.
ReadyMeansCaughtUp == ready => \A t \in Topics : position[t] >= atStart[t]

\* No wakeup is missed: a lookup sleeps only while its sequence is missing.
NoMissedWakeup == \A c \in Callers : lookup[c].state = "waiting" => ~Met(c)

\* An answer's sourceOffsets name what it was read from: its row is the one a
\* replay of the topic up to there gives, and it is OK only with the sequence
\* that was asked for.
AnswersReproducible ==
  \A c \in Callers : answer[c] # NoAnswer =>
    /\ answer[c].row = LatestRow(log["device.context"], answer[c].device,
                                 answer[c].offsets["device.context"] + 1)
    /\ answer[c].status = "OK" =>
         answer[c].row # Absent /\ (answer[c].min # NoSeq => answer[c].row.seq >= answer[c].min)

\* A caller's reads never go back in time, even across a restart of the replica
\* with its empty table.
AnswersNeverGoBack ==
  [][\A c \in Callers : answer[c] # NoAnswer =>
       \A t \in Topics : answer'[c].offsets[t] >= answer[c].offsets[t]]_vars

\* Why they hold.  The replay: where the scan, the consumer and the two counts
\* stand to each other, and that only a ready replica has lookups.
ReplayInv ==
  /\ \A t \in Topics : /\ consumed[t] < position[t]
                       /\ position[t] <= Len(log[t])
                       /\ atStart[t] <= Len(log[t])
  /\ phase # "down" => \A k \in 1 .. scanned :
       targets[ContextTopics[k]] + 1 >= atStart[ContextTopics[k]]
  /\ phase = "down" => scanned = 0
  /\ phase = "consume" => scanned = Len(ContextTopics)
  /\ ready => phase = "consume" /\ CaughtUp(consumed)
  /\ \A c \in Callers : lookup[c].state # "idle" => ready

\* The offsets name the last record that was applied, of each topic.
OffsetsCoverLog ==
  \A t \in Topics :
    /\ offsets[t] # -1 => offsets[t] + 1 \in Upto(t, log[t], position[t])
    /\ \A i \in Upto(t, log[t], position[t]) : i <= offsets[t] + 1

\* What was ever answered is behind a replica that serves, and was in the topics
\* when a replica that does not serve yet started.
AnswersInPast ==
  \A c \in Callers : answer[c] # NoAnswer => \A t \in Topics :
    LET o == answer[c].offsets[t]
    IN /\ o # -1 => o + 1 \in Upto(t, log[t], Len(log[t]))
       /\ ready => o <= offsets[t]
       /\ phase # "down" /\ ~ready => o < atStart[t]

\* Once the replica stops dying it gets ready, and every lookup ends.
BecomesReady == <>[]ready
LookupsEnd == \A c \in Callers : (lookup[c].state # "idle") ~> (lookup[c].state = "idle")
=============================================================================
