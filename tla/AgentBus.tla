------------------------------ MODULE AgentBus ------------------------------
(***************************************************************************)
(* AgentBus (device-trust-mesh/dtm/common/bus.py): one agent's consumer    *)
(* and producer, the partitions it consumes and the records it produces.   *)
(* The operators below are the bus calls; AgentRuntime composes them into  *)
(* the poll loop.  Broker, group coordinator and librdkafka are external   *)
(* and modelled from how the bus uses them: manual offset commits, an      *)
(* idempotent acks=all producer with delivery callbacks, eager rebalances  *)
(* that put every assigned partition back at its committed offset.         *)
(***************************************************************************)
EXTENDS FileConfigSource, Sequences, FiniteSets

CONSTANTS
  Partitions,      \* partitions of the consumed topics
  MaxLog,          \* bound: records per partition
  BatchSize,       \* _POLL_BATCH
  Kinds,           \* the outputs a handler emits for one record, in order
  StartPosition,   \* BusConfig.start_position
  StartValue,      \* BusConfig.start_value under position "offset"
  HasPeer,         \* another replica shares the consumer group
  MaxFaults,       \* bound: faults of any kind in a behaviour
  None,            \* no committed offset
  Tombstone        \* a card record without a value

ASSUME BusAssumption ==
  /\ MaxLog \in Nat
  /\ BatchSize \in Nat \ {0}
  /\ Kinds \subseteq {"reply", "command"}
  /\ StartPosition \in {"committed", "earliest", "offset", "timestamp"}
  /\ StartValue \in [Partitions -> Nat]
  /\ HasPeer \in BOOLEAN
  /\ MaxFaults \in Nat
  /\ None \notin Nat
  /\ Tombstone \notin Settings

Offsets == 0 .. MaxLog - 1
Inbound == [partition : Partitions, offset : Offsets]

\* An output is named by what its id is derived from (ids.message_id): the
\* inbound record, the config version and the output's index, here its kind.
Output == [record : Inbound, version : Settings, kind : Kinds]

\* What agent.cards holds under the agent's key: the card of some settings.
CardValue == Settings \cup {Tombstone}

VARIABLES
  log,          \* broker: per partition, whether each record decodes
  committed,    \* broker: committed offset of the group, or None
  outputs,      \* broker: agent outputs persisted on their topics
  card,         \* broker: last record under the agent's key on agent.cards
  inflight,     \* producer: outputs without a delivery report yet
  cardq,        \* producer: card writes without a delivery report, in order
  errors,       \* _delivery_errors: kinds of record that failed
  position,     \* consumer: next offset to fetch
  assigned,     \* consumer: its view of the assignment
  owned,        \* coordinator: partitions this member may commit
  paused,       \* _paused
  pausedParts,  \* consumer: partitions librdkafka does not fetch
  busConf,      \* AgentBus.config
  low,          \* history: where the uncommitted group last started reading
  attempts,     \* history: <<record, outputs emitted>> of every handler run
  faults        \* bound: faults so far

brokerVars   == <<log, committed, outputs, card>>
producerVars == <<inflight, cardq, errors>>
consumerVars == <<position, assigned, owned, paused, pausedParts, low>>
busVars == <<brokerVars, producerVars, consumerVars, busConf, attempts, faults>>

Decodable(r) == log[r.partition][r.offset + 1]

\* Some run of the handler on r has all its outputs on their topics.
Complete(r) == \E a \in attempts : a[1] = r /\ a[2] \subseteq outputs

BusTypeOK ==
  /\ log \in [Partitions -> Seq(BOOLEAN)]
  /\ \A p \in Partitions : Len(log[p]) <= MaxLog
  /\ committed \in [Partitions -> Nat \cup {None}]
  /\ outputs \subseteq Output
  /\ card \in CardValue
  /\ inflight \subseteq Output
  /\ cardq \in Seq(CardValue)
  /\ errors \subseteq {"card", "output"}
  /\ position \in [Partitions -> 0 .. MaxLog]
  /\ assigned \subseteq Partitions
  /\ owned \subseteq assigned
  /\ paused \in BOOLEAN
  /\ pausedParts \subseteq assigned
  /\ busConf \in BusConfig
  /\ low \in [Partitions -> 0 .. MaxLog]
  /\ attempts \subseteq Inbound \X SUBSET Output
  /\ faults \in 0 .. MaxFaults

\* Nothing consumed or produced yet; a group may have a committed offset from
\* an earlier life; no bus is connected before the first Boot.
BusInit ==
  /\ log = [p \in Partitions |-> <<>>]
  /\ committed \in [Partitions -> {None, 0}]
  /\ outputs = {}
  /\ card = Tombstone
  /\ inflight = {} /\ cardq = <<>> /\ errors = {}
  /\ position = [p \in Partitions |-> 0]
  /\ assigned = {} /\ owned = {}
  /\ paused = FALSE /\ pausedParts = {}
  /\ busConf = file.bus
  /\ low = [p \in Partitions |-> 0]
  /\ attempts = {}
  /\ faults = 0

Fault == faults < MaxFaults /\ faults' = faults + 1

-----------------------------------------------------------------------------
(* Consumer *)

\* _apply_start_position and, for "committed", auto.offset.reset=latest: where
\* a partition without a committed offset starts.  An offset past the end of
\* the log is reset to its end; a timestamp resolves to any offset.
FreshPositions(p) ==
  CASE StartPosition = "committed" -> {Len(log[p])}
    [] StartPosition = "earliest"  -> {0}
    [] StartPosition = "offset"    -> {IF StartValue[p] <= Len(log[p])
                                         THEN StartValue[p] ELSE Len(log[p])}
    [] OTHER                       -> 0 .. Len(log[p])

\* consumer.assign: the partitions S at their committed offset or their start
\* position.
Assign(S) ==
  \E f \in [S -> 0 .. MaxLog] :
     /\ \A p \in S : IF committed[p] = None THEN f[p] \in FreshPositions(p)
                                            ELSE f[p] = committed[p]
     /\ assigned' = S
     /\ owned' = S
     /\ position' = [p \in Partitions |-> IF p \in S THEN f[p] ELSE position[p]]
     /\ low' = [p \in Partitions |->
                  IF p \in S /\ committed[p] = None THEN f[p] ELSE low[p]]

\* Mutant: an assignment taken while the agent is paused is fetched from.
OnAssignUnpaused(S) == Assign(S) /\ pausedParts' = {} /\ UNCHANGED paused

\* _on_assign: the new assignment is paused while the agent is.
OnAssign(S) ==
  /\ Assign(S)
  /\ pausedParts' = IF paused THEN S ELSE {}
  /\ UNCHANGED paused

Fetchable(p) ==
  /\ p \in assigned \ pausedParts
  /\ position[p] < Len(log[p])

NextRecord(p) == [partition |-> p, offset |-> position[p]]

\* pause() and resume() act on the current assignment; the flag covers the
\* partitions of later assignments.
Pause ==
  /\ paused' = TRUE
  /\ pausedParts' = assigned

\* Mutant: the flag is cleared, the consumer's partitions stay paused.
ResumeFlagOnly ==
  /\ paused' = FALSE
  /\ UNCHANGED pausedParts

Resume ==
  /\ paused' = FALSE
  /\ pausedParts' = {}

\* commit(): one synchronous offset commit, accepted only from the member the
\* coordinator knows as the owner.
CommitOffset(r) == committed' = [committed EXCEPT ![r.partition] = r.offset + 1]

-----------------------------------------------------------------------------
(* Producer *)

\* send, reply and produce_avro: a policy command is produced unless the mode
\* is "disabled"; redirect only changes the physical topic.
Emitted(r, version, kinds) ==
  {[record |-> r, version |-> version, kind |-> k] :
     k \in IF busConf.policyCommands = "disabled" THEN kinds \ {"command"} ELSE kinds}

\* publish_card and tombstone_card.
ProduceCard(value) == cardq' = Append(cardq, value)

\* ensure_delivered(): the flush served every callback, none reported an error.
Delivered == inflight = {} /\ cardq = <<>> /\ errors = {}

\* ensure_delivered() raises: an error was collected, and is cleared, or the
\* flush timed out with records still queued.
DeliveryFailed ==
  \/ /\ errors # {}
     /\ errors' = {}
     /\ UNCHANGED faults
  \/ /\ errors = {}
     /\ inflight # {} \/ cardq # <<>>
     /\ Fault
     /\ UNCHANGED errors

\* reconfigure(): only policyCommands may differ.
Reconfigurable(b) == b.rest = busConf.rest

-----------------------------------------------------------------------------
(* Broker and librdkafka: external.  Two copies of one output in flight, of  *)
(* an earlier run of the handler and of the current one, are one element.    *)

Produce(p) ==
  /\ Len(log[p]) < MaxLog
  /\ \E good \in BOOLEAN : log' = [log EXCEPT ![p] = Append(@, good)]
  /\ UNCHANGED <<committed, outputs, card, producerVars, consumerVars, busConf,
                 attempts, faults>>

\* The leader persists an output; its acknowledgement is still to come.
Persist(o) ==
  /\ o \in inflight \ outputs
  /\ outputs' = outputs \cup {o}
  /\ UNCHANGED <<log, committed, card, producerVars, consumerVars, busConf,
                 attempts, faults>>

Acknowledge(o) ==
  /\ o \in inflight \cap outputs
  /\ inflight' = inflight \ {o}
  /\ UNCHANGED <<brokerVars, cardq, errors, consumerVars, busConf, attempts, faults>>

\* _on_delivery with an error: the record may or may not have been persisted.
FailDelivery(o) ==
  /\ o \in inflight
  /\ Fault
  /\ inflight' = inflight \ {o}
  /\ errors' = errors \cup {"output"}
  /\ UNCHANGED <<brokerVars, cardq, consumerVars, busConf, attempts>>

\* Card writes share a key, so the idempotent producer keeps them in order.
DeliverCard ==
  /\ cardq # <<>>
  /\ card' = Head(cardq)
  /\ cardq' = Tail(cardq)
  /\ UNCHANGED <<log, committed, outputs, inflight, errors, consumerVars, busConf,
                 attempts, faults>>

FailCard ==
  /\ cardq # <<>>
  /\ Fault
  /\ card' \in {card, Head(cardq)}
  /\ cardq' = Tail(cardq)
  /\ errors' = errors \cup {"card"}
  /\ UNCHANGED <<log, committed, outputs, inflight, consumerVars, busConf, attempts>>

\* The group drops this member (missed heartbeats, max.poll.interval.ms, a
\* rebalance it answers late); the consumer learns of it in its next poll.
LoseGroup ==
  /\ owned # {}
  /\ Fault
  /\ owned' = {}
  /\ UNCHANGED <<brokerVars, producerVars, position, assigned, paused, pausedParts,
                 low, busConf, attempts>>

\* Another replica of the agent, under the same contract, handles the next
\* record of a partition this member does not own.
PeerCommits(p) ==
  /\ HasPeer
  /\ p \notin owned
  /\ committed[p] # None
  /\ committed[p] < Len(log[p])
  /\ LET r == [partition |-> p, offset |-> committed[p]]
     IN /\ attempts' = IF Decodable(r) THEN attempts \cup {<<r, {}>>} ELSE attempts
        /\ CommitOffset(r)
  /\ UNCHANGED <<log, outputs, card, producerVars, consumerVars, busConf, faults>>

BrokerNext ==
  \/ \E p \in Partitions : Produce(p) \/ PeerCommits(p)
  \/ \E o \in inflight : Persist(o) \/ Acknowledge(o) \/ FailDelivery(o)
  \/ DeliverCard \/ FailCard
  \/ LoseGroup
=============================================================================
