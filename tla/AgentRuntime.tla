---------------------------- MODULE AgentRuntime ----------------------------
(***************************************************************************)
(* AgentRuntime (device-trust-mesh/dtm/mesh/runtime.py) on its AgentBus,   *)
(* started by AgentHost (mesh/agents/host.py): the poll loop, the hot      *)
(* reload of agents.yaml before every record, and the Agent Card's life    *)
(* cycle, against a broker that fails, a group that rebalances, a process  *)
(* that crashes and an operator who edits the file.                        *)
(*                                                                         *)
(* The loop runs on one thread.  pc is where that thread is between two    *)
(* calls that the environment can interleave with:                         *)
(*   down    no process          booted  the host has built the bus        *)
(*   idle    between two steps   poll    inside bus.poll                   *)
(*   reload  before a record     card    _sync_card, before the produce    *)
(*   flush   _sync_card, in ensure_delivered                               *)
(*   handle  in the handler      commit  in bus.commit                     *)
(* and caller says who called _sync_card: start, the retry at the head of  *)
(* step, or one of the three cases of _reload.                             *)
(***************************************************************************)
EXTENDS AgentBus

CONSTANTS
  MaxEdits   \* bound: operator edits in a behaviour

ASSUME RuntimeAssumption == MaxEdits \in Nat

VARIABLES
  pc, caller,
  batch,          \* records fetched by this step and not yet committed
  active,         \* _active
  settings,       \* _settings
  cardConfirmed,  \* _card_confirmed
  edits           \* bound: edits so far

loopVars    == <<pc, caller, batch, active, settings, cardConfirmed>>
runtimeVars == <<loopVars, edits>>
vars        == <<configVars, busVars, runtimeVars>>

Callers == {"start", "retry", "activate", "deactivate", "update"}

TypeOK ==
  /\ BusTypeOK
  /\ file \in Contents
  /\ digest \in Contents \cup {Unread}
  /\ pc \in {"down", "booted", "idle", "poll", "reload", "card", "flush", "handle", "commit"}
  /\ caller \in Callers
  /\ batch \in Seq(Inbound)
  /\ active \in BOOLEAN
  /\ settings \in Settings
  /\ cardConfirmed \in BOOLEAN
  /\ edits \in 0 .. MaxEdits

Init ==
  /\ ConfigInit
  /\ BusInit
  /\ pc = "down" /\ caller = "start"
  /\ batch = <<>>
  /\ active = FALSE
  /\ settings = SettingsOf([file EXCEPT !.agent = "disabled"])   \* unused before Start
  /\ cardConfirmed = TRUE
  /\ edits = 0

-----------------------------------------------------------------------------
(* Process: from_environment, start, crash *)

\* from_environment(): load the config and connect the bus with its bus block.
Boot ==
  /\ pc = "down"
  /\ Load
  /\ busConf' = file.bus
  /\ pc' = "booted"
  /\ UNCHANGED <<file, brokerVars, producerVars, consumerVars, attempts, faults,
                 caller, batch, active, settings, cardConfirmed, edits>>

\* start() up to _sync_card: the config is loaded a second time.
Start ==
  /\ pc = "booted"
  /\ Load
  /\ file.agent # "absent"
  /\ settings' = SettingsOf(file)
  /\ active' = (file.agent = "enabled")
  /\ pc' = "card"
  /\ caller' = "start"
  /\ UNCHANGED <<file, busVars, batch, cardConfirmed, edits>>

\* start() raises ConfigError and the replica is built again later.
StartRefused ==
  /\ pc = "booted"
  /\ ~Builds(file) \/ file.agent = "absent"
  /\ pc' = "down"
  /\ UNCHANGED <<configVars, busVars, caller, batch, active, settings, cardConfirmed, edits>>

\* What is left of the process: nothing but what the broker holds.
ProcessEnds ==
  /\ pc' = "down"
  /\ digest' = Unread
  /\ batch' = <<>>
  /\ active' = FALSE
  /\ cardConfirmed' = TRUE
  /\ inflight' = {} /\ cardq' = <<>> /\ errors' = {}
  /\ assigned' = {} /\ owned' = {}
  /\ paused' = FALSE /\ pausedParts' = {}

Crash ==
  /\ pc # "down"
  /\ Fault
  /\ ProcessEnds
  /\ UNCHANGED <<file, brokerVars, position, low, busConf, attempts, caller, settings, edits>>

-----------------------------------------------------------------------------
(* The step *)

\* _rewind: seek every partition of the unhandled records back to the first of
\* them.  A seek fails, and is logged, only on a partition that was taken away.
PartitionsOf(b) == {b[i].partition : i \in DOMAIN b}

\* Mutant: back to where the group started.
OffsetOfStart(b, p) == low[p]

FirstOffset(b, p) ==
  LET i == CHOOSE j \in DOMAIN b : /\ b[j].partition = p
                                   /\ \A h \in 1 .. j - 1 : b[h].partition # p
  IN b[i].offset

\* Mutants: only the partition of the first unhandled record is rewound; the
\* batch is dropped without a seek.
RewindHeadOnly ==
  /\ batch' = <<>>
  /\ position' = IF batch = <<>> THEN position
                  ELSE [position EXCEPT ![Head(batch).partition] = Head(batch).offset]

DropBatch == batch' = <<>> /\ UNCHANGED position

Rewind ==
  /\ batch' = <<>>
  /\ \E lost \in SUBSET (assigned \ owned) :
       position' = [p \in Partitions |->
                      IF p \in PartitionsOf(batch) \ lost THEN FirstOffset(batch, p)
                                                          ELSE position[p]]

\* Mutant: an unconfirmed card is not retried.
StepBeginWithoutRetry ==
  /\ pc = "idle"
  /\ pc' = "poll"
  /\ UNCHANGED <<configVars, busVars, caller, batch, active, settings, cardConfirmed, edits>>

StepBegin ==
  /\ pc = "idle"
  /\ IF cardConfirmed THEN pc' = "poll" /\ UNCHANGED caller
                      ELSE pc' = "card" /\ caller' = "retry"
  /\ UNCHANGED <<configVars, busVars, batch, active, settings, cardConfirmed, edits>>

\* The group hands out partitions while the consumer polls.  Without a peer it
\* hands out all of them.
Rebalance ==
  /\ pc = "poll" /\ batch = <<>>
  /\ owned = {}
  /\ \E S \in SUBSET Partitions :
       /\ S # {} /\ (HasPeer \/ S = Partitions)
       /\ OnAssign(S)
  /\ UNCHANGED <<configVars, brokerVars, producerVars, busConf, attempts, faults, runtimeVars>>

\* consume() returns one more record; one that does not decode is skipped.
Fetch(p) ==
  /\ pc = "poll"
  /\ Len(batch) < BatchSize
  /\ Fetchable(p)
  /\ position' = [position EXCEPT ![p] = @ + 1]
  /\ batch' = IF Decodable(NextRecord(p)) THEN Append(batch, NextRecord(p)) ELSE batch
  /\ UNCHANGED <<configVars, brokerVars, producerVars, assigned, owned, paused, pausedParts,
                 low, busConf, attempts, faults, pc, caller, active, settings,
                 cardConfirmed, edits>>

PollReturns ==
  /\ pc = "poll"
  /\ pc' = "reload"
  /\ UNCHANGED <<configVars, busVars, caller, batch, active, settings, cardConfirmed, edits>>

\* What step does once _reload has returned.
AfterReload ==
  IF batch = <<>> THEN pc' = "idle" /\ UNCHANGED <<batch, position>>
  ELSE IF active THEN pc' = "handle" /\ UNCHANGED <<batch, position>>
  ELSE pc' = "idle" /\ Rewind

\* _reload: nothing new, or a config whose bus block a running bus refuses.
ReloadKeeps ==
  /\ pc = "reload"
  /\ \/ RefreshNone
     \/ RefreshNew /\ ~Reconfigurable(file.bus)
  /\ AfterReload
  /\ UNCHANGED <<file, brokerVars, producerVars, assigned, owned, paused, pausedParts, low,
                 busConf, attempts, faults, caller, active, settings, cardConfirmed, edits>>

\* _reload of an accepted config: the bus mode, then the agent's own settings.
Accept ==
  /\ pc = "reload"
  /\ RefreshNew
  /\ Reconfigurable(file.bus)
  /\ busConf' = file.bus
  /\ active' = (file.agent = "enabled")
  /\ settings' = IF file.agent = "absent" THEN settings ELSE SettingsOf(file)
  /\ UNCHANGED <<file, brokerVars, producerVars, assigned, owned, paused, pausedParts, low,
                 attempts, faults, cardConfirmed, edits>>

\* The card must follow: the agent was switched off or on, or an active agent
\* has a new version.
ReloadWithCard ==
  /\ Accept
  /\ \/ active /\ ~active' /\ caller' = "deactivate"
     \/ ~active /\ active' /\ caller' = "activate"
     \/ active /\ active' /\ settings' # settings /\ caller' = "update"
  /\ pc' = "card"
  /\ UNCHANGED <<batch, position>>

ReloadWithoutCard ==
  /\ Accept
  /\ active' = active
  /\ active => settings' = settings
  /\ AfterReload
  /\ UNCHANGED caller

\* The handler runs to its end or raises part way: either way the record goes
\* on to its commit, with the outputs produced so far.
Handle ==
  /\ pc = "handle"
  /\ \E kinds \in {{}, {"reply"} \cap Kinds, Kinds} :
       LET outs == Emitted(Head(batch), settings, kinds)
       IN /\ inflight' = inflight \cup outs
          /\ attempts' = attempts \cup {<<Head(batch), outs>>}
  /\ pc' = "commit"
  /\ UNCHANGED <<configVars, brokerVars, cardq, errors, consumerVars, busConf, faults,
                 caller, batch, active, settings, cardConfirmed, edits>>

\* commit(): DeliveryFailed before the offset is committed.
CommitUndelivered ==
  /\ pc = "commit"
  /\ DeliveryFailed
  /\ Rewind
  /\ pc' = "idle"
  /\ UNCHANGED <<configVars, brokerVars, inflight, cardq, assigned, owned, paused, pausedParts,
                 low, busConf, attempts, caller, active, settings, cardConfirmed, edits>>

CommitSucceeds ==
  /\ pc = "commit"
  /\ Delivered
  /\ Head(batch).partition \in owned
  /\ CommitOffset(Head(batch))
  /\ batch' = Tail(batch)
  /\ pc' = IF Tail(batch) = <<>> THEN "idle" ELSE "reload"
  /\ UNCHANGED <<configVars, log, outputs, card, producerVars, consumerVars, busConf,
                 attempts, faults, caller, active, settings, cardConfirmed, edits>>

\* commit(): CommitFailed.  A member that was dropped is refused; the answer to
\* an owner's commit may be lost, with the offset committed or not.
CommitFails ==
  /\ pc = "commit"
  /\ Delivered
  /\ IF Head(batch).partition \in owned
       THEN Fault /\ (UNCHANGED committed \/ CommitOffset(Head(batch)))
       ELSE UNCHANGED <<committed, faults>>
  /\ Rewind
  /\ pc' = "idle"
  /\ UNCHANGED <<configVars, log, outputs, card, producerVars, assigned, owned, paused,
                 pausedParts, low, busConf, attempts, caller, active, settings,
                 cardConfirmed, edits>>

-----------------------------------------------------------------------------
(* _sync_card *)

WantedCard == IF active THEN settings ELSE Tombstone

SyncProduce ==
  /\ pc = "card"
  /\ ProduceCard(WantedCard)
  /\ pc' = "flush"
  /\ UNCHANGED <<configVars, brokerVars, inflight, errors, consumerVars, busConf, attempts,
                 faults, caller, batch, active, settings, cardConfirmed, edits>>

\* The pause or resume that start and _reload apply after _sync_card, whether
\* it returned or raised.
Lifecycle ==
  CASE caller = "activate" -> Resume
    [] caller = "deactivate" \/ (caller = "start" /\ ~active) -> Pause
    [] OTHER -> UNCHANGED <<paused, pausedParts>>

Return ==
  CASE caller = "start" -> pc' = "idle" /\ UNCHANGED <<batch, position>>
    [] caller = "retry" -> pc' = "poll" /\ UNCHANGED <<batch, position>>
    [] OTHER -> AfterReload

\* ensure_delivered returned, or raised DeliveryFailed, which is logged only.
SyncFlush ==
  /\ pc = "flush"
  /\ \/ Delivered /\ cardConfirmed' = TRUE /\ UNCHANGED <<errors, faults>>
     \/ DeliveryFailed /\ cardConfirmed' = FALSE
  /\ Lifecycle
  /\ Return
  /\ UNCHANGED <<configVars, brokerVars, inflight, cardq, assigned, owned, low, busConf,
                 attempts, caller, active, settings, edits>>

\* Mutant: only DeliveryFailed marks the card as unconfirmed.
SyncRaisesConfirmed ==
  /\ pc = "card" /\ caller # "start"
  /\ Fault
  /\ Lifecycle
  /\ Rewind
  /\ pc' = "idle"
  /\ UNCHANGED <<configVars, brokerVars, producerVars, assigned, owned, low, busConf,
                 attempts, caller, active, settings, cardConfirmed, edits>>

\* describe, the schema check or the produce raises: out of step, rewinding
\* what the step had fetched, and back to run's loop.
SyncRaises ==
  /\ pc = "card" /\ caller # "start"
  /\ Fault
  /\ cardConfirmed' = FALSE
  /\ Lifecycle
  /\ Rewind
  /\ pc' = "idle"
  /\ UNCHANGED <<configVars, brokerVars, producerVars, assigned, owned, low, busConf,
                 attempts, caller, active, settings, edits>>

\* The same during start, which raises in turn: the replica is not built.
StartRaises ==
  /\ pc = "card" /\ caller = "start"
  /\ Fault
  /\ ProcessEnds
  /\ UNCHANGED <<file, brokerVars, position, low, busConf, attempts, caller, settings, edits>>

-----------------------------------------------------------------------------
OperatorEdits ==
  /\ edits < MaxEdits
  /\ edits' = edits + 1
  /\ Edit
  /\ UNCHANGED <<busVars, loopVars>>

Broker == BrokerNext /\ UNCHANGED <<configVars, runtimeVars>>

Process ==
  \/ Boot \/ Start \/ StartRefused
  \/ StepBegin \/ PollReturns
  \/ ReloadKeeps \/ ReloadWithCard \/ ReloadWithoutCard
  \/ Handle \/ CommitUndelivered \/ CommitSucceeds \/ CommitFails
  \/ SyncProduce \/ SyncFlush \/ SyncRaises \/ StartRaises

Consumer == Rebalance \/ \E p \in Partitions : Fetch(p)

Next == Process \/ Consumer \/ Broker \/ OperatorEdits \/ Crash

Spec == Init /\ [][Next]_vars

\* The loop thread never stops by itself; a poll that keeps finding records
\* returns them; the group keeps offering partitions; the producer keeps
\* retrying what is in flight.
Fairness ==
  /\ WF_vars(Process)
  /\ SF_vars(Rebalance)
  /\ \A p \in Partitions : SF_vars(Fetch(p))
  /\ WF_vars((\E o \in inflight : Persist(o) \/ Acknowledge(o)) /\ Broker)
  /\ WF_vars(DeliverCard /\ Broker)

FairSpec == Spec /\ Fairness

-----------------------------------------------------------------------------
(* Properties *)

\* At-least-once: below the committed offset, from where the group started to
\* read, every record was handled by a run of the handler all of whose outputs
\* reached their topics, or it could not be decoded.  Retries, rewinds of a
\* whole batch, rebalances, lost commit answers and crashes may not open a gap.
NoSkippedOutput ==
  \A p \in Partitions : committed[p] # None =>
    \A k \in low[p] .. committed[p] - 1 :
      LET r == [partition |-> p, offset |-> k] IN Decodable(r) => Complete(r)

\* Why it holds.  The loop's control: which phases have a batch.
LoopOK ==
  /\ pc \in {"handle", "commit"} => batch # <<>>
  /\ pc \in {"down", "booted", "idle"} => batch = <<>>
  /\ pc \in {"card", "flush"} /\ caller \in {"start", "retry"} => batch = <<>>

\* Positions and commits stay within the log, and a batch behind the position.
WithinLog ==
  /\ \A p \in Partitions : position[p] <= Len(log[p])
  /\ \A p \in Partitions : committed[p] # None => committed[p] <= Len(log[p])
  /\ \A i \in DOMAIN batch : batch[i].offset < position[batch[i].partition]

\* A batch holds each partition's records in offset order.
BatchInOrder ==
  \A i, j \in DOMAIN batch :
    i < j /\ batch[i].partition = batch[j].partition => batch[i].offset < batch[j].offset

\* What the owner has fetched is handled or still in its batch.
NothingDropped ==
  \A p \in owned : \A k \in low[p] .. position[p] - 1 :
    LET r == [partition |-> p, offset |-> k]
    IN Decodable(r) => Complete(r) \/ \E i \in DOMAIN batch : batch[i] = r

\* Every output of the run about to be committed is persisted, under way, or
\* has left an error behind.
OutputsAccountedFor ==
  pc = "commit" =>
    \E a \in attempts : a[1] = Head(batch) /\ (a[2] \subseteq outputs \cup inflight \/ errors # {})

\* The owner has not gone back further than the record whose commit answer was
\* lost.
AtMostOneBehind ==
  \A p \in owned : committed[p] # None =>
    /\ committed[p] <= position[p] + 1
    /\ \A i \in DOMAIN batch :
         batch[i].partition = p => committed[p] <= batch[i].offset + 1

\* The inductive invariant behind NoSkippedOutput and CommittedNeverRegresses.
DeliveryInv ==
  /\ LoopOK /\ WithinLog /\ BatchInOrder /\ NothingDropped /\ OutputsAccountedFor
  /\ AtMostOneBehind /\ NoSkippedOutput

\* A commit never takes a partition's offset back, whoever owns the partition.
CommittedNeverRegresses ==
  [][\A p \in Partitions :
       committed[p] # None => committed'[p] # None /\ committed'[p] >= committed[p]]_vars

\* Whatever the loop, its replicas and the broker do, the agent is an
\* at-least-once consumer: this is what the agents that read its outputs rely on.
Promise == INSTANCE AtLeastOnce WITH done <- {r \in Inbound : Complete(r)}
ImplementsAtLeastOnce == Promise!Spec

\* Whenever the loop polls, it fetches exactly the assigned partitions if the
\* agent is active and nothing if it is not, whatever raised or rebalanced
\* between the change and the poll.
PausedMatchesActive ==
  pc \in {"idle", "poll"} =>
    /\ paused = ~active
    /\ pausedParts = IF active THEN {} ELSE assigned

\* A confirmed card is the truth: agent.cards shows the card of the settings in
\* force, or a tombstone when the agent is inactive, and no older card write is
\* still on its way.
ConfirmedCardIsOnTopic ==
  cardConfirmed /\ pc \in {"idle", "poll", "reload", "handle", "commit"} =>
    card = WantedCard /\ cardq = <<>>

\* Without a fault no record is handled twice: a pause, a rewind or a reload
\* gives back only records that were not handled.
NoNeedlessReprocessing ==
  [][Handle /\ faults = 0 => \A a \in attempts : a[1] # Head(batch)]_vars

\* The file can be applied without a restart of the agent.
Applicable == Builds(file) /\ Reconfigurable(file.bus)

\* Once faults and edits stop, a running agent is in the state its file asks
\* for: active or paused, with its card or without.
RuntimeFollowsFile ==
  <>[](Applicable /\ pc \notin {"down", "booted"} =>
         LET on == file.agent = "enabled"
         IN active = on /\ paused = ~on /\ card = IF on THEN SettingsOf(file) ELSE Tombstone)

\* If the file settles on an enabled agent, every record from the group's start
\* on that decodes is handled to completion.
EveryRecordHandled ==
  <>[](Applicable /\ file.agent = "enabled") =>
    <>[](\A p \in Partitions : \A k \in low[p] .. Len(log[p]) - 1 :
           LET r == [partition |-> p, offset |-> k] IN Decodable(r) => Complete(r))

\* DeliveryFailed's contract (bus.py), for any record a handler ran on: the caller
\* processes it again, or stops, before it commits anything later.  It fails for a
\* group that has not committed yet: an assignment takes it to the end of the log.
FailedInputNotPassed ==
  \A a \in attempts :
    LET p == a[1].partition
    IN committed[p] # None /\ committed[p] > a[1].offset => Complete(a[1])

\* "An unconfirmed card operation ... never reaches a message commit": a commit
\* fails only because of the agent's outputs.
CardNeverFailsACommit ==
  [][CommitUndelivered => inflight # {} \/ "output" \in errors]_vars
=============================================================================
