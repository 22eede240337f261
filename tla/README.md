# Verification of the Device Trust Mesh

TLA+ specifications of the programs in this repository, TLC runs that check
them on small instances, and proofs for every instance. The core is the agent
runtime of `device-trust-mesh`: what an agent promises about the records it
consumes, the outputs it produces, its configuration and its Agent Card, while
brokers fail, groups rebalance, processes die and operators edit files. Beside it
stand the context server, what its lookups answer while its table is replayed,
and the enrolment loop: what devices, agents and the simulator make of requests,
challenges and commands when records are lost, repeated, late or stale; the
live UI, what a page shows of a board that two threads change; the synchronous
client of the context server, whose calls share one session with timeouts and
cancellations; and, of another program of the repository, the watch-history
enricher across checkpoints and restarts.

Paths below are relative to `src/device-trust-mesh/dtm/` unless they start with
another directory of `src/`.

## Inventory

| Part | State | Operations | What makes it correct |
|---|---|---|---|
| `mesh/runtime.py` AgentRuntime | active flag, settings, whether the card is confirmed, the batch being processed | `start`, `step`, `_reload`, `_rewind`, `_sync_card` | no record's outputs are lost, no commit goes back, the consumer is paused exactly while the agent is inactive, a confirmed card is the one on the topic, the runtime converges to its file |
| `common/bus.py` AgentBus | consumer position and assignment, pause flag, produced records without a report, collected errors, config | `subscribe`, `_on_assign`, `poll`, `send`, `reply`, `produce_avro`, cards, `commit`, `ensure_delivered`, `reconfigure`, `rewind`, `pause`, `resume` | a commit follows the delivery of everything produced; start positions apply only before the first commit |
| `common/config.py` FileConfigSource | digest last returned | `load`, `refresh` | an edit is offered exactly once, an invalid one never, and the next valid one always |
| `mesh/agents/host.py` AgentHost | poll thread, stop flag | `from_environment`, `start`, `_await_context`, `stop` | bus and runtime start from the same configuration; a host told to stop stops consuming, whatever hangs |
| `mesh/agents/kit.py`, `common/ids.py` | output index | `Outputs.*`, `run_task` | redelivery reproduces ids |
| `mesh/context/` context table, materializer, MCP and REST server | latest rows, signal windows, offsets, readiness | `apply`, `get_device` with `min_seq`, `run_once`, readiness | never reports OK below the asked sequence, index agrees with rows, ready only after everything present at the start was applied |
| `mesh/agents/context.py` SyncContext | the session and its owner task, lock, closed flag | calls with timeouts, `_open`, `_drop`, retry on a kept session, `close` | every call ends, no session is lost, nothing runs behind the shutdown |
| `mesh/agents/{risk,enrolment,step_up,revocation}.py` | none of their own | one task per request | guardrails bound the model, a challenge is resolved |
| `mesh/agents/compliance.py` | bounded map of audited messages | `_auditable` | one audit per artifact |
| `simulator/` | device states, pending answers, seen commands, tokens | `tick`, `on_policy_command`, `on_control` | no device is stuck, each challenge answered once |
| `ui/` hub, board, readers | pending deltas per subscriber, bounded board, health flags | `publish_threadsafe`, `subscribe`, `apply_*` | a browser that applies what it gets ends with the board |
| `src/youtube-history/flink/yt-enricher` | pending events and timer (checkpointed), metadata cache and counted ids (not) | `load`, `processElement`, `onTimer`, `flushBatch`, `fetchBatch`, `open` | every event is enriched or sent to the DLQ, whatever restarts, after its video's metadata |
| `src/youtube-history/producer`, `src/flink-autoscaler` | none | one pass; load generator | outside the models |

Interactions: agents exchange records only through Kafka topics; an agent reads
business data only from the context server; the operator acts only through the
mounted file; the simulator and the enrolment agents form a closed loop through
`device.events` and `device.policy-commands`.

Hard behaviours: a batch mixes partitions, and any record of it may fail after
earlier ones were committed; a rebalance may hand a partition to another
replica between fetch and commit; a commit's answer or a delivery report may be
lost or late; the configuration is reloaded before every record, so a pause,
a card write and a rewind can happen in the middle of a batch; a card write
shares the producer with the outputs a commit waits for; a call of the context
server may be timed out or cancelled in any of its awaits, one of them within
another's cancellation, while it holds the lock that all calls need; the enricher
clears its checkpointed state before it calls the API, and what it keeps beside
that state is gone after a restart.

## Modules

| Module | Models |
|---|---|
| `FileConfigSource` | the mounted `agents.yaml` and the source's digest |
| `AgentBus` | the bus calls as operators, and the broker, coordinator and client library around them (external, from how the bus uses them) |
| `AgentRuntime` | the poll loop on its bus, one action per step between two points where the environment can interleave; the properties |
| `MCAgentRuntime` | the file contents and other constants for TLC |
| `AtLeastOnce` | the abstract promise to the readers of an agent's outputs: a consumer group passes a record only when its work is done |
| `AgentRuntimeProofs` | type correctness, the pause state and the card |
| `AgentDeliveryProofs` | the delivery guarantee, failed inputs, no needless reprocessing; the runtime implements `AtLeastOnce` |
| `ContextTable` | the table of context-mcp: each operator is one critical section of its condition |
| `ContextReplica` | a replica: the materializer that replays the topics into the table, the gate that admits lookups, the lookups and their client, writers and restarts; the properties |
| `MCContextReplica` | the records that writers append, in four stories of one replica, for TLC |
| `Simulator` | the engine: each operator is a call of its one thread |
| `EnrolmentFlow` | the engine in its loop, the router (external), the Risk, Enrolment and Step-up agents, and the topics between them; the properties |
| `UiBoard` | the board behind the page: each operator is a call under its lock, with the deltas it returns |
| `UiHub` | the two source threads, the hub on the event loop, and the pages; the properties |
| `UiHubProofs` | the UI's types, wake-ups and targets |
| `UiPageProofs` | what pages end with: their rows, their feed and flags |
| `MCUiHub` | how much of a stream and how many outages go together, for TLC |
| `SyncContext` | the calls of agent threads as tasks on one event loop, the session they share, its owner, and `close` |
| `AgentHost` | the poll thread and the thread that stops the host, on `SyncContext`; the properties |
| `Enricher` | the enricher's `main`, its one task, the API client, the sinks, and Flink's checkpoints and restarts (external); the properties |
| `MCEnricher` | events, videos and titles, for TLC |
| `ContextReplicaProofs` | type correctness, the table, its index and windows, readiness, wakeups and answers |
| `EnrolmentFlowProofs` | the enrolment loop |
| `AgentHostProofs` | sessions and the shutdown |
| `EnricherProofs` | the enricher's accounting |

Operators whose comment starts with `Mutant:` are faulty variants of the
definition after them. No specification uses them; substituted for that
definition, they make a property of a run fail.

### Correspondence

A record is named by partition and offset; its only content is whether it
decodes. An output is named by what `ids.message_id` hashes: the record, the
config version (the settings themselves, hashes taken as injective) and its
index (its kind). A file content is a record: valid or not, what it says of
this agent, a behaviour setting, and the bus block with `policyCommands` apart
from the rest. `pc` is where the loop's only thread is between two calls; the
header of `AgentRuntime` lists its values. `caller` says who called
`_sync_card`, because what follows it (pause, resume, poll, the next record)
is in the caller.

`batch` holds the fetched records that are not yet committed, so `_rewind`
of `batch[i:]` is a rewind of the whole sequence. `low`, `attempts` and
`faults` are history or bounds and steer nothing in the code.

What the model assumes of the client library: with the eager protocol every
assignment starts from the committed offsets; a rebalance is served before
`consume` collects records; the idempotent producer keeps one key's records in
order; a failed record may have been persisted; a flush that times out leaves
records queued that may be delivered later; a seek fails only on a partition
that was taken away.

Another replica (`HasPeer`) handles records and commits. It writes no Agent Card,
though an agent's replicas share the card's key, so `ConfirmedCardIsOnTopic`,
`CardSafety` and what `RuntimeFollowsFile` says of the card are about an agent with one
replica. Left out: looking up committed offsets or timestamps that raises out of
`_on_assign`, which only the start positions of replays do.

Of a row `ContextTable` keeps the fields the table itself looks at: a device's
customer and sequence, that a customer has a row, a signal's id and time. A
record that does not deserialize, or that `apply` refuses before it changes
anything, is skipped. Each topic has one partition; a log offset is an index
minus one. A batch of `run_once` is applied record by record, with lookups
between any two, which is what the condition's lock allows. A lookup is
`calling` before it has the lock, `waiting` in `wait_for`, and `notified` from
`notify_all` until it has the lock again; its client's retries are in
`tries`. `answer` and `atStart` are history. A replica that dies, is stopped, or
gives up catching up is one action: its table, consumer and calls are lost.

`get_customer`, `list_devices` and `list_risk_signals` change nothing and are no
actions: `GetCustomer`, `ListDevices` and `ListRiskSignals` say what they return, and
`IndexMatchesRows` and `NewestSignals` speak of that.

`AnswersNeverGoBack` and its theorem are about the lookups that one replica answers,
restarts included. A caller whose lookups are balanced over several replicas may read
an older row after a newer one; only `min_seq` protects it.

Left out of the context server: the device cap, which only raises a metric;
filters of a list by trust status; `materializedAt`; the REST and MCP plumbing. Brokers compacting a topic, or deleting records that were not
consumed, are not modelled.

In `EnrolmentFlow` a topic is a log per device and its reader's position, as every
topic is keyed by device. Events carry the number `next_seq` gave them, requests
the number of the event they start from (their `required_context_seq`), commands
the id that `ids.message_id` derives: who emits, for which event. A decision that
asks the model has one more output before its command than one that a guardrail
takes, so the two commands have different ids, which `CommandId` keeps apart.
The agents are not repeated from `AgentRuntime`: a request is handled and passed,
or handled and met again, or its output arrives late, which is what
`AtLeastOnce` leaves open. The context is not repeated from `ContextReplica`: a
lookup answers from any row at or above `min_seq`, or the task fails. Signals,
read without `min_seq`, may or may not know of an earlier compromise. A model
gives any answer.

The engine's clock is the time between two ticks. A tick is `Tick` (time passes,
answers that are due leave), one `Emit` per token, then `EndTick`; nothing of the
loop's thread runs in between, but the agents do. A device's `next_seq` never
falls back, across restarts either, since it is floored at the clock.

The revocation agent is a scaffold that rejects every task, orders nothing and
keeps no state. The compliance agent reads decisions and orders nothing either;
its delivery, retries and commits are those of `AgentRuntime`, and its memory of
audited messages, which lets a failed audit go unwritten, is listed as a hazard
without a property.

`ChallengesAnsweredOnce` compares answers with the times a challenge was taken up. A
command that a restart or the full memory made the simulator forget, and that is
delivered again, is taken up again and may be answered again: this is less than one
answer per command.

Left out of the flow: task replies and artifacts, events
of unknown devices, commands without a task or with an unknown action (no
agent emits one), and a device's scenario beyond whether its fingerprint is
rooted; the guardrail of `_bound` against a grant without a risk assessment, which
challenges as the other guardrails do; a configuration edit between two
deliveries, which changes ids (see the end of the runs).

`UiBoard` keeps of a device row what each of its two writers contributes: the
poller a context sequence, the reader the time of a decision. Of a message it keeps
whether its target is known; coordinates are one number, since the page only
compares them. The summary, the pairs and the bubbles are computed anew by
whoever changes them and are left out with their deltas. Lists of deltas and
backlogs are as the code has them, but for those left out, so `QueueLimit` is as
arbitrary as the constant it stands for.

In `UiHub` a step is a call of the board, a callback of the event loop, or the
run of a subscriber's generator between two awaits; a thread can be stopped
between changing the board and publishing what the change returned, which is
where the code gives up the lock. A page applies an event when it is sent:
between the server and the page nothing overtakes. A page that comes back is a
new subscriber. Left out: where the reader starts, a poll that raises in the
middle of its rows, and stopping the threads.

In `SyncContext` a step of the loop is what one task does between two awaits. Every
task, a call's or the shutdown's, takes `_session_lock` first and keeps it to its end, so
`lock` is the whole queue, and `step` says in which await of `_with_session`,
`_open` or `_drop` a task is: `aborting` is `_open`'s wait for an owner it told
to stop, `redropping` the `_drop` before the retry, `dropping` the one before the call
raises. A call ends with its future, which ends its caller's wait. Time is not
measured: a timeout may fire in any wait it covers, `asyncio.timeout` also after
the caller's own cancellation. A session is a number; its owner enters, is open, and
ends, of its own, told to, or cancelled. `AgentHost` orders the calls of the poll
thread, which makes the next one only when the last is over, and lets other threads
make the rest at any time (external). The stop flag may be seen between any two
of the poll thread's calls, while the loop looks at it between its steps: a batch
is finite, so this only ends it earlier. `StopEndsPolling` is about the poll thread
alone; that the bus and the context are not closed while it still runs is `stop`'s
bounded join, which it does not speak of. What a call asks and what its handler does
with the answer is in `AgentRuntime` and `EnrolmentFlow`, not here.

In `Enricher` a step is a record through `processElement`, a timer, an answer of the
API, the settling of one video of a batch, a checkpoint barrier, or a failure. The
barrier meets the task between records only (`Idle`), since Flink runs `flushBatch`
on the same thread. The sinks' producers send on their own: `sent` is what was handed to
them, and a task that ends leaves any subset of it in the topics. A failed task
is deployed from the job graph and so with the cache that `main` submitted
(`submitted`); only a failed application runs `main`, and so `MetadataBootstrap.load`,
again. It then restores the last checkpoint. The manifest names a storage
directory for high availability but no type, so a lost JobManager may instead
start from a savepoint or from the earliest offset; no property depends on which. A video's clues are a set, its verdict the strongest of them. The API may say
that a video of `Fragile` does not exist. Left out: tombstones of the metadata topic,
which nothing in the repository writes; the Avro formats; history entries
without a video's id, which the producer drops.

## Runs

The runs named `Runtime...` instantiate `MCAgentRuntime`, `ContextStories`
`MCContextReplica`, `UiStories` `MCUiHub`, those named `Enricher...` `MCEnricher`; those
named `Flow...` and `UiOvertaken` are of `EnrolmentFlow` and `UiHub` themselves, and
`HostCalls` of `AgentHost`. A type invariant that is proved for every
instance is not checked again by a run.

Both runs below use the live start position, `committed`; the others are for replays
only. In them, `MaxFaults` bounds failed or late
deliveries, lost commit answers, dropped members, exceptions and crashes
together; `MaxEdits` bounds operator edits; `MaxLog` the records per partition.
Deadlock is not checked where every bound used up leaves nothing to do: a disabled
agent, a loop that was stopped, topics that are read to their end.

| Run | Instance | Shows |
|---|---|---|
| `RuntimeDelivery` | 2 partitions of 2 records, batches of 2, another replica, 2 faults | at-least-once when batches mix partitions and the group moves them, monotone commits, and the implementation of `AtLeastOnce` |
| `RuntimeLifecycle` | every file content, 2 records, 1 fault, 2 edits, under fairness | pause state, confirmed cards, no needless reprocessing; the runtime converges to the file and every record is handled |

Two faults are enough for a failure during the recovery from another; two edits
for a change and its reverse; two partitions with batches of two for a batch
that mixes them and is partly committed when it is rewound. The proofs below remove these
bounds for the delivery guarantee.

| Run | Instance | Shows |
|---|---|---|
| `ContextStories` | four stories of one device, under fairness: two customers and topics of 2 records, with unreadable ones and markers, 1 caller, 1 fault; the same with 2 callers and topics of 1 record; a window of 2 and 4 signals of 3 ids with equal and different times, or none; a sequence that is cleared, topics that end in transaction markers, 1 caller, 1 fault. A caller retries once | the table is the compaction of its topics, the index agrees with the rows, the window holds the newest distinct signals in order, readiness, wakeups, and what an answer promises; readiness comes, and every lookup ends |

Two records of a device move it, take its sequence back or remove it; two
callers are needed for one of them to miss a wakeup; one restart is enough to
answer from an empty table; four signals overflow a window of two twice. Two callers
miss a wakeup by one record already. The stories are apart because late signals, stalled
topics and several callers together are too many states, and have little to do with each
other. The proofs below remove these bounds for everything but liveness.

| Run | Instance | Shows |
|---|---|---|
| `FlowEnrolment` | 1 device that asks up to its second event, 1 control record, 1 fault of any kind: a loss, a repetition or late output, a restart | a command is applied once, a challenge answered once, a resumed task is the challenged one, trust rests on a clean fingerprint that is not too old |
| `FlowSettles` | the same with 1 loss, 2 control records, 1 injected scenario, under fairness | no device awaits a resolution for ever |

Devices share nothing but tokens, so one shows what a loop does. Two requests of
a device make its first one old; a timeout that is longer than the answer's
delay lets answers and repeated requests overtake each other; a memory of two
commands overflows with the three that a challenged request takes. One fault
on top of the order in which four processes run is what finishes in minutes;
`MaxEvents` stops a device from asking again, and a loss leaves room for the
request that repairs it. `AppliedOnce` is about `DedupeCapacity` consecutive
commands, which is all the engine remembers.

| Run | Instance | Shows |
|---|---|---|
| `UiStories` | 1 device, 1 task, 1 reply, a feed of 2, backlogs of 1, 1 page, under fairness: 3 records and 1 changing poll without outage; 1 record, 2 outages and a page that comes back; 1 outage among 2 records or a record and a poll. Before an outage 1 record may be fetched | a page ends with the board's feed and flags, no backlog is left asleep, a row lags by at most one writer, a reply finds its task; a page shows in the end whether the context server answers and what the reader believes of Kafka, which is never that it is lost when it is not; a loss of Kafka is shown unless fetched records hide it |

Three records, one of them a repetition, overflow a feed of two, come in either order
of task and reply, and arrive as a list that no backlog takes; each can reach the
page by a snapshot, a delta, or both. A row has two writers, so one change of
each is enough to lose one. At most one list is scheduled on the loop at a
time (`MaxQueued`): the loop runs callbacks in the order they came, and what is
behind the first only waits. Two outages are
of one source twice, or of both, at once or one after the other. Outages and a long
stream are apart because together they are too many states; the board's content has no part in
what the flags do.

| Run | Instance | Shows |
|---|---|---|
| `HostCalls` | 3 calls, 2 of the poll thread and 1 of another, 3 sessions, `stop` at any moment, under fairness | no session is lost, nothing is queued behind the shutdown; whatever hangs, every call's task ends while the loop runs, and a host told to stop stops consuming |
| `EnricherRestarts` | 4 events of 3 videos in 2 partitions, one video fragile, one with two titles of which one is a music video's, batches of 2, an API that takes 2, 2 attempts, 1 fault, under fairness | no event is forgotten by a checkpoint, handled twice between restarts or left without a timer; metadata comes first; a video keeps its verdict; every event reaches a sink |

Three calls are a probe, the call of a handler, and one that comes between them
or waits behind both while `close` comes; each call opens a session at most twice, and
the third session is opened after two were lost. For the enricher, two batches are
needed for a checkpoint between them, a fourth event for a video that is already known
or already waited for, a partition of its own for that event to come at any time. One failure
then shows each restore from each checkpoint. The proofs remove these bounds for
everything but what must eventually happen.

Four runs end in a violation of what the repository states, each listed in
`PROJECT.json` with the sentence it contradicts:

| Run | What happens |
|---|---|
| `RuntimeFirstCommit` | before the group's first commit a record whose output was refused is rewound to, but a rebalance takes the partition to the end of its log (`auto.offset.reset=latest`), and the next commit passes the record |
| `RuntimeCardInCommit` | a card write whose flush timed out is still queued when a record is committed, and fails that commit |
| `UiOvertaken` | a device row made by one source thread is published after a newer row of the other, and the page keeps the older one |
| `EnricherPoisoned` | restored events are not counted in a batch, so a checkpoint can come to hold more videos than the API takes in a call, and every flush after it fails |

`EnricherPoisoned` takes two failures, and checkpoints that complete, within one window of the
batch timer. `EventsSettle` says what is left: every event is handed to a sink unless
that happens. `BrowserEndsWithBoard` fails in `UiOvertaken`, and `RowsLagOneWriter` is what is
left of it: a row at rest is never older than both of its writers.
`NoSkippedOutput` counts from where the group last started without a committed offset
(`low`), so it holds in spite of `RuntimeFirstCommit`; `FailedInputSafety` says when
`FailedInputNotPassed` does hold.

Other disagreements, and losses nothing in the code prevents, are in the models and are no runs:

- The card of an agent that is removed from the file while its process is down stays on the
  topic: `start` raises before it writes a tombstone (`mesh/runtime.py`).
- A file edited between the load that configures the bus and the one of `start` leaves
  the bus with the old `policyCommands` mode until the next edit.
- A reload between two deliveries of a record changes the ids of its outputs, since the
  config version is hashed into them (`kit.py` says so, `README.md` of the mesh only
  names the record).
- The client reports the loss of all brokers once. A record that it had fetched before, returned
  with or after the report, is taken as the proof that Kafka is back (`ui/sources.py`,
  `_kafka_health`): the mark is undone, nothing sets it again, and the board stays fresh
  through the outage, while the module promises to report an unreachable source as
  stale. `LossIsShown` exempts a loss with fetched records.
- A call that its caller cancels while it waits in `_drop` returns without cancelling an
  owner that hangs (`mesh/agents/context.py`): the owner stays told to stop, and that is
  all; `NoLostSession` says no more of it.
- The enricher's sinks have no delivery guarantee set (`EnricherJob.java`), and a
  checkpoint does not flush them: a crash after it loses records that were handed over,
  while `docs/adrs/0002-metadata-publish-plain-kafka-producer.md` of `youtube-history`
  promises no silent data loss. `Accounted` and
  `EventsSettle` speak of the hand-over.
- The enricher's cache after a failure of the task is the one submitted with the job: a
  video settled since is asked for again when its next event comes, and its verdict, which takes
  the title of that event, may differ and replaces the record of the metadata topic.
  `OneVerdict` speaks of one run of the task.

### Fairness

`FairSpec` assumes that the loop thread keeps running (it catches every
exception and retries), that a poll which keeps finding records returns them
and the group keeps offering partitions (strong fairness: the loop leaves and
enters `poll` for ever), and that the producer keeps working on what is in
flight. Faults and edits have no fairness: they may stop, and are bounded.

In `ContextReplica`, Serve starts a replica that is down; the materializer's
thread retries whatever raised, and goes through a batch and the readiness check
after it, so each of its actions is weakly fair; a lookup's thread gets the lock
or its timeout. Writers and callers have no fairness.

In `EnrolmentFlow` the simulator's loop goes on: it ends a tick it began (weak
fairness), and polls, lets time pass and draws each device again and again
(strong fairness, since a tick disables the polls for a while; the draw is
random, so that a device is never chosen has probability 0). Router and agents
take the next record, and an agent passes a request at last, which is
`NoSkippedOutput` and `EveryRecordHandled` of the runtime. The presenter and
faults have no fairness; `EveryRequestSettles` speaks of behaviours in which the
simulator is not left paused.

In `UiHub` both threads and every generator go on, the loop runs what is scheduled,
the client library makes the one report of an outage it owes unless the outage is over
before, a probe falls due, and a poll that finds nothing new can always follow. Records, polls
that change a row, outages and repairs have no fairness.

In `AgentHost` the threads and the loop go on, timeouts fire, a cancelled task
meets its cancellation, and a cancelled owner ends. Nothing is assumed of the
client: it may hang in any call, in opening and in closing. Callers and `stop` have no
fairness.

In `Enricher` `main` and the task are scheduled, the API answers in the end, and a timer
that is due fires before more records are read (strong fairness, since it is not
enabled within a flush). Checkpoints, retries and failures have no fairness.

## Proofs

`AgentRuntimeProofs.TypeSafety`: `TypeOK` and `LoopOK` together are inductive
(the head of a batch is a record only where `LoopOK` says the batch is not
empty). Two more inductive invariants rest on it:

- `PausedInv` gives `PausedMatchesActive`. It says by `caller` what holds while a card is
  on its way out: nothing is assigned at the start, a retry and an update find the
  pause right, an activation finds the agent active and a deactivation finds it
  not, so the call that follows the card sets the pause right, whether the card was
  delivered or raised.
- `CardInv` gives `ConfirmedCardIsOnTopic`. While `_sync_card` waits for its delivery, the
  wanted card is the last one queued or, when none is, on the topic, unless an error
  was collected; so a clean flush confirms the right one. It is about one replica, see above.

`AgentDeliveryProofs`: `IInv == TypeOK /\ DeliveryInv` is inductive. The parts
of `DeliveryInv` and why each is needed:

- `WithinLog`, `BatchInOrder`: positions, commits and batches stay in the log
  and in order, so the head of a batch is the lowest unhandled record of its
  partition.
- `NothingDropped`: what an owner fetched is handled or in its batch; a rewind
  keeps this by going back to the first record of each partition.
- `OutputsAccountedFor`: before a commit, the outputs of the run are persisted,
  in flight, or have left an error, so a clean flush means they are persisted.
- `AtMostOneBehind`: an owner lags behind the committed offset by at most the
  record whose commit answer was lost, so commits never go back.

`DeliverySafety` gives `NoSkippedOutput` and `CommitMonotone` gives
`CommittedNeverRegresses`, for every number of partitions, replicas' commits,
records, faults and edits, every batch size and start position. They rest on
the named assumptions on the constants only.

`FailedInputSafety` is for a group that has committed in every partition, whatever the start
position, or that starts at the earliest offset (`Anchored`). Without that it fails, as
`RuntimeFirstCommit` shows with the live start position. `Anchored` is never undone, since no commit is; with
it `low` stays 0 (`LowAtZero`), and what a handler ran on lies in the log and
decodes (`DecodesInv`), so a commit that passes it is one that `IInv` covers.

`HandledOnceSafety` gives `NoNeedlessReprocessing`. `HandledOnce` is its invariant:
without a fault the loop owns what its batch holds, and a handled record is behind the
position of its partition and before what the batch still holds of it, but for the one
about to be committed; in a partition of another replica it is committed.

`AgentDeliveryProofs.Refinement`: under the mapping `done <- {r : Complete(r)}`
every step is a step of `AtLeastOnce` or a stutter. A commit of the loop or of
another replica is the abstract `Commit`, because `IInv'` says that what lies
below it is handled; an assignment of a fresh group is `StartReading`; what
handlers and the producer do is `Work`, which only adds.

`ContextReplicaProofs`: `IInv` is the conjunction of `TypeOK`, the properties and
three supporting parts, each checked by TLC before it was proved:

- `ReplayInv` places the scan, the consumer's positions and the consumed counts:
  a scanned target is at or after what the topic held at the start, and what
  is consumed lies below the position. Readiness follows.
- `OffsetsCoverLog`: the offsets name the last applied record of each topic, and
  nothing after it that the consumer has passed was applied. So a row is also
  what a replay *up to the offsets* gives, which makes answers reproducible.
- `AnswersInPast`: every earlier answer is behind a serving replica, or was in the
  topics when a replica that is not yet serving started. This is the link
  between readiness and reads that never go back: a replica serves only after
  it has passed what was there at its start, hence every earlier answer.

Two properties about readers have invariants of their own:

- `IndexInv` says that the index holds each listed device under its row's customer and nothing
  else; `IndexReads` derives what the reads return (`IndexSafety`).
- `WindowInv` says that a device's window is filled with arrivals in order of event time and then of arrival,
  and that an arrival outside of it is older than all of a full window (`SignalsSafety`). `InsertAtElements` and `BisectRightSplits` say what
  the code's `bisect` and `insert` do to an ordered window; with one more
  arrival it stays ordered and loses the oldest at most (`WindowGrows`). The number of newer arrivals,
  which `NewestSignals` speaks of, then follows from the order (`CountNewer`).

The compaction lemmas (`LatestOfPrefix`, `LatestOfNext`) say how the latest row
changes with one more record and that it does not depend on later ones; they
rest on the well-ordering of the naturals for the maximum of a set of offsets.
The theorems hold for any records, numbers of devices, customers and callers,
`min_seq` arguments, retries and restarts.

`AgentHostProofs`: `IInv` is `TypeOK`, the two properties and three parts:

- `LockOK`: the queue of `_session_lock` holds each task once, exactly those under way, and
  all but its head wait. So what a task past its wait does, no other does at the same
  time; a call cancelled in the queue leaves it from the middle, which is why the
  order of the rest is a lemma of its own.
- `HolderOK`: the holder uses `_session` or `_session` is `None`. This is what makes `_drop`
  drop the session the call failed on, and not one opened since.
- `CloseOK`: the shutdown's task is new until `close` submits it, which is after
  `_closed` is set under the lock that `_call` takes.

`NoLostSessionSafety` and `ShutdownSafety` follow for any number of calls, threads and
sessions.

`EnricherProofs`: `IInv` adds to `TypeOK` and the properties

- `FlushShape`: while a batch is flushed the state is empty, so `Accounted` is about
  `flush` there, and a checkpoint, taken in no flush, finds the events in the state.
- `CacheIsDurable`: what a cache knows, submitted or live, the topic knows. `MetadataFirst` follows for
  cache hits.
- `WasRead`: what waits or was handed over since the restart was read, so an event that
  the source passes on is neither. `NothingTwice` follows.
- `WaitsUnknown`: an event waits for a known video only when a checkpoint restored it, the
  exception in `OneVerdict`.

They hold for any events, videos, titles, facts, limits, retries and faults.

`EnrolmentFlowProofs`: five theorems, on one type invariant (`FlowTypes`, which is
`TypeOK` with what the lists of answers and commands hold).

- `Grounds`: a command that challenges has a request of the task at the step-up agent, one that
  trusts has a clean fingerprint; so has each request, each scheduled answer and each answered
  challenge. `ResumedWereChallenged` and `TrustIsGrounded` are two of its parts; neither is
  inductive alone, since what resumes a task has gone through a command, an
  answer, an event and the router.
- `Window`: the engine's memory holds the latest commands it applied since it started, and all
  of them unless it is full. `SpacedOut`, which is `AppliedOnce`, follows step by step: a command that is not remembered was applied
  in an earlier life, or long enough ago.
- `Balance`: the answers to a command that were sent or are scheduled are no more than the times it was
  applied. `ChallengesAnsweredOnce` follows, however often a command comes and whatever
  a restart forgets. Lemmas of their own say how such counts change when an element is
  appended or a prefix of due answers leaves.

They hold for any devices, requests, losses, repetitions and restarts.

`UiHubProofs`: three theorems about the UI. `TypeOK` is inductive as it stands. The
limits in it need lemmas on what a pop and a drop of the oldest leave; that what a page applies
leaves it a page needs one on runs of deltas: the library has no
theorem on recursive functions whose domain is bounded, so it is proved from
the least number that breaks a set's closure.

- `Awake`: the same as `BacklogWakes` for pages that are gone too, since a page that
  comes back takes over what its slot holds.
- `OrphansWait`: what waits for a task stands no further from the end of the map of the
  waiting than the reply stands from the end of the feed, so a reply that is still held is
  still waited for as soon as `RequesterFactor` is at least one. `Dated`: what is held has coordinates that were
  read before, so that a new message meets none of its own. `RepliesFindTheirTask`
  follows, whatever the board forgot meanwhile.

`UiPageProofs`: `RowsInv` follows, for each device, the newest row that a thread has not published
yet: the reader's holds the board's decision, the poller's the board's sequence. When
both have published theirs, the newest row on its way over the loop, or the one that
the page shows if none is on its way, holds one of the two. `RowsLagOneWriter` is what
remains of it when nothing is under way. Lemmas say what a list of deltas, and the
concatenation of the queue, does to a page's row.

Its other theorem, `FeedFollowsBoard`, treats the feed, the Kafka flag and the context flag
as three parts, each written by one thread.

- `Based`: all that is under way from a part's thread leads from some earlier stage of the
  board (feed, newest coordinate, number of messages) to the board's present one.
- `Follows`: it leads every page that has not overflowed to the board's present state.
- `Apart`: a thread publishes nothing of the other's parts. What the other one has under
  way can thus come in between (`Widened`), and a mark can precede an idle
  poll (`Inserted`), without a change to where a part ends.
- `Settles`: what leads to the board's state leads back to it from there. A new page needs
  it, as its snapshot is ahead of deltas that are still to come. If the feed holds
  every message of the list, none is new to the page (`FewSettle`); otherwise the feed
  after each delta is what is left of the old one and what came since
  (`Again`). `Dated` gives that a new message is newer than all of them.

They hold for any pages, devices, tasks, replies, limits, outages and polls.

Model-checked only: the properties of liveness, which the prover does not cover.
Every safety invariant and every action property of a passing run is stated by a theorem.

## Plan

Done: the agent runtime with its bus, its configuration and its abstract promise;
the context replica; the enrolment loop with its simulator; the UI's board and hub;
the context client's session and the host's life; the enricher.

Not begun: the compliance agent's bounded memory of audited messages, fed by
repeated decisions, on a runtime that restarts.

Proofs after that: those of the compliance agent's module.

## Not modelled

Record construction and schema validation (`common/a2a.py`, `envelope.py`),
metrics, logging, prompts and model calls, rendering, the command lines, the
load generator of `flink-autoscaler`, and deployment files: no state whose
interleaving matters, or declarative.
