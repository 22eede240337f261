------------------------------- MODULE UiBoard -------------------------------
(***************************************************************************)
(* The board behind the UI (device-trust-mesh/dtm/ui/model.py): device     *)
(* rows, the message feed, and what a reply's target is known from.  Each  *)
(* operator is a call, which holds the board's lock: `Apply...` is the     *)
(* board after it, `...Deltas` what it returns.                            *)
(*                                                                         *)
(* Of a device row it is kept what each of its two writers contributes:    *)
(* the poller a context sequence, the reader the time of a decision.  Of a *)
(* message, whether its target is known.  Summary, pairs and bubbles are   *)
(* recomputed as a whole by whoever changes them, and left out, as are the *)
(* deltas that carry them; so are audit records, whose target is fixed,    *)
(* tasks without a sender, and polls that raise half way.                  *)
(***************************************************************************)
EXTENDS Integers, FiniteSets, SequencesExt

CONSTANTS
  Devices,         \* devices that context-mcp may list
  Tasks,           \* message ids of tasks
  Replies,         \* message ids of decisions and statuses
  FeedLimit,       \* feed_limit, and FEED_LIMIT of the page
  RequesterFactor, \* REQUESTER_FACTOR
  NotListed        \* in place of a row

ASSUME BoardAssumption ==
  /\ FeedLimit \in Nat \ {0} /\ RequesterFactor \in Nat \ {0}
  /\ Tasks \cap Replies = {}
  \* else _latency forgets decisions
  /\ IsFiniteSet(Devices) /\ Cardinality(Devices) <= FeedLimit

Sources == {"kafka", "context"}

Row == [seq : Nat, decided : Nat]

ASSUME RowAssumption == NotListed \notin Row

\* `at` is a record's coordinates in its topic.
Entry == [at : Nat, id : Tasks \cup Replies, targeted : BOOLEAN]
Held == [id : Tasks \cup Replies, at : Nat]
Orphan == [cause : Tasks, replies : Seq(Replies)]

Board ==
  [rows : [Devices -> Row \cup {NotListed}],   \* _devices
   decided : [Devices -> Nat],                 \* _decided_at and _latency
   feed : Seq(Entry),                          \* _feed, oldest first
   held : Seq(Held),                           \* _rows
   requesters : Seq(Tasks),                    \* keys of _requesters
   orphans : Seq(Orphan),                      \* _orphans
   stale : [Sources -> BOOLEAN]]               \* _stale, without the time

EmptyBoard ==
  [rows |-> [d \in Devices |-> NotListed], decided |-> [d \in Devices |-> 0],
   feed |-> <<>>, held |-> <<>>, requesters |-> <<>>, orphans |-> <<>>,
   stale |-> [s \in Sources |-> FALSE]]

\* Mutant: one more than the limit is kept.
NewestAndOne(s, n) == IF Len(s) > n + 1 THEN SubSeq(s, Len(s) - n, Len(s)) ELSE s

\* What a bounded deque or an evicting map keeps.
Newest(s, n) == IF Len(s) > n THEN SubSeq(s, Len(s) - n + 1, Len(s)) ELSE s

\* A map after the pop of a key, which stands at one index at most.
Popped(map, at) == IF at = {} THEN map ELSE RemoveAt(map, CHOOSE i \in at : TRUE)

-----------------------------------------------------------------------------
(* Messages *)

HeldUnder(b, id) == {i \in DOMAIN b.held : b.held[i].id = id}

\* _message
Posted(b, e) ==
  [b EXCEPT !.feed = Newest(Append(@, e), FeedLimit),
            !.held = Newest(Append(Popped(@, HeldUnder(b, e.id)), [id |-> e.id, at |-> e.at]),
                            FeedLimit)]

Requested(b, task) == task \in Range(b.requesters)

OrphansOf(b, cause) == {i \in DOMAIN b.orphans : b.orphans[i].cause = cause}

\* Replies that wait for the task they answer.
Expecting(b, cause) == UNION {Range(b.orphans[i].replies) : i \in OrphansOf(b, cause)}

\* Held replies that wait for the task to name their target.
Waiting(b, task) == {h.at : h \in {i \in Range(b.held) : i.id \in Expecting(b, task)}}

Targeted(feed, ats) == [i \in DOMAIN feed |-> [feed[i] EXCEPT !.targeted = @ \/ feed[i].at \in ats]]

\* Mutant: the target is filled in a copy that only the held row has.
ApplyTaskOnCopy(b, task, at) ==
  LET known == IF Requested(b, task) THEN b.requesters
               ELSE Newest(Append(b.requesters, task), FeedLimit * RequesterFactor)
      posted == Posted([b EXCEPT !.requesters = known], [at |-> at, id |-> task, targeted |-> TRUE])
  IN [posted EXCEPT !.orphans = Popped(@, OrphansOf(b, task))]

\* apply_task, with _fill_targets
ApplyTask(b, task, at) ==
  LET known == IF Requested(b, task) THEN b.requesters
               ELSE Newest(Append(b.requesters, task), FeedLimit * RequesterFactor)
      posted == Posted([b EXCEPT !.requesters = known], [at |-> at, id |-> task, targeted |-> TRUE])
  IN [posted EXCEPT !.feed = Targeted(@, Waiting(posted, task)),
                    !.orphans = Popped(@, OrphansOf(b, task))]

TaskDeltas(b, task, at) ==
  LET e == [at |-> at, id |-> task, targeted |-> TRUE]
  IN <<[type |-> "message", entry |-> e]>> \o
     SetToSeq({[type |-> "target", at |-> w] : w \in Waiting(Posted(b, e), task)})

\* _remember_orphan
Orphaned(b, reply, cause) ==
  LET replies == SetToSeq(Expecting(b, cause) \cup {reply})
      others  == Popped(b.orphans, OrphansOf(b, cause))
  IN [b EXCEPT !.orphans = Newest(Append(others, [cause |-> cause, replies |-> replies]),
                                  FeedLimit * RequesterFactor)]

ReplyEntry(b, reply, cause, at) == [at |-> at, id |-> reply, targeted |-> Requested(b, cause)]

\* _apply_reply
ApplyReply(b, reply, cause, at) ==
  LET posted == Posted(b, ReplyEntry(b, reply, cause, at))
  IN IF Requested(b, cause) THEN posted ELSE Orphaned(posted, reply, cause)

ReplyDeltas(b, reply, cause, at) ==
  <<[type |-> "message", entry |-> ReplyEntry(b, reply, cause, at)]>>

-----------------------------------------------------------------------------
(* Device rows and stale flags *)

\* apply_latency: a row of an older decision is a replay.
ApplyLatency(b, d, decided) ==
  IF decided < b.decided[d] THEN b
  ELSE [b EXCEPT !.decided[d] = decided,
                 !.rows[d] = IF @ = NotListed THEN @ ELSE [@ EXCEPT !.decided = decided]]

LatencyDeltas(b, d, decided) ==
  IF decided < b.decided[d] \/ b.rows[d] = NotListed THEN <<>>
  ELSE <<[type |-> "device", device |-> d, row |-> ApplyLatency(b, d, decided).rows[d]]>>

\* apply_devices: `listed` maps the devices of a poll to their sequences.
Changed(b, listed) ==
  {d \in DOMAIN listed : b.rows[d] = NotListed \/ b.rows[d].seq # listed[d]}

\* The row of a poll, with the decision that is known.
Listed(b, d, seq) == [seq |-> seq, decided |-> b.decided[d]]

ApplyDevices(b, listed) ==
  [b EXCEPT !.rows = [d \in Devices |-> IF d \in Changed(b, listed) THEN Listed(b, d, listed[d])
                                                                  ELSE b.rows[d]]]

DeviceDeltas(b, listed) ==
  LET after == ApplyDevices(b, listed)
  IN SetToSeq({[type |-> "device", device |-> d, row |-> after.rows[d]] : d \in Changed(b, listed)})

\* mark_stale, mark_fresh; a repeat is a no-op.
Marked(b, source, flag) == [b EXCEPT !.stale[source] = flag]
MarkDeltas(b, source, flag) ==
  IF b.stale[source] = flag THEN <<>> ELSE <<[type |-> "stale", source |-> source, flag |-> flag]>>
=============================================================================
