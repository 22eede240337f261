-------------------------------- MODULE UiHub --------------------------------
(***************************************************************************)
(* The UI service (device-trust-mesh/dtm/ui): two threads that change the  *)
(* board and publish what it returned (sources.py), the hub that fans the  *)
(* deltas out on the event loop (hub.py), and the pages that apply them    *)
(* (static/app.js).                                                        *)
(*                                                                         *)
(* A call of the board, a callback of the loop and a turn of a generator   *)
(* between two awaits are steps; anything may happen between two steps.    *)
(* The pauses of the code (batching, poll intervals) are the time until    *)
(* the next step.  A page gets its events in order, or leaves and comes    *)
(* back.                                                                   *)
(***************************************************************************)
EXTENDS UiBoard

CONSTANTS
  Pages,          \* subscribers
  QueueLimit,     \* queue_limit, and a limit on what one list of deltas may hold
  MaxRecords,     \* bound: records that reach the board
  MaxSeq,         \* bound: context sequences and decision times
  MaxVisits,      \* bound: subscriptions
  MaxPolls,       \* bound: polls that change a row
  MaxQueued,      \* bound: callbacks scheduled on the loop at a time
  MaxOutages,     \* bound: times a source becomes unreachable
  MaxFetched      \* bound: records the client holds when Kafka becomes unreachable

ASSUME HubAssumption ==
  /\ QueueLimit \in Nat /\ MaxRecords \in Nat /\ MaxSeq \in Nat
  /\ MaxVisits \in Nat /\ MaxPolls \in Nat /\ MaxQueued \in Nat /\ MaxOutages \in Nat
  /\ MaxFetched \in Nat

Delta ==
  [type : {"device"}, device : Devices, row : Row] \cup [type : {"message"}, entry : Entry]
  \cup [type : {"target"}, at : Nat] \cup [type : {"stale"}, source : Sources, flag : BOOLEAN]
View == [rows : [Devices -> Row \cup {NotListed}], feed : Seq(Entry), stale : [Sources -> BOOLEAN]]

VARIABLES
  board,      \* Board
  reader,     \* TopicReader: where its thread is
  readerOut,  \* deltas of the batch so far
  down,       \* _down
  probing,    \* _probe_at is set
  poller,     \* ContextPoller: where its thread is
  pollerOut,  \* deltas of the poll so far
  bound,      \* Hub._loop is set
  queue,      \* _dispatch calls scheduled on the loop
  page,       \* where a page's generator is: "gone", "waiting", "sending"
  pending, overflowed, wake, \* _Subscriber
  view,       \* what the page shows
  reachable,  \* sources that answer
  unreported, \* the client has yet to report the loss of every broker
  fetched,    \* records the client fetched before an outage and has yet to return
  records, visits, polls, outages   \* bounds: so far

readerVars == <<reader, readerOut, down, probing>>
pollerVars == <<poller, pollerOut>>
hubVars == <<page, pending, overflowed, wake, view>>
linkVars == <<reachable, unreported, fetched>>
boundVars == <<records, visits, polls, outages>>
vars == <<board, readerVars, pollerVars, bound, queue, hubVars, linkVars, boundVars>>

TypeOK ==
  /\ board \in Board
  /\ Len(board.feed) <= FeedLimit /\ Len(board.held) <= FeedLimit
  /\ Len(board.requesters) <= FeedLimit * RequesterFactor
  /\ Len(board.orphans) <= FeedLimit * RequesterFactor
  /\ reader \in {"idle", "batch", "publish"} /\ readerOut \in Seq(Delta)
  /\ down \in BOOLEAN /\ probing \in BOOLEAN
  /\ poller \in {"idle", "polled", "publish"} /\ pollerOut \in Seq(Delta)
  /\ bound \in BOOLEAN /\ queue \in Seq(Seq(Delta))
  /\ page \in [Pages -> {"gone", "waiting", "sending"}]
  /\ pending \in [Pages -> Seq(Delta)]
  /\ \A p \in Pages : Len(pending[p]) <= QueueLimit
  /\ overflowed \in [Pages -> BOOLEAN] /\ wake \in [Pages -> BOOLEAN]
  /\ view \in [Pages -> View]
  /\ reachable \subseteq Sources /\ unreported \in BOOLEAN /\ fetched \in 0 .. MaxFetched
  /\ records \in 0 .. MaxRecords /\ visits \in 0 .. MaxVisits /\ polls \in 0 .. MaxPolls
  /\ outages \in 0 .. MaxOutages

Snapshot == [rows |-> board.rows, feed |-> board.feed, stale |-> board.stale]
Blank == [rows |-> EmptyBoard.rows, feed |-> <<>>, stale |-> EmptyBoard.stale]

Init ==
  /\ board = EmptyBoard
  /\ reader = "idle" /\ readerOut = <<>> /\ down = FALSE /\ probing = FALSE
  /\ poller = "idle" /\ pollerOut = <<>>
  /\ bound = FALSE /\ queue = <<>>
  /\ page = [p \in Pages |-> "gone"]
  /\ pending = [p \in Pages |-> <<>>]
  /\ overflowed = [p \in Pages |-> FALSE] /\ wake = [p \in Pages |-> FALSE]
  /\ view = [p \in Pages |-> Blank]
  /\ reachable = Sources /\ unreported = FALSE /\ fetched = 0
  /\ records = 0 /\ visits = 0 /\ polls = 0 /\ outages = 0

\* publish_threadsafe; an empty list is not worth a step.
Publish(deltas) ==
  /\ Len(queue) < MaxQueued
  /\ queue' = IF bound THEN Append(queue, deltas) ELSE queue

-----------------------------------------------------------------------------
(* TopicReader *)

\* consume has one more record: from the brokers, or from what the client fetched
\* before it lost them.
Consumed ==
  /\ reader \in {"idle", "batch"} /\ ("kafka" \in reachable \/ fetched > 0)
  /\ fetched' = IF "kafka" \in reachable THEN fetched ELSE fetched - 1
  /\ UNCHANGED <<reachable, unreported>>

ReaderAdds(after, deltas) ==
  /\ Consumed
  /\ records < MaxRecords /\ records' = records + 1
  /\ reader' = "batch"
  /\ board' = after /\ readerOut' = readerOut \o deltas
  /\ UNCHANGED <<down, probing, pollerVars, bound, queue, hubVars, visits, polls, outages>>

\* _apply, for the next record of a batch.
ReadTask(task) ==
  ReaderAdds(ApplyTask(board, task, records + 1), TaskDeltas(board, task, records + 1))
ReadReply(reply, cause) ==
  ReaderAdds(ApplyReply(board, reply, cause, records + 1), ReplyDeltas(board, reply, cause, records + 1))
ReadLatency(d, decided) ==
  ReaderAdds(ApplyLatency(board, d, decided), LatencyDeltas(board, d, decided))
\* A record that is empty or cannot be read, or of another artifact.
SkipRecord ==
  /\ Consumed
  /\ reader' = "batch"
  /\ UNCHANGED <<board, readerOut, down, probing, pollerVars, bound, queue, hubVars, boundVars>>

\* Mutant: no probe is made.
BackWhenReceived(received, asked, due) == received

\* The proof that Kafka is back: records, or the answer to a probe that is due.
Back(received, asked, due) == received \/ (asked /\ due /\ "kafka" \in reachable)

\* Mutant: the error callback is not used.
LostInBatch(failed, alone) == down \/ failed

\* on_error and _mark_down: the loss of every broker, which the client reports
\* from inside consume, once, or an error in the batch.
Lost(failed, alone) == down \/ failed \/ alone

\* The end of run_once after consume returned, with _kafka_health: `failed` says
\* that the batch carried an error, `alone` that the client reported the loss of
\* every broker, `due` that the next probe is due.
ReadBatch(failed, alone, due) ==
  LET isDown == Lost(failed, alone)
      back == Back(reader = "batch" /\ ~failed, probing /\ ~failed, due)
  IN /\ reader \in {"idle", "batch"}
     /\ failed => "kafka" \notin reachable
     /\ alone => unreported
     /\ unreported' = (unreported /\ ~alone)
     /\ down' = (isDown /\ ~back)
     /\ probing' = (isDown /\ ~back)
     /\ board' = IF isDown THEN Marked(board, "kafka", ~back) ELSE board
     /\ readerOut' = IF isDown THEN readerOut \o MarkDeltas(board, "kafka", ~back) ELSE readerOut
     /\ reader' = IF readerOut' = <<>> THEN "idle" ELSE "publish"
     /\ UNCHANGED <<pollerVars, bound, queue, hubVars, reachable, fetched, boundVars>>

\* run_once when assign or consume raises.
ReadFails ==
  /\ reader = "idle" /\ "kafka" \notin reachable
  /\ down' = TRUE /\ probing' = FALSE
  /\ board' = Marked(board, "kafka", TRUE)
  /\ readerOut' = MarkDeltas(board, "kafka", TRUE)
  /\ reader' = IF readerOut' = <<>> THEN "idle" ELSE "publish"
  /\ UNCHANGED <<pollerVars, bound, queue, hubVars, linkVars, boundVars>>

\* _finish
ReaderPublishes ==
  /\ reader = "publish"
  /\ Publish(readerOut)
  /\ reader' = "idle" /\ readerOut' = <<>>
  /\ UNCHANGED <<board, down, probing, pollerVars, bound, hubVars, linkVars, boundVars>>

-----------------------------------------------------------------------------
(* ContextPoller *)

\* poll_once, up to apply_devices.
Poll(listed) ==
  /\ poller = "idle" /\ "context" \in reachable
  /\ board' = ApplyDevices(board, listed)
  /\ pollerOut' = DeviceDeltas(board, listed)
  /\ poller' = "polled"
  /\ polls' = IF Changed(board, listed) = {} THEN polls ELSE polls + 1
  /\ polls' <= MaxPolls
  /\ UNCHANGED <<readerVars, bound, queue, hubVars, linkVars, records, visits, outages>>

MarkFresh ==
  /\ poller = "polled"
  /\ board' = Marked(board, "context", FALSE)
  /\ pollerOut' = MarkDeltas(board, "context", FALSE) \o pollerOut
  /\ poller' = IF pollerOut' = <<>> THEN "idle" ELSE "publish"
  /\ UNCHANGED <<readerVars, bound, queue, hubVars, linkVars, boundVars>>

PollFails ==
  /\ poller = "idle" /\ "context" \notin reachable
  /\ board' = Marked(board, "context", TRUE)
  /\ pollerOut' = MarkDeltas(board, "context", TRUE)
  /\ poller' = IF pollerOut' = <<>> THEN "idle" ELSE "publish"
  /\ UNCHANGED <<readerVars, bound, queue, hubVars, linkVars, boundVars>>

PollerPublishes ==
  /\ poller = "publish"
  /\ Publish(pollerOut)
  /\ poller' = "idle" /\ pollerOut' = <<>>
  /\ UNCHANGED <<board, readerVars, bound, hubVars, linkVars, boundVars>>

-----------------------------------------------------------------------------
(* Hub *)

Bind ==
  /\ ~bound /\ bound' = TRUE
  /\ UNCHANGED <<board, readerVars, pollerVars, queue, hubVars, linkVars, boundVars>>

Subscribers == {p \in Pages : page[p] # "gone"}
TooMany(p, deltas) == Len(pending[p]) + Len(deltas) > QueueLimit

\* Mutant: deltas that do not fit are dropped.
QueuedOrDropped(p, deltas) ==
  [pending |-> IF TooMany(p, deltas) THEN pending[p] ELSE pending[p] \o deltas, overflowed |-> FALSE]

\* A subscriber's backlog after _dispatch.
Queued(p, deltas) ==
  IF overflowed[p] THEN [pending |-> pending[p], overflowed |-> TRUE]
  ELSE IF TooMany(p, deltas) THEN [pending |-> <<>>, overflowed |-> TRUE]
  ELSE [pending |-> pending[p] \o deltas, overflowed |-> FALSE]

Dispatch ==
  /\ queue # <<>> /\ queue' = Tail(queue)
  /\ LET after(p) == IF p \in Subscribers THEN Queued(p, Head(queue))
                     ELSE [pending |-> pending[p], overflowed |-> overflowed[p]]
     IN /\ pending' = [p \in Pages |-> after(p).pending]
        /\ overflowed' = [p \in Pages |-> after(p).overflowed]
  /\ wake' = [p \in Pages |-> wake[p] \/ (p \in Subscribers /\ ~overflowed[p])]
  /\ UNCHANGED <<board, readerVars, pollerVars, bound, page, view, linkVars, boundVars>>

\* subscribe: registered and the snapshot taken, before the loop does anything else.
Subscribe(p) ==
  /\ bound /\ page[p] = "gone"
  /\ visits < MaxVisits /\ visits' = visits + 1
  /\ page' = [page EXCEPT ![p] = "sending"]
  /\ pending' = [pending EXCEPT ![p] = <<>>]
  /\ overflowed' = [overflowed EXCEPT ![p] = FALSE] /\ wake' = [wake EXCEPT ![p] = FALSE]
  /\ view' = [view EXCEPT ![p] = Snapshot]
  /\ UNCHANGED <<board, readerVars, pollerVars, bound, queue, linkVars, records, polls, outages>>

\* Mutant: the wake-up is cleared after an event was sent.
SentThenCleared(p) == wake' = [wake EXCEPT ![p] = FALSE]

\* What becomes of the wake-up when an event was sent.
Sent(p) == UNCHANGED wake

\* The generator is resumed once an event was sent.
Resume(p) ==
  /\ page[p] = "sending"
  /\ page' = [page EXCEPT ![p] = "waiting"]
  /\ Sent(p)
  /\ UNCHANGED <<board, readerVars, pollerVars, bound, queue, pending, overflowed, view, linkVars, boundVars>>

\* Mutant: a message is put on top of the feed even when it is there.
AppliedTwice(v, delta) ==
  CASE delta.type = "device" -> [v EXCEPT !.rows[delta.device] = delta.row]
    [] delta.type = "message" -> [v EXCEPT !.feed = Newest(Append(@, delta.entry), FeedLimit)]
    [] delta.type = "target" -> [v EXCEPT !.feed = Targeted(@, {delta.at})]
    [] delta.type = "stale" -> [v EXCEPT !.stale[delta.source] = delta.flag]

\* onBatch of the page, for one delta; addMessage drops what the feed holds.
Applied(v, delta) ==
  CASE delta.type = "device" -> [v EXCEPT !.rows[delta.device] = delta.row]
    [] delta.type = "message" ->
         [v EXCEPT !.feed = IF \E e \in Range(@) : e.at = delta.entry.at THEN @
                            ELSE Newest(Append(@, delta.entry), FeedLimit)]
    [] delta.type = "target" -> [v EXCEPT !.feed = Targeted(@, {delta.at})]
    [] delta.type = "stale" -> [v EXCEPT !.stale[delta.source] = delta.flag]

AppliedAll(v, deltas) ==
  LET after[n \in 0 .. Len(deltas)] == IF n = 0 THEN v ELSE Applied(after[n - 1], deltas[n])
  IN after[Len(deltas)]

\* A turn of the generator after a wake-up and the pause.
Take(p) ==
  /\ page[p] = "waiting" /\ wake[p]
  /\ wake' = [wake EXCEPT ![p] = FALSE]
  /\ pending' = [pending EXCEPT ![p] = <<>>]
  /\ overflowed' = [overflowed EXCEPT ![p] = FALSE]
  /\ view' = [view EXCEPT ![p] = IF overflowed[p] THEN Snapshot ELSE AppliedAll(@, pending[p])]
  /\ page' = [page EXCEPT ![p] = IF overflowed[p] \/ pending[p] # <<>> THEN "sending" ELSE @]
  /\ UNCHANGED <<board, readerVars, pollerVars, bound, queue, linkVars, boundVars>>

\* The page goes away, with a batch or a snapshot on its way or not.
Leave(p) ==
  /\ page[p] # "gone"
  /\ page' = [page EXCEPT ![p] = "gone"]
  /\ pending' = [pending EXCEPT ![p] = <<>>]
  /\ overflowed' = [overflowed EXCEPT ![p] = FALSE] /\ wake' = [wake EXCEPT ![p] = FALSE]
  /\ view' = [view EXCEPT ![p] = Blank]
  /\ UNCHANGED <<board, readerVars, pollerVars, bound, queue, linkVars, boundVars>>

-----------------------------------------------------------------------------

\* The client reports an outage of Kafka once, and keeps what it has fetched.
Outage(source) ==
  /\ source \in reachable /\ outages < MaxOutages /\ outages' = outages + 1
  /\ reachable' = reachable \ {source}
  /\ IF source = "kafka" THEN unreported' = TRUE /\ fetched' \in 0 .. MaxFetched
                         ELSE UNCHANGED <<unreported, fetched>>
  /\ UNCHANGED <<board, readerVars, pollerVars, bound, queue, hubVars, records, visits, polls>>

\* A short outage may go unreported, or be reported when it is over.
Repaired(source) ==
  /\ source \notin reachable
  /\ reachable' = reachable \cup {source}
  /\ IF source = "kafka" THEN unreported' \in {FALSE, unreported} /\ fetched' = 0
                         ELSE UNCHANGED <<unreported, fetched>>
  /\ UNCHANGED <<board, readerVars, pollerVars, bound, queue, hubVars, boundVars>>

Reader ==
  \/ \E task \in Tasks : ReadTask(task)
  \/ \E reply \in Replies, cause \in Tasks : ReadReply(reply, cause)
  \/ \E d \in Devices, decided \in 1 .. MaxSeq : ReadLatency(d, decided)
  \/ SkipRecord
  \/ \E failed, alone, due \in BOOLEAN : ReadBatch(failed, alone, due)
  \/ ReadFails
  \/ ReaderPublishes

Listings == UNION {[S -> 1 .. MaxSeq] : S \in SUBSET Devices}

Poller ==
  \/ \E listed \in Listings : Poll(listed)
  \/ MarkFresh
  \/ PollFails
  \/ PollerPublishes

Loop ==
  \/ Bind
  \/ Dispatch
  \/ \E p \in Pages : Subscribe(p) \/ Resume(p) \/ Take(p) \/ Leave(p)

Next == Reader \/ Poller \/ Loop \/ \E source \in Sources : Outage(source) \/ Repaired(source)

Spec == Init /\ [][Next]_vars

PollUnchanged ==
  Poll([d \in {e \in Devices : board.rows[e] # NotListed} |-> board.rows[d].seq])

\* Each thread and each generator that can go on does; the client makes a report
\* that it still has to make, a probe falls due (on_error, _PROBE_INTERVAL_S), and
\* a poll that finds nothing new can always follow.
Fairness ==
  /\ WF_vars(ReadBatch(FALSE, unreported, TRUE) \/ ReaderPublishes)
  /\ WF_vars(PollUnchanged \/ MarkFresh \/ PollFails \/ PollerPublishes)
  /\ WF_vars(Dispatch)
  /\ \A p \in Pages : WF_vars(Resume(p) \/ Take(p))

FairSpec == Spec /\ Fairness

-----------------------------------------------------------------------------
(* Properties *)

\* What page p will show once everything under way from one thread, whose
\* deltas are `out`, has reached it.
Final(p, out) == AppliedAll(view[p], pending[p] \o FlattenSeq(queue) \o out)

\* A page that applies what it gets ends with the board's feed and flags: no
\* message is missing, twice, or at the wrong place, no target is lost, though
\* the snapshot holds messages whose deltas are still to come (hub.py subscribe).
FeedFollowsBoard ==
  \A p \in Subscribers : ~overflowed[p] =>
    /\ LET final == Final(p, readerOut)
       IN final.feed = board.feed /\ final.stale["kafka"] = board.stale["kafka"]
    /\ Final(p, pollerOut).stale["context"] = board.stale["context"]

\* A subscriber with a backlog or an overflow is not left asleep (hub.py
\* subscribe: the wake-up is cleared before the event is sent).
BacklogWakes == \A p \in Subscribers : pending[p] # <<>> \/ overflowed[p] => wake[p]

AtRest(p) ==
  /\ p \in Subscribers /\ pending[p] = <<>> /\ ~overflowed[p]
  /\ queue = <<>> /\ readerOut = <<>> /\ pollerOut = <<>>

\* With nothing under way, a row shows the newest of at least one of its two
\* writers, and a listed device is never missing (model.py apply_devices,
\* apply_latency).
RowsLagOneWriter ==
  \A p \in Pages, d \in Devices : AtRest(p) =>
    \/ view[p].rows[d] = board.rows[d]
    \/ /\ view[p].rows[d] # NotListed
       /\ \/ view[p].rows[d].seq = board.rows[d].seq
          \/ view[p].rows[d].decided = board.rows[d].decided

\* With nothing under way, a page shows the rows of the board (model.py: the
\* deltas a call returns are what a browser needs to stay current).
BrowserEndsWithBoard == \A p \in Pages : AtRest(p) => view[p].rows = board.rows

\* Whatever the order in which a task and its replies arrive, how often, and what
\* the board forgets meanwhile, a held reply is targeted once its task arrived
\* after it (model.py _remember_orphan, _fill_targets).
RepliesFindTheirTask ==
  \A e \in Range(board.feed) :
    ~e.targeted /\ [id |-> e.id, at |-> e.at] \in Range(board.held) =>
      \E o \in Range(board.orphans) : e.id \in Range(o.replies) /\ ~Requested(board, o.cause)

Stays(p) == <>[](page[p] # "gone")

\* A page that stays shows in the end whether the context server answers, and of
\* Kafka what the reader believes, which is never that a reachable Kafka is lost
\* (sources.py _kafka_health, poll_once).
PagesShowHealth ==
  \A p \in Pages : Stays(p) =>
    <>[](/\ view[p].stale["context"] <=> "context" \notin reachable
         /\ view[p].stale["kafka"] <=> down
         /\ down => "kafka" \notin reachable)

\* The loss of every broker reaches a page, unless the client still held records
\* when it lost them (sources.py on_error: it otherwise looks like an idle topic).
LossIsShown ==
  \A p \in Pages :
    "kafka" \notin reachable /\ unreported /\ fetched = 0 /\ reader # "batch"
      ~> view[p].stale["kafka"] \/ "kafka" \in reachable \/ page[p] = "gone"
=============================================================================
