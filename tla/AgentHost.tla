------------------------------ MODULE AgentHost ------------------------------
(***************************************************************************)
(* An agent's process (mesh/agents/host.py): the poll thread, which probes *)
(* context-mcp before it consumes and calls it from its handler, and the   *)
(* thread that stops the host.  Other threads may call the same context.   *)
(***************************************************************************)
EXTENDS SyncContext

CONSTANT Others   \* calls made by other threads; the rest are the poll thread's, in this order

ASSUME HostAssumption == Others \subseteq Calls

VARIABLES
  poll,      \* the poll thread: "probing", "consuming", "ended"
  stopping,  \* _stop is set
  stopper,   \* stop: "none", "joining", "closing", "left"
  busOpen

hostVars == <<poll, stopping, stopper, busOpen>>
vars == <<syncVars, hostVars>>

TypeOK ==
  /\ SyncTypeOK
  /\ poll \in {"probing", "consuming", "ended"} /\ stopping \in BOOLEAN
  /\ stopper \in {"none", "joining", "closing", "left"} /\ busOpen \in BOOLEAN

Init ==
  /\ SyncInit
  /\ poll = "probing" /\ stopping = FALSE /\ stopper = "none" /\ busOpen = TRUE

Own == Calls \ Others
Between == Own \cap waiting = {}    \* the poll thread is in no call
Made == {c \in Own : step[c] # "new"}
NextCall(c) == c \in Own /\ \A b \in Own : b < c => b \in Made

\* _await_context: a probe, and what follows it.
Probes ==
  /\ poll = "probing" /\ Between /\ ~stopping
  /\ \A c \in Made : outcome[c] # "ok"
  /\ \E c \in Own : NextCall(c) /\ Submit(c)
  /\ UNCHANGED hostVars
Consumes ==
  /\ poll = "probing" /\ Between
  /\ \E c \in Made : outcome[c] = "ok"
  /\ poll' = "consuming"
  /\ UNCHANGED <<syncVars, stopping, stopper, busOpen>>

\* A handler's call, within AgentRuntime.run; the record it handles may call after the stop flag is set.
Handles ==
  /\ poll = "consuming" /\ Between
  /\ \E c \in Own : NextCall(c) /\ Submit(c)
  /\ UNCHANGED hostVars

\* The thread sees the stop flag between two probes or records.
PollEnds ==
  /\ poll # "ended" /\ Between /\ stopping
  /\ poll' = "ended"
  /\ UNCHANGED <<syncVars, stopping, stopper, busOpen>>

Stop ==
  /\ ~stopping /\ stopping' = TRUE /\ stopper' = "joining"
  /\ UNCHANGED <<syncVars, poll, busOpen>>

\* stop gives up on the thread, and leaves the bus open.
JoinTimesOut ==
  /\ stopper = "joining" /\ poll # "ended" /\ stopper' = "left"
  /\ UNCHANGED <<syncVars, poll, stopping, busOpen>>

\* The bus is closed first.
CloseBus ==
  /\ stopper = "joining" /\ poll = "ended" /\ stopper' = "closing" /\ busOpen' = FALSE
  /\ UNCHANGED <<syncVars, poll, stopping>>
CloseContext ==
  /\ stopper = "closing" /\ stopper' = "left" /\ Close
  /\ UNCHANGED <<poll, stopping, busOpen>>

\* Another thread's call.
OtherCall == \E c \in Others : Submit(c) /\ UNCHANGED hostVars

PollThread == Probes \/ Consumes \/ Handles \/ PollEnds
Closing == CloseBus \/ CloseContext
Context ==
  /\ LoopStep \/ SubmitShutdown \/ StopLoop \/ \E c \in Calls : GiveUp(c)
  /\ UNCHANGED hostVars

Next == PollThread \/ Stop \/ JoinTimesOut \/ Closing \/ OtherCall \/ Context
Spec == Init /\ [][Next]_vars

Enforced ==
  /\ \A c \in Calls : WF_vars(GiveUp(c) /\ UNCHANGED hostVars) /\ WF_vars(Cancelled(c) /\ UNCHANGED hostVars)
                      /\ WF_vars((Aborted(c) \/ DropEnds(c)) /\ UNCHANGED hostVars)
                      /\ WF_vars((Acquire(c) \/ Redropped(c)) /\ UNCHANGED hostVars)
                      /\ WF_vars((TimesOut(c) \/ Opened(c) \/ OpenFails(c)) /\ UNCHANGED hostVars)
  /\ \A s \in Sessions : WF_vars(OwnerCancelled(s) /\ UNCHANGED hostVars)
  /\ WF_vars((ShutdownDrops \/ ShutdownEnds) /\ UNCHANGED hostVars)

\* The threads and the loop are scheduled, timeouts fire and cancelled tasks end;
\* nothing is assumed of the client.
FairSpec == Spec /\ WF_vars(PollThread) /\ WF_vars(Closing) /\ Enforced

-----------------------------------------------------------------------------
(* Properties *)

\* A session that runs and was not told to stop is the kept one, or is being opened by
\* a task that will keep it or stop it: none is lost, whatever interrupts a call.
NoLostSession ==
  running => \A s \in Sessions : owner[s] \in {"entering", "open"} /\ s \notin stop =>
    s = session \/ \E c \in Calls : step[c] = "opening" /\ of[c] = s

\* Every accepted call is on the loop ahead of the shutdown, so nothing opens a session
\* after it (the comment in _call).
ShutdownIsLast ==
  /\ \A i \in DOMAIN lock : lock[i] = Shutdown => i = Len(lock)
  /\ step[Shutdown] = "ended" => session = None /\ lock = <<>>

\* The lock is not held forever, whatever hangs: every call's task ends while the loop runs.
CallsEnd == \A c \in Calls : c \in waiting ~> step[c] = "ended" \/ ~running

\* A host told to stop stops consuming.
StopEndsPolling == stopping ~> poll = "ended"
=============================================================================
