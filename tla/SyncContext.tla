---------------------------- MODULE SyncContext ----------------------------
(***************************************************************************)
(* The synchronous face of context-mcp (mesh/agents/context.py): calls of  *)
(* agent threads that run as tasks on one asyncio loop and share one       *)
(* session, the task that owns the session, and close.                     *)
(*                                                                         *)
(* A step of the loop is what a task does between two awaits.  Time passes *)
(* at any pace, so a timeout may fire whenever its wait is not over; the   *)
(* client may answer, fail or hang in any call, open or close (external).  *)
(***************************************************************************)
EXTENDS Integers, SequencesExt

CONSTANTS
  MaxCalls,     \* bound: calls of SyncContext
  MaxSessions,  \* bound: sessions opened
  Shutdown,     \* the task of close
  None

ASSUME SyncContextAssumption == MaxCalls \in Nat /\ MaxSessions \in Nat /\ Shutdown \notin Nat /\ None \notin Nat

Calls == 1 .. MaxCalls
Sessions == 1 .. MaxSessions
Tasks == Calls \cup {Shutdown}
Step == {"new", "queued", "opening", "aborting", "using", "redropping", "dropping", "ended"}
Outcome == {None, "ok", "failed"}

VARIABLES
  closed,    \* _closed
  closer,    \* close: "none", "submitting", "waiting", "left"
  running,   \* the loop runs
  waiting,   \* calls whose caller waits for the future
  cancelled, \* calls cancelled by their caller, whose task does not know yet
  lock,      \* _session_lock: its holder, then those that wait for it
  step,      \* where a task is
  of,        \* the session that a task opens, uses or waits for
  kept,      \* calls on a session kept from an earlier call
  outcome,   \* what a call returned to its caller
  session,   \* _session
  owner,     \* own() of a session: "none", "entering", "open", "ended"
  stop,      \* sessions told to stop
  killed     \* sessions whose owner is cancelled

closeVars == <<closed, closer, running>>
taskVars == <<lock, step, of, kept, outcome>>
sessionVars == <<session, owner, stop, killed>>
syncVars == <<closeVars, waiting, cancelled, taskVars, sessionVars>>

SyncTypeOK ==
  /\ closed \in BOOLEAN /\ closer \in {"none", "submitting", "waiting", "left"} /\ running \in BOOLEAN
  /\ waiting \subseteq Calls /\ cancelled \subseteq Calls /\ kept \subseteq Calls
  /\ lock \in Seq(Tasks) /\ step \in [Tasks -> Step]
  /\ of \in [Tasks -> Sessions \cup {None}] /\ outcome \in [Calls -> Outcome]
  /\ session \in Sessions \cup {None} /\ owner \in [Sessions -> {"none", "entering", "open", "ended"}]
  /\ stop \subseteq Sessions /\ killed \subseteq Sessions

SyncInit ==
  /\ closed = FALSE /\ closer = "none" /\ running = TRUE
  /\ waiting = {} /\ cancelled = {} /\ lock = <<>> /\ kept = {}
  /\ step = [t \in Tasks |-> "new"] /\ of = [t \in Tasks |-> None] /\ outcome = [c \in Calls |-> None]
  /\ session = None /\ owner = [s \in Sessions |-> "none"] /\ stop = {} /\ killed = {}

-----------------------------------------------------------------------------
(* The calling threads *)

\* Mutant: the call is submitted after the check of _closed, outside of its lock.
SubmitAnyway(c) ==
  /\ running /\ step[c] = "new"
  /\ lock' = Append(lock, c) /\ step' = [step EXCEPT ![c] = "queued"] /\ waiting' = waiting \cup {c}
  /\ UNCHANGED <<closeVars, cancelled, of, kept, outcome, sessionVars>>

\* _call, under the lock that close takes to set _closed.
Submit(c) ==
  /\ ~closed /\ step[c] = "new"
  /\ lock' = Append(lock, c) /\ step' = [step EXCEPT ![c] = "queued"] /\ waiting' = waiting \cup {c}
  /\ UNCHANGED <<closeVars, cancelled, of, kept, outcome, sessionVars>>

\* Mutant: the caller waits for its future for ever.
GiveUpNever(c) == c \in waiting /\ FALSE /\ UNCHANGED syncVars

\* The caller's own timeout: it cancels the future and leaves.
GiveUp(c) ==
  /\ c \in waiting /\ waiting' = waiting \ {c}
  /\ cancelled' = cancelled \cup {c} /\ outcome' = [outcome EXCEPT ![c] = "failed"]
  /\ UNCHANGED <<closeVars, lock, step, of, kept, sessionVars>>

-----------------------------------------------------------------------------
(* _with_session, in the order of its steps *)

Holds(t, s) == running /\ lock # <<>> /\ Head(lock) = t /\ step[t] = s
Goes(t, s) == step' = [step EXCEPT ![t] = s]

\* _open: a task that owns a new session.
Opens(t) ==
  \E s \in Sessions :
    /\ owner[s] = "none" /\ \A r \in 1 .. s - 1 : owner[r] # "none"
    /\ owner' = [owner EXCEPT ![s] = "entering"] /\ of' = [of EXCEPT ![t] = s]
    /\ Goes(t, "opening")

\* _drop up to its wait, which the task does in step s.
Drops(t, s) ==
  /\ session' = None /\ stop' = stop \cup {session}
  /\ of' = [of EXCEPT ![t] = session] /\ Goes(t, s)

\* The lock is released; a call's future is done, which ends its caller's wait.
Ends(t, how) ==
  /\ lock' = Tail(lock) /\ Goes(t, "ended") /\ of' = [of EXCEPT ![t] = None]
  /\ waiting' = waiting \ {t}
  /\ outcome' = IF t \in waiting THEN [outcome EXCEPT ![t] = how] ELSE outcome

\* The task gets the lock.
Acquire(c) ==
  /\ Holds(c, "queued") /\ c # Shutdown
  /\ IF session = None
     THEN Opens(c) /\ UNCHANGED kept
     ELSE /\ of' = [of EXCEPT ![c] = session] /\ kept' = kept \cup {c}
          /\ Goes(c, "using") /\ UNCHANGED owner
  /\ UNCHANGED <<closeVars, waiting, cancelled, lock, outcome, session, stop, killed>>

\* _open returns, or raises because the owner could not enter.
Opened(c) ==
  /\ Holds(c, "opening") /\ owner[of[c]] = "open"
  /\ session' = of[c] /\ Goes(c, "using")
  /\ UNCHANGED <<closeVars, waiting, cancelled, lock, of, kept, outcome, owner, stop, killed>>
OpenFails(c) ==
  /\ Holds(c, "opening") /\ owner[of[c]] = "ended"
  /\ Ends(c, "failed")
  /\ UNCHANGED <<closeVars, cancelled, kept, sessionVars>>

\* The client answers.
Answers(c) ==
  /\ Holds(c, "using") /\ owner[of[c]] = "open"
  /\ Ends(c, "ok")
  /\ UNCHANGED <<closeVars, cancelled, kept, sessionVars>>

\* The client raises: a failure on a kept session is retried.
Fails(c) ==
  /\ Holds(c, "using")
  /\ Drops(c, IF c \in kept THEN "redropping" ELSE "dropping")
  /\ kept' = kept \ {c}
  /\ UNCHANGED <<closeVars, waiting, cancelled, lock, outcome, owner, killed>>

\* _drop ends: the owner did, or it is cancelled after _DROP_TIMEOUT_S.
Dropped(t) == killed' = IF owner[of[t]] = "ended" THEN killed ELSE killed \cup {of[t]}

Redropped(c) ==
  /\ Holds(c, "redropping") /\ Dropped(c) /\ Opens(c)
  /\ UNCHANGED <<closeVars, waiting, cancelled, lock, kept, outcome, session, stop>>
DropEnds(c) ==
  /\ Holds(c, "dropping") /\ Dropped(c) /\ Ends(c, "failed")
  /\ UNCHANGED <<closeVars, cancelled, kept, session, owner, stop>>

\* _open's wait for an owner it told to stop.
Aborted(c) ==
  /\ Holds(c, "aborting") /\ owner[of[c]] = "ended"
  /\ Ends(c, "failed")
  /\ UNCHANGED <<closeVars, cancelled, kept, sessionVars>>

\* Mutant: an open that is interrupted does not tell its session to stop.
InterruptedUntold(c) ==
  \/ /\ step[c] = "opening" /\ Ends(c, "failed") /\ UNCHANGED <<sessionVars, kept>>
  \/ /\ step[c] = "using" /\ Drops(c, "dropping") /\ UNCHANGED <<lock, waiting, kept, outcome, owner, killed>>

\* CancelledError is raised where the task awaits, by its timeout or by its caller.
Interrupted(c) ==
  \/ /\ step[c] = "opening" /\ stop' = stop \cup {of[c]} /\ Goes(c, "aborting")
     /\ UNCHANGED <<lock, waiting, of, kept, outcome, session, owner, killed>>
  \/ /\ step[c] = "using" /\ Drops(c, "dropping")
     /\ UNCHANGED <<lock, waiting, kept, outcome, owner, killed>>
  \/ /\ step[c] = "redropping" /\ Ends(c, "failed")
     /\ UNCHANGED <<kept, sessionVars>>

\* Mutant: an owner that hangs while it opens is not cancelled with the wait for it.
AbandonedInAbort(c) == UNCHANGED killed

\* gather cancels the owner it waits for.
CancelsOwner(c) == killed' = killed \cup {of[c]}

\* asyncio.timeout of a call, which may fire after its caller's cancellation.
TimesOut(c) ==
  /\ running
  /\ \/ Interrupted(c)
     \/ /\ step[c] = "aborting" /\ c \notin waiting \cup cancelled /\ CancelsOwner(c)
        /\ UNCHANGED <<taskVars, waiting, session, owner, stop>>
  /\ UNCHANGED <<closeVars, cancelled>>

\* The cancellation by a caller that gave up reaches the task.
Cancelled(c) ==
  /\ running /\ c \in cancelled /\ cancelled' = cancelled \ {c}
  /\ \/ Interrupted(c)
     \/ /\ step[c] = "aborting" /\ CancelsOwner(c)
        /\ UNCHANGED <<taskVars, waiting, session, owner, stop>>
     \/ /\ step[c] = "dropping" /\ Ends(c, "failed")
        /\ UNCHANGED <<kept, sessionVars>>
     \/ /\ step[c] = "queued"
        /\ \E i \in DOMAIN lock : lock[i] = c /\ lock' = RemoveAt(lock, i)
        /\ Goes(c, "ended")
        /\ UNCHANGED <<waiting, of, kept, outcome, sessionVars>>
     \/ /\ step[c] = "ended" /\ UNCHANGED <<taskVars, waiting, sessionVars>>
  /\ UNCHANGED closeVars

-----------------------------------------------------------------------------
(* The task that owns a session *)

OwnerGoes(s, from, to) ==
  /\ running /\ owner[s] = from /\ owner' = [owner EXCEPT ![s] = to]
  /\ UNCHANGED <<closeVars, waiting, cancelled, taskVars, session, stop, killed>>

Enters(s) == s \notin killed /\ OwnerGoes(s, "entering", "open")
CannotEnter(s) == OwnerGoes(s, "entering", "ended")
\* It was told to stop, or its connection is lost; the task that waits to open it goes on first.
Closes(s) ==
  /\ ~\E c \in Calls : step[c] = "opening" /\ of[c] = s
  /\ OwnerGoes(s, "open", "ended")
OwnerCancelled(s) == s \in killed /\ \E from \in {"entering", "open"} : OwnerGoes(s, from, "ended")

-----------------------------------------------------------------------------
(* close *)

Close ==
  /\ ~closed /\ closed' = TRUE /\ closer' = "submitting"
  /\ UNCHANGED <<running, waiting, cancelled, taskVars, sessionVars>>

SubmitShutdown ==
  /\ closer = "submitting" /\ closer' = "waiting"
  /\ lock' = Append(lock, Shutdown) /\ Goes(Shutdown, "queued")
  /\ UNCHANGED <<closed, running, waiting, cancelled, of, kept, outcome, sessionVars>>

\* _shutdown, up to and after _drop's wait.
ShutdownDrops ==
  /\ Holds(Shutdown, "queued")
  /\ IF session = None THEN Ends(Shutdown, "ok") /\ UNCHANGED <<session, stop>>
                       ELSE Drops(Shutdown, "dropping") /\ UNCHANGED <<lock, waiting, outcome>>
  /\ UNCHANGED <<closeVars, cancelled, kept, owner, killed>>
ShutdownEnds ==
  /\ Holds(Shutdown, "dropping") /\ Dropped(Shutdown) /\ Ends(Shutdown, "ok")
  /\ UNCHANGED <<closeVars, cancelled, kept, session, owner, stop>>

\* The shutdown is done, or close no longer waits for it.
StopLoop ==
  /\ closer = "waiting" /\ closer' = "left" /\ running' = FALSE
  /\ UNCHANGED <<closed, waiting, cancelled, taskVars, sessionVars>>

LoopStep ==
  \/ \E c \in Calls : \/ Acquire(c) \/ Opened(c) \/ OpenFails(c) \/ Answers(c) \/ Fails(c)
                      \/ Redropped(c) \/ DropEnds(c) \/ Aborted(c) \/ TimesOut(c) \/ Cancelled(c)
  \/ \E s \in Sessions : Enters(s) \/ CannotEnter(s) \/ Closes(s) \/ OwnerCancelled(s)
  \/ ShutdownDrops \/ ShutdownEnds
=============================================================================
