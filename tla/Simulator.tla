------------------------------ MODULE Simulator ------------------------------
(***************************************************************************)
(* The device simulator (device-trust-mesh/dtm/simulator): a pool of       *)
(* devices that ask for enrolment at a paced rate and answer challenges,   *)
(* and the policy commands that close the loop.  The operators are the     *)
(* calls of one process; EnrolmentFlow composes them with the mesh.        *)
(*                                                                         *)
(* Time is what elapses between two ticks, in units: `waited` is how long  *)
(* a device has been awaiting a resolution, up to PendingTimeout, `left`   *)
(* what remains of an answer's delay.  Tokens are counted in parts, a rate *)
(* in parts per unit.  Of a fingerprint, it is kept whether it is rooted.  *)
(* The scenarios that are not here ask for enrolment as CLEAN does, with   *)
(* other facts for the models or for some devices only.                    *)
(***************************************************************************)
EXTENDS Integers, FiniteSets, SequencesExt

CONSTANTS
  Devices,         \* the pool
  Rates,           \* rates a presenter may set
  StartRate,       \* SIM_RATE_PER_SEC
  Token,           \* parts of a token
  MinBucket,       \* _MIN_BUCKET, in parts
  ChallengeDelay,  \* challenge_delay_ms
  PendingTimeout,  \* pending_timeout_ms
  DedupeCapacity,  \* _DEDUPE_CAPACITY
  MaxEvents,       \* bound: the device_seq at which a device stops asking
  MaxInjected      \* bound: injected scenarios in the queue

ASSUME SimulatorAssumption ==
  /\ Rates \subseteq Nat /\ StartRate \in Rates
  /\ Token \in Nat \ {0} /\ MinBucket \in Nat
  /\ ChallengeDelay \in Nat \ {0}
  /\ PendingTimeout \in Nat /\ ChallengeDelay < PendingTimeout
  /\ DedupeCapacity \in Nat
  /\ MaxEvents \in Nat
  /\ MaxInjected \in Nat

Status == {"NEW", "PENDING", "TRUSTED", "READ_ONLY", "CHALLENGED", "BLOCKED", "UNENROLLED"}
Settled == {"TRUSTED", "READ_ONLY"}
Awaiting == {"PENDING", "CHALLENGED"}

Fingerprints == {"CLEAN", "ROOTED"}
Kind == [CLEAN |-> "CLEAN", COMPROMISED_OS |-> "ROOTED"]
Mix == DOMAIN Kind
Scenarios == Mix \cup {"UNENROL"}

\* Numbers that next_seq hands out; a task is named by the event it starts from.
Numbers == Nat \ {0}

\* A command is named by what its message id is derived from: who emits it, and
\* the event of which device is at the start of the request it answers.
CommandId == [by : {"guardrail", "model", "step-up", "remove", "resolve"}, device : Devices,
              of : Numbers]
Actions == {"ALLOW", "READ_ONLY", "CHALLENGE", "BLOCK", "UNENROLLED"}
Command == [id : CommandId, action : Actions, task : Numbers]
Answer == [left : Nat, passed : BOOLEAN, task : Numbers, cause : CommandId]

VARIABLES
  running,   \* running
  rate,      \* _rate
  tokens,    \* _tokens
  injected,  \* _injected
  status,    \* _state[d].status
  waited,    \* now - _state[d].awaiting_since_ms, while d awaits a resolution
  fp,        \* _state[d].fp: kind of the last requested fingerprint
  answers,   \* _answers, per device
  seen,      \* _seen in _seen_order
  seq,       \* DevicePool: last number handed out
  ticking    \* inside tick, past the answers that were due

engineVars == <<running, rate, tokens, injected, status, waited, fp, answers, seen, seq, ticking>>

SimulatorTypeOK ==
  /\ running \in BOOLEAN /\ ticking \in BOOLEAN
  /\ rate \in Rates
  /\ tokens \in Nat
  /\ injected \in Seq(Scenarios) /\ Len(injected) <= MaxInjected
  /\ status \in [Devices -> Status]
  /\ waited \in [Devices -> 0 .. PendingTimeout]
  /\ fp \in [Devices -> Fingerprints]
  /\ answers \in [Devices -> Seq(Answer)]
  /\ seen \in Seq(CommandId) /\ Len(seen) <= DedupeCapacity
  /\ seq \in [Devices -> Nat]

\* A new process; the pool's numbers go on from the clock, above every earlier one.
Fresh ==
  /\ running' = TRUE /\ ticking' = FALSE
  /\ rate' = StartRate
  /\ tokens' = 0 /\ injected' = <<>>
  /\ status' = [d \in Devices |-> "NEW"]
  /\ waited' = [d \in Devices |-> 0]
  /\ fp' = [d \in Devices |-> "CLEAN"]
  /\ answers' = [d \in Devices |-> <<>>]
  /\ seen' = <<>>
  /\ UNCHANGED seq

SimulatorInit ==
  /\ running = TRUE /\ ticking = FALSE
  /\ rate = StartRate
  /\ tokens = 0 /\ injected = <<>>
  /\ status = [d \in Devices |-> "NEW"]
  /\ waited = [d \in Devices |-> 0]
  /\ fp = [d \in Devices |-> "CLEAN"]
  /\ answers = [d \in Devices |-> <<>>]
  /\ seen = <<>>
  /\ seq = [d \in Devices |-> 0]

Least(a, b) == IF a < b THEN a ELSE b
Most(a, b) == IF a < b THEN b ELSE a

-----------------------------------------------------------------------------
(* Policy commands *)

\* Mutant: one command more than the capacity pushes two ids out.
RememberShort(id) ==
  seen' = IF Len(seen) < DedupeCapacity THEN Append(seen, id) ELSE Append(Tail(Tail(seen)), id)

\* Mutant: ids are never pushed out.
RememberAll(id) == seen' = Append(seen, id)

\* _remember
Remember(id) ==
  LET all == Append(seen, id)
  IN seen' = IF Len(all) > DedupeCapacity THEN Tail(all) ELSE all

\* _schedule_answer draws the outcome when the challenge arrives.
Scheduled(c, passed) ==
  [left |-> ChallengeDelay, passed |-> passed, task |-> c.task, cause |-> c.id]

StatusOf(action) ==
  CASE action = "ALLOW" -> "TRUSTED"
    [] action = "READ_ONLY" -> "READ_ONLY"
    [] action = "CHALLENGE" -> "CHALLENGED"
    [] action = "BLOCK" -> "BLOCKED"
    [] action = "UNENROLLED" -> "UNENROLLED"

Ignored(c) == c.id \in Range(seen)

\* on_policy_command, for a command that is not ignored.
OnPolicyCommand(d, c) ==
  /\ Remember(c.id)
  /\ status' = [status EXCEPT ![d] = StatusOf(c.action)]
  /\ waited' = [waited EXCEPT ![d] = 0]
  /\ IF c.action = "CHALLENGE"
       THEN \E passed \in BOOLEAN :
              answers' = [answers EXCEPT ![d] = Append(@, Scheduled(c, passed))]
       ELSE UNCHANGED answers
  /\ UNCHANGED <<running, rate, tokens, injected, fp, seq, ticking>>

-----------------------------------------------------------------------------
(* Presenter *)

\* on_control: a record may carry a rate, a command, or both.
OnControl(newRate, command, scenario, count) ==
  /\ rate' = newRate
  /\ running' = CASE command = "START" -> TRUE [] command = "STOP" -> FALSE [] OTHER -> running
  /\ injected' = IF command = "INJECT" THEN injected \o [i \in 1 .. count |-> scenario]
                 ELSE injected
  /\ UNCHANGED <<tokens, status, waited, fp, answers, seen, seq, ticking>>

-----------------------------------------------------------------------------
(* Ticks *)

\* _refill
Refill(elapsed) ==
  tokens' = IF running THEN Least(tokens + rate * elapsed, Most(MinBucket, rate)) ELSE tokens

\* Answers are listed as they were scheduled, with one delay for all: those that
\* are due come first.
DueCount(d, elapsed) == Cardinality({i \in DOMAIN answers[d] : answers[d][i].left <= elapsed})
Due(d, elapsed) == SubSeq(answers[d], 1, DueCount(d, elapsed))

\* Mutant: answers that are due are not taken off the list.
LaterAll(d, elapsed) == [i \in DOMAIN answers[d] |-> [answers[d][i] EXCEPT !.left = Most(0, @ - elapsed)]]

Later(d, elapsed) ==
  LET rest == SubSeq(answers[d], DueCount(d, elapsed) + 1, Len(answers[d]))
  IN [i \in DOMAIN rest |-> [rest[i] EXCEPT !.left = @ - elapsed]]

\* Mutant: the answer is sent for the latest event's task.
DueEventsOfLatest(d, elapsed) ==
  LET due == IF status[d] = "CHALLENGED" THEN Due(d, elapsed) ELSE <<>>
  IN [i \in DOMAIN due |->
        [type |-> IF due[i].passed THEN "CHALLENGE_PASSED" ELSE "CHALLENGE_FAILED",
         number |-> seq[d] + i, kind |-> fp[d], task |-> seq[d], cause |-> due[i].cause]]

\* _due_answers: what device d sends; nothing when it is no longer challenged.
DueEvents(d, elapsed) ==
  LET due == IF status[d] = "CHALLENGED" THEN Due(d, elapsed) ELSE <<>>
  IN [i \in DOMAIN due |->
        [type |-> IF due[i].passed THEN "CHALLENGE_PASSED" ELSE "CHALLENGE_FAILED",
         number |-> seq[d] + i, kind |-> fp[d], task |-> due[i].task, cause |-> due[i].cause]]

\* tick, up to its loop: time passes, the bucket fills, answers that are due leave.
BeginTick(elapsed) ==
  /\ Refill(elapsed)
  /\ waited' = [d \in Devices |-> IF status[d] \in Awaiting
                                    THEN Least(waited[d] + elapsed, PendingTimeout) ELSE 0]
  /\ answers' = [d \in Devices |-> Later(d, elapsed)]
  /\ seq' = [d \in Devices |-> seq[d] + Len(DueEvents(d, elapsed))]
  /\ ticking' = TRUE
  /\ UNCHANGED <<running, rate, injected, status, fp, seen>>

\* Mutant: a device that awaits a resolution is never asked for again.
EnrollableWithoutTimeout == {d \in Devices : status[d] \in {"NEW", "UNENROLLED", "BLOCKED"}}

\* _enrollable
Enrollable ==
  {d \in Devices : \/ status[d] \in {"NEW", "UNENROLLED", "BLOCKED"}
                   \/ status[d] \in Awaiting /\ waited[d] = PendingTimeout}

EnrolPlans(kind) == [device : Enrollable, type : {"ENROL_REQUESTED"}, kind : {kind}]

\* _unenrol_plan
UnenrolPlans ==
  {[device |-> d, type |-> "UNENROL_REQUESTED", kind |-> fp[d]] :
     d \in {e \in Devices : status[e] \in Settled}}

\* _plan
Plans(scenario) ==
  IF scenario = "UNENROL" \/ (scenario = "CLEAN" /\ Enrollable = {}) THEN UnenrolPlans
  ELSE EnrolPlans(Kind[scenario])

\* _emit falls back to CLEAN.
FeasiblePlans(scenario) ==
  IF Plans(scenario) # {} THEN Plans(scenario) ELSE Plans("CLEAN")

\* The head of the injected scenarios comes before a draw from the mix.
Drawable == IF injected # <<>> THEN {Head(injected)} ELSE Mix

SpendToken ==
  /\ ticking /\ tokens >= Token
  /\ tokens' = tokens - Token
  /\ injected' = IF injected # <<>> THEN Tail(injected) ELSE injected

Requested(plan) ==
  [type |-> plan.type, number |-> seq[plan.device] + 1, kind |-> plan.kind]

\* One turn of tick's loop that emits the event of a plan.
Request(plan) ==
  /\ SpendToken
  /\ status' = [status EXCEPT ![plan.device] = "PENDING"]
  /\ waited' = [waited EXCEPT ![plan.device] = 0]
  /\ fp' = [fp EXCEPT ![plan.device] = plan.kind]
  /\ seq' = [seq EXCEPT ![plan.device] = @ + 1]
  /\ UNCHANGED <<running, rate, answers, seen, ticking>>

\* One turn that finds no device, or none below the bound: the token and the
\* scenario are gone.
SkipToken ==
  /\ SpendToken
  /\ \E scenario \in Drawable : \A plan \in FeasiblePlans(scenario) : seq[plan.device] >= MaxEvents
  /\ UNCHANGED <<running, rate, status, waited, fp, answers, seen, seq, ticking>>

EndTick ==
  /\ ticking /\ tokens < Token
  /\ ticking' = FALSE
  /\ UNCHANGED <<running, rate, tokens, injected, status, waited, fp, answers, seen, seq>>
=============================================================================
