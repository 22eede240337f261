---------------------------- MODULE EnrolmentFlow ----------------------------
(***************************************************************************)
(* The enrolment loop: the simulator's device events, the Flink router     *)
(* that turns them into tasks (external), the Risk, Enrolment and Step-up  *)
(* agents (device-trust-mesh/dtm/mesh/agents), and the policy commands     *)
(* that the simulator applies.  Every topic is keyed by device: a log per  *)
(* device and the position of its reader.                                  *)
(*                                                                         *)
(* An agent handles the next request of a device and passes it, or handles *)
(* it and meets it again (AtLeastOnce), maybe with another answer of the   *)
(* model.  A lookup at context-mcp answers from a row at or above the      *)
(* sequence asked for, as ContextReplica checks, or fails.  Of a risk      *)
(* assessment it is kept whether it is risky: its score reaches the        *)
(* threshold, or it cites signals.                                         *)
(***************************************************************************)
EXTENDS Simulator

CONSTANTS
  ModelAnswers, \* what the enrolment model may answer; ERROR is no usable answer
  Faults,       \* a subset of FaultKinds: what may go wrong
  MaxFaults,    \* bound: how often
  MaxControls   \* bound: control records

\* An event or a request comes to nothing, a request is met again or an output
\* arrives late, the simulator restarts.
FaultKinds == {"loss", "repeat", "restart"}

ASSUME FlowAssumption ==
  /\ ModelAnswers \subseteq {"GRANT", "GRANT_READ_ONLY", "DENY", "CHALLENGE", "ERROR"}
  /\ Faults \subseteq FaultKinds
  /\ MaxFaults \in Nat /\ MaxControls \in Nat

Agents == {"risk", "enrolment", "step-up"}

RequestEvent == [type : {"ENROL_REQUESTED", "UNENROL_REQUESTED"}, number : Numbers,
                 kind : Fingerprints]
AnswerEvent == [type : {"CHALLENGE_PASSED", "CHALLENGE_FAILED"}, number : Numbers,
                kind : Fingerprints, task : Numbers, cause : CommandId]
Event == RequestEvent \cup AnswerEvent

\* Requests name the event they start from, which is also the device_seq that
\* context must have reached, and a resumed one the task.
RiskRequest == [of : Numbers]
DecideRequest == [type : {"DECIDE_ENROLMENT"}, of : Numbers, risky : BOOLEAN]
RemoveRequest == [type : {"REMOVE_TRUST"}, of : Numbers]
ResolveRequest == [type : {"RESOLVE_CHALLENGE"}, of : Numbers, task : Numbers, passed : BOOLEAN]
TaskRequest == RiskRequest \cup DecideRequest \cup RemoveRequest \cup ResolveRequest

VARIABLES
  events,    \* device.events
  routed,    \* the router's position in it
  requests,  \* agent.tasks.<agent>
  handled,   \* the agents' positions in them
  commands,  \* device.policy-commands
  taken,     \* the simulator's position in it
  applied,   \* history: <<life, id>> of every command the simulator applied
  life,      \* history: restarts of the simulator, which number its lives
  faults,    \* bound: faults so far
  controls   \* bound: control records so far

topicVars == <<events, routed, requests, handled, commands, taken>>
boundVars == <<life, faults, controls>>
vars == <<engineVars, topicVars, applied, boundVars>>

TypeOK ==
  /\ SimulatorTypeOK
  /\ events \in [Devices -> Seq(Event)]
  /\ requests \in [Agents -> [Devices -> Seq(TaskRequest)]]
  /\ commands \in [Devices -> Seq(Command)]
  /\ \A d \in Devices :
       /\ routed[d] \in 0 .. Len(events[d])
       /\ taken[d] \in 0 .. Len(commands[d])
       /\ \A a \in Agents : handled[a][d] \in 0 .. Len(requests[a][d])
  /\ applied \in Seq(Nat \X CommandId)
  /\ life \in 0 .. faults /\ faults \in 0 .. MaxFaults /\ controls \in 0 .. MaxControls

Init ==
  /\ SimulatorInit
  /\ events = [d \in Devices |-> <<>>]
  /\ routed = [d \in Devices |-> 0]
  /\ requests = [a \in Agents |-> [d \in Devices |-> <<>>]]
  /\ handled = [a \in Agents |-> [d \in Devices |-> 0]]
  /\ commands = [d \in Devices |-> <<>>]
  /\ taken = [d \in Devices |-> 0]
  /\ applied = <<>>
  /\ life = 0 /\ faults = 0 /\ controls = 0

Fault(kind) == kind \in Faults /\ faults < MaxFaults /\ faults' = faults + 1

\* What leaves a device without a resolution; the bound on events leaves room
\* for its next request.
Loss(d) == Fault("loss") /\ seq'[d] < MaxEvents

-----------------------------------------------------------------------------
(* The simulator's loop *)

Consume(d) ==
  /\ ~ticking /\ taken[d] < Len(commands[d])
  /\ taken' = [taken EXCEPT ![d] = @ + 1]
  /\ LET c == commands[d][taken[d] + 1]
     IN IF Ignored(c) THEN UNCHANGED <<engineVars, applied>>
        ELSE OnPolicyCommand(d, c) /\ applied' = Append(applied, <<life, c.id>>)
  /\ UNCHANGED <<events, routed, requests, handled, commands, boundVars>>

\* dtm-ctl sets a rate or gives a command.
Control ==
  /\ ~ticking /\ controls < MaxControls
  /\ controls' = controls + 1
  /\ \E newRate \in Rates, command \in {"none", "START", "STOP", "INJECT"},
        scenario \in Scenarios, count \in 0 .. MaxInjected - Len(injected) :
       /\ command # "INJECT" => scenario = "CLEAN" /\ count = 0
       /\ newRate = rate \/ command = "none"
       /\ OnControl(newRate, command, scenario, count)
  /\ UNCHANGED <<topicVars, applied, life, faults>>

\* _publish skips an event that cannot be serialized or queued, or its
\* delivery fails later.
Published(d, new) ==
  \/ events' = [events EXCEPT ![d] = @ \o new] /\ UNCHANGED faults
  \/ Loss(d) /\ UNCHANGED events

Tick(elapsed) ==
  /\ ~ticking
  /\ BeginTick(elapsed)
  /\ \E lost \in SUBSET {d \in Devices : DueEvents(d, elapsed) # <<>>} :
       /\ events' = [d \in Devices |->
                       IF d \in lost THEN events[d] ELSE events[d] \o DueEvents(d, elapsed)]
       /\ IF lost = {} THEN UNCHANGED faults ELSE \A d \in lost : Loss(d)
  /\ UNCHANGED <<routed, requests, handled, commands, taken, applied, life, controls>>

Emit(d) ==
  /\ seq[d] < MaxEvents
  /\ \E scenario \in Drawable : \E plan \in FeasiblePlans(scenario) :
       plan.device = d /\ Request(plan) /\ Published(d, <<Requested(plan)>>)
  /\ UNCHANGED <<routed, requests, handled, commands, taken, applied, life, controls>>

\* The rest of tick: tokens that find no device below the bound, and its end.
FinishTick ==
  /\ \/ SkipToken
     \/ EndTick
  /\ UNCHANGED <<topicVars, applied, boundVars>>

\* The process ends and starts again.  Its consumer commits on its own, now
\* and then, so it resumes somewhere below what it had consumed, or, when it
\* had committed nothing, at the latest command.
Restart ==
  /\ Fault("restart")
  /\ life' = life + 1
  /\ Fresh
  /\ \/ \E resumed \in [Devices -> UNION {0 .. taken[d] : d \in Devices}] :
          /\ \A d \in Devices : resumed[d] <= taken[d]
          /\ taken' = resumed
     \/ taken' = [d \in Devices |-> Len(commands[d])]
  /\ UNCHANGED <<events, routed, requests, handled, commands, applied, controls>>

-----------------------------------------------------------------------------
(* The router (external) *)

TaskOf(e) ==
  CASE e.type = "ENROL_REQUESTED" -> [of |-> e.number]
    [] e.type = "UNENROL_REQUESTED" -> [type |-> "REMOVE_TRUST", of |-> e.number]
    [] OTHER -> [type |-> "RESOLVE_CHALLENGE", of |-> e.number, task |-> e.task,
                 passed |-> e.type = "CHALLENGE_PASSED"]

Send(agent, d, r) == requests' = [requests EXCEPT ![agent][d] = Append(@, r)]

Route(d) ==
  /\ routed[d] < Len(events[d])
  /\ routed' = [routed EXCEPT ![d] = @ + 1]
  /\ LET e == events[d][routed[d] + 1]
     IN Send(IF e.type = "ENROL_REQUESTED" THEN "risk" ELSE "enrolment", d, TaskOf(e))
  /\ UNCHANGED <<engineVars, events, handled, commands, taken, applied, boundVars>>

-----------------------------------------------------------------------------
(* The agents *)

untouched == <<engineVars, events, routed, taken, applied, life, controls>>

HasRequest(agent, d) == handled[agent][d] < Len(requests[agent][d])
Next1(agent, d) == requests[agent][d][handled[agent][d] + 1]
Meets(type, d) == HasRequest("enrolment", d) /\ Next1("enrolment", d).type = type

\* The request is committed, or met again.
Passes(agent, d) ==
  \/ handled' = [handled EXCEPT ![agent][d] = @ + 1] /\ UNCHANGED faults
  \/ Fault("repeat") /\ UNCHANGED handled

\* The rows that get_device_context may answer from under min_seq.
Rows(d, n) == {e \in Range(events[d]) : e.number >= n}

\* Signals have no min_seq: those of any event so far may be listed, or not yet.
MayBeCompromised(d) == {FALSE} \cup {(e.kind = "ROOTED") : e \in Range(events[d])}

\* run_task ends any task FAILED whose body raises: a lookup that fails or
\* answers STALE, a risk model without a usable answer, a failed produce.
FailTask(agent, d) ==
  /\ HasRequest(agent, d)
  /\ UNCHANGED untouched
  /\ Loss(d)
  /\ handled' = [handled EXCEPT ![agent][d] = @ + 1]
  /\ UNCHANGED <<requests, commands>>

\* RiskAgent._assess: the model gives any score.
Assess(d) ==
  /\ HasRequest("risk", d)
  /\ \E risky \in BOOLEAN :
       Send("enrolment", d, [type |-> "DECIDE_ENROLMENT", of |-> Next1("risk", d).of,
                             risky |-> risky])
  /\ Passes("risk", d)
  /\ UNCHANGED <<untouched, commands>>

\* Mutant: trust is looked at before the fingerprint.
PreLlmTrustFirst(row, compromised, trusted) ==
  IF trusted THEN {"GRANT"} ELSE IF row.kind = "ROOTED" \/ compromised THEN {"DENY"} ELSE {}

\* _pre_llm: the decision that needs no model, if there is one.
PreLlm(row, compromised, trusted) ==
  IF row.kind = "ROOTED" \/ compromised THEN {"DENY"} ELSE IF trusted THEN {"GRANT"} ELSE {}

\* _bound: the guardrails around an answer of the model, or around none.
Bound(answer, r) ==
  IF answer = "ERROR" \/ (answer = "GRANT" /\ r.risky) THEN "CHALLENGE" ELSE answer

ActionOf == [GRANT |-> "ALLOW", GRANT_READ_ONLY |-> "READ_ONLY", DENY |-> "BLOCK"]

Order(d, by, of, action, task) ==
  LET id == [by |-> by, device |-> d, of |-> of]
  IN commands' = [commands EXCEPT ![d] = Append(@, [id |-> id, action |-> action, task |-> task])]

\* The device's row says TRUSTED only after an ALLOW.
MayBeTrusted(d) == {FALSE} \cup {c.action = "ALLOW" : c \in Range(commands[d])}

\* EnrolmentAgent._decide.  The output index, and so the id, of the command
\* depends on whether the model was asked.
Decide(d) ==
  /\ Meets("DECIDE_ENROLMENT", d)
  /\ LET r == Next1("enrolment", d)
         Enact(by, decision) ==
           IF decision = "CHALLENGE" THEN Send("step-up", d, [of |-> r.of]) /\ UNCHANGED commands
           ELSE Order(d, by, r.of, ActionOf[decision], r.of) /\ UNCHANGED requests
     IN \E row \in Rows(d, r.of), compromised \in MayBeCompromised(d),
           trusted \in MayBeTrusted(d) :
          LET early == PreLlm(row, compromised, trusted)
          IN \/ \E decision \in early : Enact("guardrail", decision)
             \/ /\ early = {}
                /\ \E answer \in ModelAnswers : Enact("model", Bound(answer, r))
  /\ Passes("enrolment", d)
  /\ UNCHANGED untouched

\* EnrolmentAgent._remove_trust
RemoveTrust(d) ==
  /\ Meets("REMOVE_TRUST", d)
  /\ LET n == Next1("enrolment", d).of IN Order(d, "remove", n, "UNENROLLED", n)
  /\ Passes("enrolment", d)
  /\ UNCHANGED <<untouched, requests>>

\* EnrolmentAgent._resolve
Resolve(d) ==
  /\ Meets("RESOLVE_CHALLENGE", d)
  /\ LET r == Next1("enrolment", d)
     IN Order(d, "resolve", r.of, IF r.passed THEN "ALLOW" ELSE "BLOCK", r.task)
  /\ Passes("enrolment", d)
  /\ UNCHANGED <<untouched, requests>>

\* StepUpAgent._challenge, whatever the method.
Challenge(d) ==
  /\ HasRequest("step-up", d)
  /\ LET n == Next1("step-up", d).of IN Order(d, "step-up", n, "CHALLENGE", n)
  /\ Passes("step-up", d)
  /\ UNCHANGED <<untouched, requests>>

\* A replica that lost its partition delivers late what it had produced.
LateOutput(d) ==
  /\ Fault("repeat")
  /\ \/ /\ \E c \in Range(commands[d]) : commands' = [commands EXCEPT ![d] = Append(@, c)]
        /\ UNCHANGED requests
     \/ /\ \/ \E r \in Range(requests["enrolment"][d]) :
                r.type = "DECIDE_ENROLMENT" /\ Send("enrolment", d, r)
           \/ \E r \in Range(requests["step-up"][d]) : Send("step-up", d, r)
        /\ UNCHANGED commands
  /\ UNCHANGED <<untouched, handled>>

AgentStep(d) == Assess(d) \/ Decide(d) \/ RemoveTrust(d) \/ Resolve(d) \/ Challenge(d)

Next ==
  \/ Control
  \/ FinishTick
  \/ Restart
  \/ \E elapsed \in 0 .. 1 : Tick(elapsed)
  \/ \E d \in Devices :
       \/ Consume(d)
       \/ Emit(d)
       \/ Route(d)
       \/ AgentStep(d)
       \/ LateOutput(d)
       \/ \E agent \in Agents : FailTask(agent, d)

Spec == Init /\ [][Next]_vars

Fairness ==
  /\ WF_vars(FinishTick)
  /\ SF_vars(Tick(1))
  /\ \A d \in Devices :
       /\ SF_vars(Consume(d))
       /\ SF_vars(Emit(d))
       /\ WF_vars(Route(d))
       /\ WF_vars(AgentStep(d) /\ handled' # handled)

FairSpec == Spec /\ Fairness

-----------------------------------------------------------------------------
(* Properties *)

\* A command takes effect at most once among DedupeCapacity consecutive ones,
\* however often agents repeat it (engine.py _remember).
AppliedOnce ==
  \A i, j \in DOMAIN applied : i < j /\ applied[i] = applied[j] => j - i > DedupeCapacity

\* A challenge is answered at most once for each time the simulator took it up
\* (engine.py on_policy_command, _due_answers).
OneAnswerPerChallenge ==
  \A d \in Devices : \A e \in {f \in Range(events[d]) : f \in AnswerEvent} :
    Cardinality({i \in DOMAIN events[d] : events[d][i] \in AnswerEvent /\ events[d][i].cause = e.cause})
      <= Cardinality({i \in DOMAIN applied : applied[i][2] = e.cause})

\* What resumes an enrolment task is the outcome of a challenge of that task
\* (engine.py _due_answers, enrolment.py _resolve).
ResumedTasksWereChallenged ==
  \A d \in Devices : \A r \in Range(requests["enrolment"][d]) :
    r.type = "RESOLVE_CHALLENGE" => [of |-> r.task] \in Range(requests["step-up"][d])

\* Trust, even restricted or pending a challenge, rests on a fingerprint that
\* is not older than the request and not compromised (enrolment.py _decide).
TrustHasCleanGrounds ==
  \A d \in Devices : \A c \in Range(commands[d]) :
    c.action \in {"ALLOW", "READ_ONLY", "CHALLENGE"} =>
      \E e \in Range(events[d]) : e.number >= c.task /\ e.kind # "ROOTED"

\* A device does not await a resolution for ever: what is lost is asked for
\* again (engine.py _enrollable), as long as the simulator keeps asking.
EveryRequestSettles ==
  <>[](running /\ rate > 0) =>
    \A d \in Devices : status[d] \in Awaiting ~> status[d] \notin Awaiting
=============================================================================
