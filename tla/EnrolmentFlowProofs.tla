-------------------------- MODULE EnrolmentFlowProofs --------------------------
(***************************************************************************)
(* The enrolment loop for every pool of devices, capacity, delay, rate and *)
(* number of faults: types, then the inductive invariants behind           *)
(* AppliedOnce, ResumedTasksWereChallenged, TrustHasCleanGrounds and       *)
(* OneAnswerPerChallenge.                                                  *)
(***************************************************************************)
EXTENDS EnrolmentFlow, FiniteSetTheorems, SequenceTheorems, TLAPS

-----------------------------------------------------------------------------
(* Sequences *)

LEMMA RangeOfAppend ==
  ASSUME NEW S, NEW s \in Seq(S), NEW e \in S
  PROVE  /\ Range(s) \subseteq S
         /\ Append(s, e) \in Seq(S) /\ Len(Append(s, e)) = Len(s) + 1
         /\ Range(Append(s, e)) = Range(s) \cup {e}
<1>1. DOMAIN s = 1 .. Len(s) /\ \A i \in 1 .. Len(s) : s[i] \in S
  OBVIOUS
<1>2. Append(s, e) \in Seq(S) /\ Len(Append(s, e)) = Len(s) + 1
  OBVIOUS
<1>3. /\ \A i \in 1 .. Len(s) : Append(s, e)[i] = s[i]
      /\ Append(s, e)[Len(s) + 1] = e
      /\ DOMAIN Append(s, e) = 1 .. Len(s) + 1
  OBVIOUS
<1>4. 1 .. Len(s) + 1 = (1 .. Len(s)) \cup {Len(s) + 1}
  OBVIOUS
<1>5. QED
  BY <1>1, <1>2, <1>3, <1>4 DEF Range

LEMMA RangeOfConcat ==
  ASSUME NEW S, NEW s \in Seq(S), NEW t \in Seq(S)
  PROVE  /\ s \o t \in Seq(S) /\ Len(s \o t) = Len(s) + Len(t)
         /\ Range(s \o t) = Range(s) \cup Range(t)
<1>1. s \o t \in Seq(S) /\ Len(s \o t) = Len(s) + Len(t)
  OBVIOUS
<1>2. /\ \A i \in 1 .. Len(s) : (s \o t)[i] = s[i]
      /\ \A i \in 1 .. Len(t) : (s \o t)[Len(s) + i] = t[i]
  OBVIOUS
<1>3. \A i \in 1 .. Len(s) + Len(t) :
        i \in 1 .. Len(s) \/ \E j \in 1 .. Len(t) : i = Len(s) + j
  <2>1. SUFFICES ASSUME NEW i \in 1 .. Len(s) + Len(t), i \notin 1 .. Len(s)
                 PROVE  i - Len(s) \in 1 .. Len(t) /\ i = Len(s) + (i - Len(s))
    OBVIOUS
  <2>2. QED
    BY <2>1
<1>4. DOMAIN s = 1 .. Len(s) /\ DOMAIN t = 1 .. Len(t) /\ DOMAIN (s \o t) = 1 .. Len(s) + Len(t)
  BY <1>1
<1>5. Range(s \o t) \subseteq Range(s) \cup Range(t)
  <2>1. SUFFICES ASSUME NEW i \in 1 .. Len(s) + Len(t)
                 PROVE  (s \o t)[i] \in Range(s) \cup Range(t)
    BY <1>4 DEF Range
  <2>2. CASE i \in 1 .. Len(s)
    BY <1>2, <1>4, <2>2 DEF Range
  <2>3. CASE \E j \in 1 .. Len(t) : i = Len(s) + j
    BY <1>2, <1>4, <2>3 DEF Range
  <2>4. QED
    BY <1>3, <2>2, <2>3
<1>6. Range(s) \subseteq Range(s \o t)
  BY <1>2, <1>4 DEF Range
<1>7. ASSUME NEW i \in 1 .. Len(t)
      PROVE  t[i] \in Range(s \o t)
  <2>1. Len(s) + i \in DOMAIN (s \o t)
    BY <1>4
  <2>2. QED
    BY <1>2, <2>1 DEF Range
<1>8. Range(t) \subseteq Range(s \o t)
  BY <1>4, <1>7 DEF Range
<1>9. QED
  BY <1>1, <1>5, <1>6, <1>8

LEMMA AppendAndTail ==
  ASSUME NEW S, NEW s \in Seq(S), NEW e \in S
  PROVE  /\ Len(Append(s, e)) = Len(s) + 1 /\ Append(s, e)[Len(s) + 1] = e
         /\ \A i \in 1 .. Len(s) : Append(s, e)[i] = s[i]
         /\ Len(Tail(Append(s, e))) = Len(s)
         /\ \A i \in 1 .. Len(s) : Tail(Append(s, e))[i] = Append(s, e)[i + 1]
<1>1. Append(s, e) \in Seq(S) /\ Len(Append(s, e)) = Len(s) + 1 /\ Len(s) \in Nat
  OBVIOUS
<1>2. /\ Append(s, e)[Len(s) + 1] = e
      /\ \A i \in 1 .. Len(s) : Append(s, e)[i] = s[i]
  OBVIOUS
<1> DEFINE t == Append(s, e)
<1> HIDE DEF t
<1>3. t \in Seq(S) /\ Len(t) = Len(s) + 1 /\ t # <<>>
  BY <1>1 DEF t
<1>4. Len(Tail(t)) = Len(t) - 1 /\ \A i \in 1 .. Len(t) - 1 : Tail(t)[i] = t[i + 1]
  BY <1>3
<1>5. Len(Tail(t)) = Len(s) /\ \A i \in 1 .. Len(s) : Tail(t)[i] = t[i + 1]
  BY <1>1, <1>3, <1>4
<1>6. QED
  BY <1>1, <1>2, <1>5 DEF t

LEMMA ElementInRange ==
  ASSUME NEW S, NEW s \in Seq(S), NEW i \in 1 .. Len(s)
  PROVE  s[i] \in S /\ s[i] \in Range(s)
BY DEF Range

\* What a prefix and the rest of a sequence hold.
LEMMA PrefixAndRest ==
  ASSUME NEW S, NEW s \in Seq(S), NEW n \in 0 .. Len(s)
  PROVE  /\ SubSeq(s, 1, n) \in Seq(S) /\ Len(SubSeq(s, 1, n)) = n
         /\ \A i \in 1 .. n : SubSeq(s, 1, n)[i] = s[i]
         /\ SubSeq(s, n + 1, Len(s)) \in Seq(S) /\ Len(SubSeq(s, n + 1, Len(s))) = Len(s) - n
         /\ \A i \in 1 .. Len(s) - n : SubSeq(s, n + 1, Len(s))[i] = s[n + i]
<1>1. Len(s) \in Nat /\ n \in Nat /\ n <= Len(s) /\ \A i \in 1 .. Len(s) : s[i] \in S
  OBVIOUS
<1>2. /\ SubSeq(s, 1, n) \in Seq(S)
      /\ Len(SubSeq(s, 1, n)) = IF 1 <= n THEN n - 1 + 1 ELSE 0
      /\ \A i \in 1 .. n - 1 + 1 : SubSeq(s, 1, n)[i] = s[1 + i - 1]
  <2>1. \A i \in 1 .. n : s[i] \in S
    BY <1>1
  <2>2. QED
    BY <1>1, <2>1, SubSeqProperties
<1>3. /\ SubSeq(s, n + 1, Len(s)) \in Seq(S)
      /\ Len(SubSeq(s, n + 1, Len(s))) = IF n + 1 <= Len(s) THEN Len(s) - (n + 1) + 1 ELSE 0
      /\ \A i \in 1 .. Len(s) - (n + 1) + 1 : SubSeq(s, n + 1, Len(s))[i] = s[n + 1 + i - 1]
  <2>1. n + 1 \in Int /\ \A i \in n + 1 .. Len(s) : s[i] \in S
    BY <1>1
  <2>2. QED
    BY <1>1, <2>1, SubSeqProperties
<1>4. QED
  BY <1>1, <1>2, <1>3

-----------------------------------------------------------------------------
(* Types *)

RequestsOf(agent) ==
  IF agent = "enrolment" THEN DecideRequest \cup RemoveRequest \cup ResolveRequest ELSE RiskRequest

\* Answers are listed by what remains of their delay.
Ordered(s) ==
  \A i \in 1 .. Len(s) : /\ s[i].left <= ChallengeDelay
                         /\ \A j \in 1 .. Len(s) : i < j => s[i].left <= s[j].left

EngineTypes == SimulatorTypeOK /\ \A d \in Devices : Ordered(answers[d])

TopicTypes ==
  /\ events \in [Devices -> Seq(Event)] /\ routed \in [Devices -> Nat]
  /\ commands \in [Devices -> Seq(Command)] /\ taken \in [Devices -> Nat]
  /\ requests \in [Agents -> [Devices -> Seq(TaskRequest)]] /\ handled \in [Agents -> [Devices -> Nat]]
  /\ \A d \in Devices :
       /\ routed[d] <= Len(events[d]) /\ taken[d] <= Len(commands[d])
       /\ \A a \in Agents : /\ requests[a][d] \in Seq(RequestsOf(a))
                            /\ handled[a][d] <= Len(requests[a][d])

BoundTypes ==
  /\ applied \in Seq(Nat \X CommandId)
  /\ life \in 0 .. faults /\ faults \in 0 .. MaxFaults /\ controls \in 0 .. MaxControls

FlowTypes == EngineTypes /\ TopicTypes /\ BoundTypes

LEMMA TypesImplyTypeOK == FlowTypes => TypeOK
<1> SUFFICES ASSUME FlowTypes PROVE TypeOK
  OBVIOUS
<1>1. \A d \in Devices : /\ Len(events[d]) \in Nat /\ Len(commands[d]) \in Nat
                         /\ \A a \in Agents : Len(requests[a][d]) \in Nat
  BY DEF FlowTypes, TopicTypes
<1>2. QED
  BY <1>1 DEF FlowTypes, EngineTypes, TopicTypes, BoundTypes, TypeOK

LEMMA InitTypes == Init => FlowTypes
<1> SUFFICES ASSUME Init PROVE FlowTypes
  OBVIOUS
<1>1. EngineTypes
  <2>1. SimulatorInit
    BY DEF Init
  <2>2. SimulatorTypeOK
    <3>1. /\ status \in [Devices -> Status] /\ fp \in [Devices -> Fingerprints]
          /\ waited \in [Devices -> 0 .. PendingTimeout]
      BY <2>1, SimulatorAssumption DEF SimulatorInit, Status, Fingerprints
    <3>2. /\ injected \in Seq(Scenarios) /\ Len(injected) <= MaxInjected
          /\ answers \in [Devices -> Seq(Answer)]
          /\ seen \in Seq(CommandId) /\ Len(seen) <= DedupeCapacity
      BY <2>1, SimulatorAssumption DEF SimulatorInit
    <3>3. QED
      BY <2>1, <3>1, <3>2, SimulatorAssumption DEF SimulatorInit, SimulatorTypeOK
  <2>3. \A d \in Devices : Ordered(answers[d])
    BY <2>1 DEF SimulatorInit, Ordered
  <2>4. QED
    BY <2>2, <2>3 DEF EngineTypes
<1>2. TopicTypes
  BY DEF Init, TopicTypes
<1>3. BoundTypes
  BY FlowAssumption DEF Init, BoundTypes
<1>4. QED
  BY <1>1, <1>2, <1>3 DEF FlowTypes

-----------------------------------------------------------------------------
(* Types: the simulator *)

LEMMA RememberTypes ==
  ASSUME EngineTypes, NEW id \in CommandId, Remember(id)
  PROVE  /\ seen' \in Seq(CommandId) /\ Len(seen') <= DedupeCapacity
         /\ IF Len(seen) < DedupeCapacity THEN seen' = Append(seen, id)
                                          ELSE seen' = Tail(Append(seen, id))
<1> DEFINE all == Append(seen, id)
<1>1. seen \in Seq(CommandId) /\ Len(seen) <= DedupeCapacity /\ DedupeCapacity \in Nat
  BY SimulatorAssumption DEF EngineTypes, SimulatorTypeOK
<1>2. all \in Seq(CommandId) /\ Len(all) = Len(seen) + 1 /\ all # <<>>
  BY <1>1
<1>3. Tail(all) \in Seq(CommandId) /\ Len(Tail(all)) = Len(seen)
  BY <1>2
<1>4. seen' = IF Len(all) > DedupeCapacity THEN Tail(all) ELSE all
  BY DEF Remember
<1> HIDE DEF all
<1>5. Len(seen) \in Nat
  BY <1>1
<1>6. QED
  BY <1>1, <1>2, <1>3, <1>4, <1>5 DEF all

LEMMA OrderedAppend ==
  ASSUME NEW s \in Seq(Answer), Ordered(s), NEW a \in Answer, a.left = ChallengeDelay
  PROVE  Append(s, a) \in Seq(Answer) /\ Ordered(Append(s, a))
<1>1. Append(s, a) \in Seq(Answer) /\ Len(Append(s, a)) = Len(s) + 1 /\ Len(s) \in Nat
  OBVIOUS
<1>2. /\ \A i \in 1 .. Len(s) : Append(s, a)[i] = s[i]
      /\ Append(s, a)[Len(s) + 1] = a
  OBVIOUS
<1>3. ChallengeDelay \in Nat
  BY SimulatorAssumption
<1>4. \A i \in 1 .. Len(s) + 1 : Append(s, a)[i].left <= ChallengeDelay
  BY <1>1, <1>2, <1>3 DEF Ordered
<1>5. \A i, j \in 1 .. Len(s) + 1 : i < j => Append(s, a)[i].left <= Append(s, a)[j].left
  <2>1. SUFFICES ASSUME NEW i \in 1 .. Len(s) + 1, NEW j \in 1 .. Len(s) + 1, i < j
                 PROVE  Append(s, a)[i].left <= Append(s, a)[j].left
    OBVIOUS
  <2>2. i \in 1 .. Len(s)
    BY <1>1, <2>1
  <2>3. CASE j = Len(s) + 1
    BY <1>2, <2>2, <2>3 DEF Ordered
  <2>4. CASE j # Len(s) + 1
    <3>1. j \in 1 .. Len(s)
      BY <1>1, <2>4
    <3>2. QED
      BY <1>2, <2>1, <2>2, <3>1 DEF Ordered
  <2>5. QED
    BY <2>3, <2>4
<1>6. QED
  BY <1>1, <1>4, <1>5 DEF Ordered

LEMMA ScheduledType ==
  ASSUME NEW c \in Command, NEW passed \in BOOLEAN
  PROVE  Scheduled(c, passed) \in Answer
BY SimulatorAssumption DEF Scheduled, Answer, Command

LEMMA PolicyCommandTypes ==
  ASSUME EngineTypes, NEW d \in Devices, NEW c \in Command, OnPolicyCommand(d, c)
  PROVE  EngineTypes'
<1>1. c.id \in CommandId /\ c.action \in Actions
  BY DEF Command
<1>2. seen' \in Seq(CommandId) /\ Len(seen') <= DedupeCapacity
  BY <1>1, RememberTypes DEF OnPolicyCommand
<1>3. status' \in [Devices -> Status]
  <2>1. StatusOf(c.action) \in Status
    BY <1>1 DEF StatusOf, Actions, Status
  <2>2. QED
    BY <2>1 DEF OnPolicyCommand, EngineTypes, SimulatorTypeOK
<1>4. waited' \in [Devices -> 0 .. PendingTimeout]
  BY SimulatorAssumption DEF OnPolicyCommand, EngineTypes, SimulatorTypeOK
<1>5. answers' \in [Devices -> Seq(Answer)] /\ \A e \in Devices : Ordered(answers'[e])
  <2>1. CASE c.action = "CHALLENGE"
    <3>1. PICK passed \in BOOLEAN :
            answers' = [answers EXCEPT ![d] = Append(answers[d], Scheduled(c, passed))]
      BY <2>1 DEF OnPolicyCommand
    <3>2. Scheduled(c, passed) \in Answer /\ Scheduled(c, passed).left = ChallengeDelay
      BY ScheduledType DEF Scheduled
    <3>3. answers \in [Devices -> Seq(Answer)] /\ \A e \in Devices : Ordered(answers[e])
      BY DEF EngineTypes, SimulatorTypeOK
    <3>4. Append(answers[d], Scheduled(c, passed)) \in Seq(Answer)
          /\ Ordered(Append(answers[d], Scheduled(c, passed)))
      BY <3>2, <3>3, OrderedAppend
    <3>5. QED
      BY <3>1, <3>3, <3>4
  <2>2. CASE c.action # "CHALLENGE"
    BY <2>2 DEF OnPolicyCommand, EngineTypes, SimulatorTypeOK
  <2>3. QED
    BY <2>1, <2>2
<1>6. (/\ running \in BOOLEAN /\ ticking \in BOOLEAN /\ rate \in Rates /\ tokens \in Nat
       /\ injected \in Seq(Scenarios) /\ Len(injected) <= MaxInjected
       /\ fp \in [Devices -> Fingerprints] /\ seq \in [Devices -> Nat])'
  BY DEF OnPolicyCommand, EngineTypes, SimulatorTypeOK
<1>7. QED
  BY <1>2, <1>3, <1>4, <1>5, <1>6 DEF EngineTypes, SimulatorTypeOK, Ordered

LEMMA ControlTypes ==
  ASSUME EngineTypes, NEW newRate \in Rates, NEW command \in {"none", "START", "STOP", "INJECT"},
         NEW scenario \in Scenarios, NEW count \in 0 .. MaxInjected - Len(injected),
         OnControl(newRate, command, scenario, count)
  PROVE  EngineTypes'
<1>1. injected' \in Seq(Scenarios) /\ Len(injected') <= MaxInjected
  <2>1. injected \in Seq(Scenarios) /\ Len(injected) \in Nat /\ Len(injected) <= MaxInjected
    BY DEF EngineTypes, SimulatorTypeOK
  <2>2. count \in Nat /\ count <= MaxInjected - Len(injected)
    BY <2>1, SimulatorAssumption
  <2>3. [i \in 1 .. count |-> scenario] \in Seq(Scenarios) /\ Len([i \in 1 .. count |-> scenario]) = count
    BY <2>2
  <2>4. /\ injected \o [i \in 1 .. count |-> scenario] \in Seq(Scenarios)
        /\ Len(injected \o [i \in 1 .. count |-> scenario]) = Len(injected) + count
    BY <2>1, <2>3, RangeOfConcat
  <2>5. QED
    BY <2>1, <2>2, <2>4, SimulatorAssumption DEF OnControl
<1>2. running' \in BOOLEAN
  BY DEF OnControl, EngineTypes, SimulatorTypeOK
<1>3. QED
  BY <1>1, <1>2 DEF OnControl, EngineTypes, SimulatorTypeOK, Ordered

-----------------------------------------------------------------------------
(* Types: a tick *)

LEMMA PrefixSize ==
  ASSUME NEW n \in Nat
  PROVE  IsFiniteSet(1 .. n) /\ Cardinality(1 .. n) = n
<1>1. IsFiniteSet(1 .. n) /\ Cardinality(1 .. n) = IF 1 > n THEN 0 ELSE n - 1 + 1
  BY FS_Interval
<1>2. QED
  BY <1>1

\* The answers that are due come first, because they are ordered.
LEMMA DueFirst ==
  ASSUME NEW d \in Devices, NEW elapsed \in Nat, answers[d] \in Seq(Answer)
  PROVE  /\ DueCount(d, elapsed) \in 0 .. Len(answers[d])
         /\ Ordered(answers[d]) =>
              \A i \in 1 .. Len(answers[d]) : DueCount(d, elapsed) < i => elapsed < answers[d][i].left
<1> DEFINE s == answers[d]
<1> DEFINE due == {i \in DOMAIN s : s[i].left <= elapsed}
<1>1. s \in Seq(Answer) /\ Len(s) \in Nat /\ DOMAIN s = 1 .. Len(s)
  OBVIOUS
<1>2. \A i \in 1 .. Len(s) : s[i] \in Answer /\ s[i].left \in Nat
  <2>1. \A i \in 1 .. Len(s) : s[i] \in Answer
    BY <1>1
  <2>2. \A a \in Answer : a.left \in Nat
    BY DEF Answer
  <2>3. QED
    BY <2>1, <2>2
<1> HIDE DEF s
<1>3. IsFiniteSet(1 .. Len(s)) /\ Cardinality(1 .. Len(s)) = Len(s)
  BY <1>1, PrefixSize
<1>4. due \in SUBSET (1 .. Len(s))
  BY <1>1
<1>5. IsFiniteSet(due) /\ Cardinality(due) <= Len(s) /\ Cardinality(due) \in Nat
  <2>1. IsFiniteSet(due) /\ Cardinality(due) <= Cardinality(1 .. Len(s))
    BY <1>3, <1>4, FS_Subset
  <2>2. QED
    BY <1>3, <2>1, FS_CardinalityType
<1>6. ASSUME Ordered(s), NEW i \in 1 .. Len(s), Cardinality(due) < i
      PROVE  elapsed < s[i].left
  <2>1. SUFFICES ASSUME s[i].left <= elapsed PROVE FALSE
    BY <1>2
  <2>2. i \in Nat /\ 1 <= i /\ i <= Len(s)
    BY <1>1
  <2>3. IsFiniteSet(1 .. i) /\ Cardinality(1 .. i) = i
    BY <2>2, PrefixSize
  <2>4. \A j \in 1 .. i : j \in due
    <3>1. SUFFICES ASSUME NEW j \in 1 .. i PROVE s[j].left <= elapsed /\ j \in 1 .. Len(s)
      BY <1>1
    <3>2. j \in 1 .. Len(s)
      BY <2>2, <1>1
    <3>3. s[j].left <= s[i].left
      BY <1>2, <1>6, <3>2 DEF Ordered
    <3>4. QED
      BY <1>2, <2>1, <3>2, <3>3
  <2>5. 1 .. i \in SUBSET due
    BY <2>4
  <2>6. i <= Cardinality(due)
    BY <1>5, <2>3, <2>5, FS_Subset
  <2>7. QED
    BY <1>5, <1>6, <2>2, <2>6
<1>7. DueCount(d, elapsed) = Cardinality(due)
  BY DEF DueCount, s
<1>8. QED
  BY <1>1, <1>5, <1>6, <1>7 DEF s

LEMMA LaterType ==
  ASSUME NEW d \in Devices, NEW elapsed \in Nat, answers[d] \in Seq(Answer), Ordered(answers[d])
  PROVE  LET n == DueCount(d, elapsed)
             rest == Later(d, elapsed)
         IN /\ rest \in Seq(Answer) /\ Ordered(rest) /\ Len(rest) = Len(answers[d]) - n
            /\ \A i \in 1 .. Len(rest) : /\ n + i \in 1 .. Len(answers[d])
                                         /\ rest[i].task = answers[d][n + i].task
                                         /\ rest[i].cause = answers[d][n + i].cause
<1> DEFINE s == answers[d]
<1> DEFINE n == DueCount(d, elapsed)
<1> DEFINE tail == SubSeq(s, n + 1, Len(s))
<1> DEFINE rest == [i \in DOMAIN tail |-> [tail[i] EXCEPT !.left = @ - elapsed]]
<1>1. s \in Seq(Answer) /\ Len(s) \in Nat /\ \A i \in 1 .. Len(s) : s[i] \in Answer
  OBVIOUS
<1>2. /\ n \in 0 .. Len(s) /\ n \in Nat
      /\ \A i \in 1 .. Len(s) : n < i => elapsed < s[i].left
  <2>1. n \in 0 .. Len(s) /\ \A i \in 1 .. Len(s) : n < i => elapsed < s[i].left
    BY DueFirst
  <2>2. QED
    BY <1>1, <2>1
<1>3. Later(d, elapsed) = rest
  BY DEF Later
<1>4. /\ tail \in Seq(Answer) /\ Len(tail) = Len(s) - n
      /\ \A i \in 1 .. Len(s) - n : tail[i] = s[n + i]
  BY <1>1, <1>2, PrefixAndRest
<1> HIDE DEF n, tail, s
<1>5. DOMAIN tail = 1 .. Len(s) - n /\ Len(s) - n \in Nat
  BY <1>1, <1>2, <1>4
<1>6. ASSUME NEW i \in 1 .. Len(s) - n
      PROVE  /\ n + i \in 1 .. Len(s)
             /\ rest[i] \in Answer
             /\ rest[i].left = s[n + i].left - elapsed
             /\ rest[i].task = s[n + i].task /\ rest[i].cause = s[n + i].cause
  <2>1. n + i \in 1 .. Len(s) /\ n < n + i
    BY <1>1, <1>2
  <2>2. s[n + i] \in Answer /\ elapsed < s[n + i].left
    BY <1>1, <1>2, <2>1
  <2>3. rest[i] = [s[n + i] EXCEPT !.left = @ - elapsed]
    BY <1>4, <1>5
  <2>4. s[n + i] = [left |-> s[n + i].left, passed |-> s[n + i].passed,
                    task |-> s[n + i].task, cause |-> s[n + i].cause]
        /\ s[n + i].left \in Nat /\ s[n + i].passed \in BOOLEAN
        /\ s[n + i].task \in Numbers /\ s[n + i].cause \in CommandId
    BY <2>2 DEF Answer
  <2>5. rest[i] = [left |-> s[n + i].left - elapsed, passed |-> s[n + i].passed,
                   task |-> s[n + i].task, cause |-> s[n + i].cause]
    BY <2>3, <2>4
  <2>6. s[n + i].left - elapsed \in Nat
    BY <2>2, <2>4
  <2>7. QED
    BY <2>1, <2>4, <2>5, <2>6 DEF Answer
<1>7. rest \in Seq(Answer) /\ Len(rest) = Len(s) - n
  <2>1. rest \in [1 .. Len(s) - n -> Answer]
    BY <1>5, <1>6
  <2> HIDE DEF rest
  <2>2. QED
    BY <1>5, <2>1
<1> HIDE DEF rest
<1>8. Ordered(rest)
  <2>1. SUFFICES ASSUME NEW i \in 1 .. Len(rest)
                 PROVE  /\ rest[i].left <= ChallengeDelay
                        /\ \A j \in 1 .. Len(rest) : i < j => rest[i].left <= rest[j].left
    BY DEF Ordered
  <2>2. i \in 1 .. Len(s) - n /\ n + i \in 1 .. Len(s) /\ s[n + i].left \in Nat
    BY <1>1, <1>6, <1>7 DEF Answer
  <2>3. s[n + i].left <= ChallengeDelay /\ ChallengeDelay \in Nat
    BY <2>2, SimulatorAssumption DEF Ordered, s
  <2>4. rest[i].left <= ChallengeDelay
    BY <1>6, <2>2, <2>3
  <2>5. ASSUME NEW j \in 1 .. Len(rest), i < j
        PROVE  rest[i].left <= rest[j].left
    <3>1. j \in 1 .. Len(s) - n /\ n + j \in 1 .. Len(s) /\ s[n + j].left \in Nat
      BY <1>1, <1>6, <1>7 DEF Answer
    <3>2. n + i < n + j
      BY <1>2, <2>2, <2>5, <3>1
    <3>3. s[n + i].left <= s[n + j].left
      BY <2>2, <3>1, <3>2 DEF Ordered, s
    <3>4. QED
      BY <1>6, <2>2, <3>1, <3>3
  <2>6. QED
    BY <2>4, <2>5
<1>9. QED
  BY <1>3, <1>6, <1>7, <1>8 DEF n, s

\* What device d sends is the outcome of answers that were due.
LEMMA DueEventsType ==
  ASSUME EngineTypes, NEW d \in Devices, NEW elapsed \in Nat
  PROVE  LET sent == DueEvents(d, elapsed)
         IN /\ sent \in Seq(AnswerEvent) /\ Len(sent) <= DueCount(d, elapsed)
            /\ \A i \in 1 .. Len(sent) : /\ i \in 1 .. Len(answers[d])
                                         /\ sent[i].task = answers[d][i].task
                                         /\ sent[i].cause = answers[d][i].cause
<1> DEFINE s == answers[d]
<1> DEFINE n == DueCount(d, elapsed)
<1> DEFINE due == IF status[d] = "CHALLENGED" THEN Due(d, elapsed) ELSE <<>>
<1> DEFINE event(i) ==
      [type |-> IF due[i].passed THEN "CHALLENGE_PASSED" ELSE "CHALLENGE_FAILED",
       number |-> seq[d] + i, kind |-> fp[d], task |-> due[i].task, cause |-> due[i].cause]
<1> DEFINE sent == [i \in DOMAIN due |-> event(i)]
<1>1. /\ s \in Seq(Answer) /\ Len(s) \in Nat /\ \A i \in 1 .. Len(s) : s[i] \in Answer
      /\ seq[d] \in Nat /\ fp[d] \in Fingerprints
  BY DEF EngineTypes, SimulatorTypeOK
<1>2. n \in 0 .. Len(s) /\ n \in Nat
  <2>1. n \in 0 .. Len(s)
    BY <1>1, DueFirst
  <2>2. QED
    BY <1>1, <2>1
<1>3. DueEvents(d, elapsed) = sent
  BY DEF DueEvents
<1>4. /\ due \in Seq(Answer) /\ Len(due) <= n
      /\ \A i \in 1 .. Len(due) : due[i] = s[i]
  <2>1. /\ SubSeq(s, 1, n) \in Seq(Answer) /\ Len(SubSeq(s, 1, n)) = n
        /\ \A i \in 1 .. n : SubSeq(s, 1, n)[i] = s[i]
    BY <1>1, <1>2, PrefixAndRest
  <2>2. CASE status[d] = "CHALLENGED"
    BY <1>2, <2>1, <2>2 DEF Due
  <2>3. CASE status[d] # "CHALLENGED"
    BY <1>2, <2>3
  <2>4. QED
    BY <2>2, <2>3
<1> HIDE DEF s, n, due
<1>5. DOMAIN due = 1 .. Len(due) /\ Len(due) \in Nat
  BY <1>4
<1>6. ASSUME NEW i \in 1 .. Len(due)
      PROVE  /\ i \in 1 .. Len(s)
             /\ event(i) \in AnswerEvent
             /\ event(i).task = s[i].task /\ event(i).cause = s[i].cause
  <2>1. i \in 1 .. Len(s) /\ i \in Nat /\ 1 <= i
    BY <1>1, <1>2, <1>4, <1>5
  <2>2. due[i] \in Answer /\ due[i] = s[i]
    BY <1>4
  <2>3. due[i].task \in Numbers /\ due[i].cause \in CommandId
    BY <2>2 DEF Answer
  <2>4. seq[d] + i \in Numbers
    BY <1>1, <2>1 DEF Numbers
  <2>5. event(i) \in AnswerEvent
    BY <1>1, <2>3, <2>4 DEF AnswerEvent
  <2>6. QED
    BY <2>1, <2>2, <2>5
<1>7. sent \in [1 .. Len(due) -> AnswerEvent] /\ \A i \in 1 .. Len(due) : sent[i] = event(i)
  BY <1>5, <1>6
<1> HIDE DEF sent
<1>8. sent \in Seq(AnswerEvent) /\ Len(sent) = Len(due)
  BY <1>5, <1>7
<1>9. QED
  BY <1>3, <1>4, <1>6, <1>7, <1>8 DEF n, s

LEMMA LeastType ==
  ASSUME NEW a \in Nat, NEW b \in Nat
  PROVE  Least(a, b) \in 0 .. b /\ Most(a, b) \in Nat
BY DEF Least, Most

LEMMA BeginTickTypes ==
  ASSUME EngineTypes, NEW elapsed \in Nat, BeginTick(elapsed)
  PROVE  EngineTypes'
<1>1. tokens' \in Nat
  <2>1. tokens \in Nat /\ rate \in Nat
    BY SimulatorAssumption DEF EngineTypes, SimulatorTypeOK
  <2>2. rate * elapsed \in Nat /\ MinBucket \in Nat
    BY <2>1, SimulatorAssumption
  <2>3. tokens + rate * elapsed \in Nat /\ Most(MinBucket, rate) \in Nat
    <3>1. \A more \in Nat : tokens + more \in Nat
      BY <2>1
    <3>2. QED
      BY <2>1, <2>2, <3>1 DEF Most
  <2>4. Least(tokens + rate * elapsed, Most(MinBucket, rate)) \in Nat
    BY <2>3 DEF Least
  <2>5. QED
    BY <2>1, <2>4 DEF BeginTick, Refill
<1>2. waited' \in [Devices -> 0 .. PendingTimeout]
  <2>1. waited \in [Devices -> 0 .. PendingTimeout] /\ PendingTimeout \in Nat
    BY SimulatorAssumption DEF EngineTypes, SimulatorTypeOK
  <2>2. \A d \in Devices : waited[d] + elapsed \in Nat
    BY <2>1
  <2>3. \A d \in Devices : Least(waited[d] + elapsed, PendingTimeout) \in 0 .. PendingTimeout
    BY <2>1, <2>2, LeastType
  <2>4. 0 \in 0 .. PendingTimeout
    BY <2>1
  <2>5. QED
    BY <2>3, <2>4 DEF BeginTick
<1>3. answers' \in [Devices -> Seq(Answer)] /\ \A d \in Devices : Ordered(answers'[d])
  <2>1. \A d \in Devices : Later(d, elapsed) \in Seq(Answer) /\ Ordered(Later(d, elapsed))
    BY LaterType DEF EngineTypes, SimulatorTypeOK
  <2>2. answers' = [d \in Devices |-> Later(d, elapsed)]
    BY DEF BeginTick
  <2>3. QED
    BY <2>1, <2>2
<1>4. seq' \in [Devices -> Nat]
  <2>1. \A d \in Devices : DueEvents(d, elapsed) \in Seq(AnswerEvent)
    BY DueEventsType
  <2>2. \A d \in Devices : Len(DueEvents(d, elapsed)) \in Nat
    BY <2>1
  <2>3. seq' = [d \in Devices |-> seq[d] + Len(DueEvents(d, elapsed))] /\ seq \in [Devices -> Nat]
    BY DEF BeginTick, EngineTypes, SimulatorTypeOK
  <2>4. QED
    BY <2>2, <2>3
<1>5. (/\ running \in BOOLEAN /\ ticking \in BOOLEAN /\ rate \in Rates
       /\ injected \in Seq(Scenarios) /\ Len(injected) <= MaxInjected
       /\ status \in [Devices -> Status] /\ fp \in [Devices -> Fingerprints]
       /\ seen \in Seq(CommandId) /\ Len(seen) <= DedupeCapacity)'
  BY DEF BeginTick, EngineTypes, SimulatorTypeOK
<1>6. QED
  BY <1>1, <1>2, <1>3, <1>4, <1>5 DEF EngineTypes, SimulatorTypeOK, Ordered

LEMMA SpendTypes ==
  ASSUME EngineTypes, SpendToken
  PROVE  tokens' \in Nat /\ injected' \in Seq(Scenarios) /\ Len(injected') <= MaxInjected
<1>1. tokens \in Nat /\ Token \in Nat /\ injected \in Seq(Scenarios) /\ Len(injected) <= MaxInjected
      /\ MaxInjected \in Nat
  BY SimulatorAssumption DEF EngineTypes, SimulatorTypeOK
<1>2. tokens' \in Nat
  BY <1>1 DEF SpendToken
<1>3. injected # <<>> => Tail(injected) \in Seq(Scenarios) /\ Len(Tail(injected)) = Len(injected) - 1
  BY <1>1
<1>4. injected' = IF injected # <<>> THEN Tail(injected) ELSE injected
  BY DEF SpendToken
<1>5. QED
  BY <1>1, <1>2, <1>3, <1>4

LEMMA PlanType ==
  ASSUME EngineTypes, NEW scenario \in Drawable, NEW plan \in FeasiblePlans(scenario)
  PROVE  /\ plan.device \in Devices /\ plan.kind \in Fingerprints
         /\ plan.type \in {"ENROL_REQUESTED", "UNENROL_REQUESTED"}
<1>1. scenario \in Scenarios
  BY DEF EngineTypes, SimulatorTypeOK, Drawable, Scenarios
<1>2. fp \in [Devices -> Fingerprints]
  BY DEF EngineTypes, SimulatorTypeOK
<1>3. \A p \in UnenrolPlans : /\ p.device \in Devices /\ p.kind \in Fingerprints
                              /\ p.type = "UNENROL_REQUESTED"
  BY <1>2 DEF UnenrolPlans
<1>4. \A m \in Mix : Kind[m] \in Fingerprints
  BY DEF Mix, Kind, Fingerprints
<1>5. ASSUME NEW m \in Mix
      PROVE  \A p \in EnrolPlans(Kind[m]) : /\ p.device \in Devices /\ p.kind \in Fingerprints
                                            /\ p.type = "ENROL_REQUESTED"
  <2>1. Kind[m] \in Fingerprints
    BY <1>4
  <2>2. Enrollable \subseteq Devices
    BY DEF Enrollable
  <2>3. QED
    BY <2>1, <2>2 DEF EnrolPlans
<1>6. "CLEAN" \in Mix
  BY DEF Mix, Kind
<1>7. ASSUME NEW m \in Scenarios
      PROVE  \A p \in Plans(m) : /\ p.device \in Devices /\ p.kind \in Fingerprints
                                 /\ p.type \in {"ENROL_REQUESTED", "UNENROL_REQUESTED"}
  <2>1. CASE Plans(m) = UnenrolPlans
    BY <1>3, <2>1
  <2>2. CASE Plans(m) # UnenrolPlans
    <3>1. m \in Mix /\ Plans(m) = EnrolPlans(Kind[m])
      BY <2>2 DEF Plans, Scenarios
    <3>2. QED
      BY <1>5, <3>1
  <2>3. QED
    BY <2>1, <2>2
<1>8. "CLEAN" \in Scenarios
  BY <1>6 DEF Scenarios
<1>9. QED
  BY <1>1, <1>7, <1>8 DEF FeasiblePlans

LEMMA RequestTypes ==
  ASSUME EngineTypes, NEW scenario \in Drawable, NEW plan \in FeasiblePlans(scenario), Request(plan)
  PROVE  EngineTypes' /\ Requested(plan) \in RequestEvent
<1>1. /\ plan.device \in Devices /\ plan.kind \in Fingerprints
      /\ plan.type \in {"ENROL_REQUESTED", "UNENROL_REQUESTED"}
  BY PlanType
<1>2. tokens' \in Nat /\ injected' \in Seq(Scenarios) /\ Len(injected') <= MaxInjected
  BY SpendTypes DEF Request
<1>3. status' \in [Devices -> Status] /\ waited' \in [Devices -> 0 .. PendingTimeout]
      /\ fp' \in [Devices -> Fingerprints] /\ seq' \in [Devices -> Nat]
  <2>1. "PENDING" \in Status /\ 0 \in 0 .. PendingTimeout
    BY SimulatorAssumption DEF Status
  <2>2. QED
    BY <1>1, <2>1 DEF Request, EngineTypes, SimulatorTypeOK
<1>4. (/\ running \in BOOLEAN /\ ticking \in BOOLEAN /\ rate \in Rates
       /\ answers \in [Devices -> Seq(Answer)]
       /\ seen \in Seq(CommandId) /\ Len(seen) <= DedupeCapacity)'
  BY DEF Request, EngineTypes, SimulatorTypeOK
<1>5. EngineTypes'
  BY <1>2, <1>3, <1>4 DEF Request, EngineTypes, SimulatorTypeOK, Ordered
<1>6. seq[plan.device] + 1 \in Numbers
  BY <1>1 DEF EngineTypes, SimulatorTypeOK, Numbers
<1>7. QED
  BY <1>1, <1>5, <1>6 DEF Requested, RequestEvent

LEMMA FinishTickTypes ==
  ASSUME EngineTypes, FinishTick
  PROVE  EngineTypes'
<1>1. CASE SkipToken
  <2>1. tokens' \in Nat /\ injected' \in Seq(Scenarios) /\ Len(injected') <= MaxInjected
    BY <1>1, SpendTypes DEF SkipToken
  <2>2. QED
    BY <1>1, <2>1 DEF SkipToken, SpendToken, EngineTypes, SimulatorTypeOK, Ordered
<1>2. CASE EndTick
  BY <1>2 DEF EndTick, EngineTypes, SimulatorTypeOK, Ordered
<1>3. QED
  BY <1>1, <1>2 DEF FinishTick

LEMMA FreshTypes ==
  ASSUME EngineTypes, Fresh
  PROVE  EngineTypes'
<1>1. status' \in [Devices -> Status] /\ fp' \in [Devices -> Fingerprints]
  BY DEF Fresh, Status, Fingerprints
<1>2. waited' \in [Devices -> 0 .. PendingTimeout]
  BY SimulatorAssumption DEF Fresh
<1>3. /\ injected' \in Seq(Scenarios) /\ Len(injected') <= MaxInjected
      /\ answers' \in [Devices -> Seq(Answer)]
      /\ seen' \in Seq(CommandId) /\ Len(seen') <= DedupeCapacity
  BY SimulatorAssumption DEF Fresh
<1>4. \A d \in Devices : Ordered(answers'[d])
  BY DEF Fresh, Ordered
<1>5. (/\ running \in BOOLEAN /\ ticking \in BOOLEAN /\ rate \in Rates /\ tokens \in Nat
       /\ seq \in [Devices -> Nat])'
  BY SimulatorAssumption DEF Fresh, EngineTypes, SimulatorTypeOK
<1>6. QED
  BY <1>1, <1>2, <1>3, <1>4, <1>5 DEF EngineTypes, SimulatorTypeOK, Ordered

-----------------------------------------------------------------------------
(* Grounds of what is requested, ordered and resumed *)

Challenged(d, task) == [of |-> task] \in Range(requests["step-up"][d])
Clean(d, task) == \E e \in Range(events[d]) : e.number >= task /\ e.kind # "ROOTED"

CommandGrounds(d, c) ==
  /\ c.action = "CHALLENGE" => Challenged(d, c.task)
  /\ c.action \in {"ALLOW", "READ_ONLY", "CHALLENGE"} => Clean(d, c.task)

RequestGrounds(agent, d, r) ==
  /\ agent = "enrolment" /\ r.type = "RESOLVE_CHALLENGE" => Challenged(d, r.task)
  /\ agent = "step-up" => Clean(d, r.of)

\* Every command, pending answer, answered challenge and request has its grounds.
Grounds ==
  \A d \in Devices :
    /\ \A c \in Range(commands[d]) : CommandGrounds(d, c)
    /\ \A a \in Range(answers[d]) : Challenged(d, a.task)
    /\ \A e \in Range(events[d]) : e \in AnswerEvent => Challenged(d, e.task)
    /\ \A agent \in Agents : \A r \in Range(requests[agent][d]) : RequestGrounds(agent, d, r)

\* What a step of an agent may do: it sends one request or orders one command,
\* with its grounds, or gives nothing out.
Output(d) ==
  /\ UNCHANGED untouched
  /\ handled' \in [Agents -> [Devices -> Nat]]
  /\ \A a \in Agents, e \in Devices : handled'[a][e] <= Len(requests[a][e])
  /\ faults' \in {faults, faults + 1} /\ faults' <= MaxFaults
  /\ \/ UNCHANGED <<requests, commands>>
     \/ \E a \in Agents : \E r \in RequestsOf(a) :
          Send(a, d, r) /\ RequestGrounds(a, d, r) /\ UNCHANGED commands
     \/ \E c \in Command :
          /\ commands' = [commands EXCEPT ![d] = Append(@, c)]
          /\ CommandGrounds(d, c) /\ UNCHANGED requests

LEMMA FaultBound ==
  ASSUME BoundTypes, NEW kind, Fault(kind)
  PROVE  faults' = faults + 1 /\ faults' <= MaxFaults
<1>1. faults \in Nat /\ faults < MaxFaults /\ faults' = faults + 1 /\ MaxFaults \in Nat
  BY FlowAssumption DEF BoundTypes, Fault
<1>2. QED
  BY <1>1

LEMMA NextRequest ==
  ASSUME TopicTypes, NEW agent \in Agents, NEW d \in Devices, HasRequest(agent, d)
  PROVE  /\ Next1(agent, d) \in RequestsOf(agent)
         /\ Next1(agent, d) \in Range(requests[agent][d])
         /\ Next1(agent, d).of \in Numbers
<1>1. /\ requests[agent][d] \in Seq(RequestsOf(agent)) /\ handled[agent][d] \in Nat
      /\ handled[agent][d] < Len(requests[agent][d]) /\ Len(requests[agent][d]) \in Nat
  BY DEF TopicTypes, HasRequest
<1>2. handled[agent][d] + 1 \in 1 .. Len(requests[agent][d])
  BY <1>1
<1>3. /\ Next1(agent, d) \in RequestsOf(agent)
      /\ Next1(agent, d) \in Range(requests[agent][d])
  BY <1>1, <1>2, ElementInRange DEF Next1
<1>4. \A r \in RequestsOf(agent) : r.of \in Numbers
  BY DEF RequestsOf, RiskRequest, DecideRequest, RemoveRequest, ResolveRequest
<1>5. QED
  BY <1>3, <1>4

LEMMA PassesType ==
  ASSUME FlowTypes, NEW agent \in Agents, NEW d \in Devices, HasRequest(agent, d), Passes(agent, d)
  PROVE  /\ handled' \in [Agents -> [Devices -> Nat]]
         /\ \A a \in Agents, e \in Devices : handled'[a][e] <= Len(requests[a][e])
         /\ faults' \in {faults, faults + 1} /\ faults' <= MaxFaults
<1>1. /\ handled \in [Agents -> [Devices -> Nat]]
      /\ \A a \in Agents, e \in Devices : handled[a][e] <= Len(requests[a][e]) /\ Len(requests[a][e]) \in Nat
      /\ handled[agent][d] < Len(requests[agent][d])
  BY DEF FlowTypes, TopicTypes, HasRequest
<1>2. CASE handled' = [handled EXCEPT ![agent][d] = @ + 1] /\ UNCHANGED faults
  <2>1. faults' = faults /\ faults' <= MaxFaults
    BY <1>2, FlowAssumption DEF FlowTypes, BoundTypes
  <2>2. handled' \in [Agents -> [Devices -> Nat]]
    BY <1>1, <1>2
  <2>3. \A a \in Agents, e \in Devices :
          handled'[a][e] = IF a = agent /\ e = d THEN handled[agent][d] + 1 ELSE handled[a][e]
    BY <1>1, <1>2
  <2>4. handled[agent][d] + 1 <= Len(requests[agent][d])
    BY <1>1
  <2>5. QED
    BY <1>1, <2>1, <2>2, <2>3, <2>4
<1>3. CASE Fault("repeat") /\ UNCHANGED handled
  <2>1. faults' = faults + 1 /\ faults' <= MaxFaults
    BY <1>3, FaultBound DEF FlowTypes
  <2>2. QED
    BY <1>1, <1>3, <2>1
<1>4. QED
  BY <1>2, <1>3 DEF Passes

LEMMA FailTaskOutput ==
  ASSUME FlowTypes, NEW agent \in Agents, NEW d \in Devices, FailTask(agent, d)
  PROVE  Output(d)
<1>1. /\ handled \in [Agents -> [Devices -> Nat]]
      /\ \A a \in Agents, e \in Devices : handled[a][e] <= Len(requests[a][e]) /\ Len(requests[a][e]) \in Nat
      /\ handled[agent][d] < Len(requests[agent][d])
      /\ handled' = [handled EXCEPT ![agent][d] = @ + 1]
  BY DEF FlowTypes, TopicTypes, HasRequest, FailTask
<1>2. \A a \in Agents, e \in Devices :
        handled'[a][e] = IF a = agent /\ e = d THEN handled[agent][d] + 1 ELSE handled[a][e]
  BY <1>1
<1>3. /\ handled' \in [Agents -> [Devices -> Nat]]
      /\ \A a \in Agents, e \in Devices : handled'[a][e] <= Len(requests[a][e])
  BY <1>1, <1>2
<1>4. faults' = faults + 1 /\ faults' <= MaxFaults
  BY FaultBound DEF FlowTypes, FailTask, Loss
<1>5. QED
  BY <1>3, <1>4 DEF Output, FailTask

LEMMA AssessOutput ==
  ASSUME FlowTypes, NEW d \in Devices, Assess(d)
  PROVE  Output(d)
<1>1. "risk" \in Agents /\ "enrolment" \in Agents /\ HasRequest("risk", d) /\ Passes("risk", d)
  BY DEF Agents, Assess
<1>2. PICK risky \in BOOLEAN :
        Send("enrolment", d, [type |-> "DECIDE_ENROLMENT", of |-> Next1("risk", d).of, risky |-> risky])
  BY DEF Assess
<1> DEFINE r == [type |-> "DECIDE_ENROLMENT", of |-> Next1("risk", d).of, risky |-> risky]
<1>3. Next1("risk", d).of \in Numbers
  BY <1>1, NextRequest DEF FlowTypes
<1>4. r \in RequestsOf("enrolment") /\ r.type = "DECIDE_ENROLMENT"
  BY <1>3 DEF RequestsOf, DecideRequest
<1>5. RequestGrounds("enrolment", d, r)
  BY <1>4 DEF RequestGrounds
<1>6. UNCHANGED untouched /\ UNCHANGED commands
  BY DEF Assess
<1> HIDE DEF r
<1>7. \E a \in Agents : \E q \in RequestsOf(a) :
        Send(a, d, q) /\ RequestGrounds(a, d, q) /\ UNCHANGED commands
  BY <1>1, <1>2, <1>4, <1>5, <1>6 DEF r
<1>8. QED
  BY <1>1, <1>6, <1>7, PassesType DEF Output

LEMMA OrderIsCommand ==
  ASSUME NEW d \in Devices, NEW by \in {"guardrail", "model", "step-up", "remove", "resolve"},
         NEW of \in Numbers, NEW action \in Actions, NEW task \in Numbers, Order(d, by, of, action, task)
  PROVE  \E c \in Command : /\ commands' = [commands EXCEPT ![d] = Append(@, c)]
                            /\ c.action = action /\ c.task = task
<1> DEFINE id == [by |-> by, device |-> d, of |-> of]
<1> DEFINE c == [id |-> id, action |-> action, task |-> task]
<1>1. id \in CommandId
  BY DEF CommandId
<1>2. c \in Command
  BY <1>1 DEF Command
<1>3. commands' = [commands EXCEPT ![d] = Append(@, c)]
  BY DEF Order
<1>4. c.action = action /\ c.task = task
  OBVIOUS
<1>5. QED
  BY <1>2, <1>3, <1>4

\* _decide: what is not denied rests on the row it was decided on.
LEMMA DecideOutput ==
  ASSUME FlowTypes, NEW d \in Devices, Decide(d)
  PROVE  Output(d)
<1> DEFINE r == Next1("enrolment", d)
<1>1. /\ "enrolment" \in Agents /\ "step-up" \in Agents
      /\ HasRequest("enrolment", d) /\ Passes("enrolment", d) /\ UNCHANGED untouched
  BY DEF Agents, Decide, Meets
<1>2. r.of \in Numbers
  BY <1>1, NextRequest DEF FlowTypes
<1>3. PICK by \in {"guardrail", "model"}, decision \in {"GRANT", "GRANT_READ_ONLY", "DENY", "CHALLENGE"} :
        /\ decision # "DENY" => Clean(d, r.of)
        /\ IF decision = "CHALLENGE" THEN Send("step-up", d, [of |-> r.of]) /\ UNCHANGED commands
           ELSE Order(d, by, r.of, ActionOf[decision], r.of) /\ UNCHANGED requests
  <2> DEFINE Enact(by, decision) ==
        IF decision = "CHALLENGE" THEN Send("step-up", d, [of |-> r.of]) /\ UNCHANGED commands
        ELSE Order(d, by, r.of, ActionOf[decision], r.of) /\ UNCHANGED requests
  <2>1. PICK row \in Rows(d, r.of), compromised \in MayBeCompromised(d), trusted \in MayBeTrusted(d) :
          \/ \E decision \in PreLlm(row, compromised, trusted) : Enact("guardrail", decision)
          \/ /\ PreLlm(row, compromised, trusted) = {}
             /\ \E answer \in ModelAnswers : Enact("model", Bound(answer, r))
    BY DEF Decide
  <2>2. row.kind # "ROOTED" => Clean(d, r.of)
    BY DEF Rows, Clean
  <2>3. CASE \E decision \in PreLlm(row, compromised, trusted) : Enact("guardrail", decision)
    <3>1. PICK decision \in PreLlm(row, compromised, trusted) : Enact("guardrail", decision)
      BY <2>3
    <3>2. decision \in {"GRANT", "DENY"} /\ (decision # "DENY" => row.kind # "ROOTED")
      BY DEF PreLlm
    <3>3. QED
      BY <2>2, <3>1, <3>2
  <2>4. CASE /\ PreLlm(row, compromised, trusted) = {}
             /\ \E answer \in ModelAnswers : Enact("model", Bound(answer, r))
    <3>1. PICK answer \in ModelAnswers : Enact("model", Bound(answer, r))
      BY <2>4
    <3>2. row.kind # "ROOTED"
      BY <2>4 DEF PreLlm
    <3>3. Bound(answer, r) \in {"GRANT", "GRANT_READ_ONLY", "DENY", "CHALLENGE"}
      BY FlowAssumption DEF Bound
    <3>4. QED
      BY <2>2, <3>1, <3>2, <3>3
  <2>5. QED
    BY <2>1, <2>3, <2>4
<1> HIDE DEF r
<1>4. \/ \E a \in Agents : \E q \in RequestsOf(a) :
           Send(a, d, q) /\ RequestGrounds(a, d, q) /\ UNCHANGED commands
      \/ \E c \in Command :
           /\ commands' = [commands EXCEPT ![d] = Append(@, c)]
           /\ CommandGrounds(d, c) /\ UNCHANGED requests
  <2>1. CASE decision = "CHALLENGE"
    <3> DEFINE q == [of |-> r.of]
    <3>1. q \in RequestsOf("step-up") /\ q.of = r.of
      BY <1>2 DEF RequestsOf, RiskRequest
    <3>2. RequestGrounds("step-up", d, q)
      BY <1>3, <2>1, <3>1 DEF RequestGrounds
    <3>3. Send("step-up", d, q) /\ UNCHANGED commands
      BY <1>3, <2>1
    <3> HIDE DEF q
    <3>4. QED
      BY <1>1, <3>1, <3>2, <3>3
  <2>2. CASE decision # "CHALLENGE"
    <3>1. ActionOf[decision] \in {"ALLOW", "READ_ONLY", "BLOCK"} /\ (decision = "DENY" => ActionOf[decision] = "BLOCK")
      BY <2>2 DEF ActionOf
    <3>2. ActionOf[decision] \in Actions
      BY <3>1 DEF Actions
    <3>3. PICK c \in Command : /\ commands' = [commands EXCEPT ![d] = Append(@, c)]
                               /\ c.action = ActionOf[decision] /\ c.task = r.of
      BY <1>2, <1>3, <2>2, <3>2, OrderIsCommand
    <3>4. CommandGrounds(d, c)
      BY <1>3, <3>1, <3>3 DEF CommandGrounds
    <3>5. QED
      BY <1>3, <2>2, <3>3, <3>4
  <2>3. QED
    BY <2>1, <2>2
<1>5. QED
  BY <1>1, <1>4, PassesType DEF Output

LEMMA RemoveTrustOutput ==
  ASSUME FlowTypes, NEW d \in Devices, RemoveTrust(d)
  PROVE  Output(d)
<1> DEFINE n == Next1("enrolment", d).of
<1>1. /\ "enrolment" \in Agents /\ HasRequest("enrolment", d) /\ Passes("enrolment", d)
      /\ UNCHANGED untouched /\ UNCHANGED requests /\ Order(d, "remove", n, "UNENROLLED", n)
  BY DEF Agents, RemoveTrust, Meets
<1>2. n \in Numbers
  BY <1>1, NextRequest DEF FlowTypes
<1> HIDE DEF n
<1>3. PICK c \in Command : /\ commands' = [commands EXCEPT ![d] = Append(@, c)]
                           /\ c.action = "UNENROLLED" /\ c.task = n
  BY <1>1, <1>2, OrderIsCommand DEF Actions
<1>4. CommandGrounds(d, c)
  BY <1>3 DEF CommandGrounds
<1>5. QED
  BY <1>1, <1>3, <1>4, PassesType DEF Output

\* _resolve: the task was challenged, so it had clean grounds.
LEMMA ResolveOutput ==
  ASSUME FlowTypes, Grounds, NEW d \in Devices, Resolve(d)
  PROVE  Output(d)
<1> DEFINE r == Next1("enrolment", d)
<1> DEFINE action == IF r.passed THEN "ALLOW" ELSE "BLOCK"
<1>1. /\ "enrolment" \in Agents /\ "step-up" \in Agents
      /\ HasRequest("enrolment", d) /\ Passes("enrolment", d) /\ r.type = "RESOLVE_CHALLENGE"
      /\ UNCHANGED untouched /\ UNCHANGED requests /\ Order(d, "resolve", r.of, action, r.task)
  BY DEF Agents, Resolve, Meets
<1>2. /\ r \in RequestsOf("enrolment") /\ r \in Range(requests["enrolment"][d]) /\ r.of \in Numbers
  BY <1>1, NextRequest DEF FlowTypes
<1>3. r.task \in Numbers
  BY <1>1, <1>2 DEF RequestsOf, DecideRequest, RemoveRequest, ResolveRequest
<1>4. [of |-> r.task] \in Range(requests["step-up"][d])
  BY <1>1, <1>2 DEF Grounds, RequestGrounds, Challenged
<1>5. RequestGrounds("step-up", d, [of |-> r.task])
  BY <1>1, <1>4 DEF Grounds
<1>6. Clean(d, r.task)
  BY <1>5 DEF RequestGrounds
<1>7. action \in Actions /\ action # "CHALLENGE"
  BY DEF Actions
<1> HIDE DEF r, action
<1>8. PICK c \in Command : /\ commands' = [commands EXCEPT ![d] = Append(@, c)]
                           /\ c.action = action /\ c.task = r.task
  BY <1>1, <1>2, <1>3, <1>7, OrderIsCommand
<1>9. CommandGrounds(d, c)
  BY <1>6, <1>7, <1>8 DEF CommandGrounds
<1>10. QED
  BY <1>1, <1>8, <1>9, PassesType DEF Output

LEMMA ChallengeOutput ==
  ASSUME FlowTypes, Grounds, NEW d \in Devices, Challenge(d)
  PROVE  Output(d)
<1> DEFINE n == Next1("step-up", d).of
<1>1. /\ "step-up" \in Agents /\ HasRequest("step-up", d) /\ Passes("step-up", d)
      /\ UNCHANGED untouched /\ UNCHANGED requests /\ Order(d, "step-up", n, "CHALLENGE", n)
  BY DEF Agents, Challenge
<1>2. /\ Next1("step-up", d) \in RequestsOf("step-up") /\ n \in Numbers
      /\ Next1("step-up", d) \in Range(requests["step-up"][d])
  BY <1>1, NextRequest DEF FlowTypes
<1>3. Next1("step-up", d) = [of |-> n]
  BY <1>2 DEF RequestsOf, RiskRequest
<1>4. Challenged(d, n)
  BY <1>2, <1>3 DEF Challenged
<1>5. Clean(d, n)
  BY <1>1, <1>2 DEF Grounds, RequestGrounds
<1> HIDE DEF n
<1>6. PICK c \in Command : /\ commands' = [commands EXCEPT ![d] = Append(@, c)]
                           /\ c.action = "CHALLENGE" /\ c.task = n
  BY <1>1, <1>2, OrderIsCommand DEF Actions
<1>7. CommandGrounds(d, c)
  BY <1>4, <1>5, <1>6 DEF CommandGrounds
<1>8. QED
  BY <1>1, <1>6, <1>7, PassesType DEF Output

LEMMA LateOutputIsOutput ==
  ASSUME FlowTypes, Grounds, NEW d \in Devices, LateOutput(d)
  PROVE  Output(d)
<1>1. /\ UNCHANGED untouched /\ UNCHANGED handled /\ "enrolment" \in Agents /\ "step-up" \in Agents
      /\ handled \in [Agents -> [Devices -> Nat]]
      /\ \A a \in Agents, e \in Devices : handled[a][e] <= Len(requests[a][e])
  BY DEF LateOutput, FlowTypes, TopicTypes, Agents
<1>2. faults' = faults + 1 /\ faults' <= MaxFaults
  BY FaultBound DEF LateOutput, FlowTypes
<1>3. /\ commands[d] \in Seq(Command)
      /\ \A a \in Agents : requests[a][d] \in Seq(RequestsOf(a))
  BY DEF FlowTypes, TopicTypes
<1>4. /\ \A c \in Range(commands[d]) : c \in Command /\ CommandGrounds(d, c)
      /\ \A a \in Agents : \A r \in Range(requests[a][d]) : r \in RequestsOf(a) /\ RequestGrounds(a, d, r)
  BY <1>3 DEF Range, Grounds
<1>5. \/ \E c \in Range(commands[d]) : /\ commands' = [commands EXCEPT ![d] = Append(@, c)]
                                       /\ UNCHANGED requests
      \/ \E a \in Agents : \E r \in Range(requests[a][d]) : Send(a, d, r) /\ UNCHANGED commands
  BY <1>1 DEF LateOutput
<1>6. QED
  BY <1>1, <1>2, <1>4, <1>5 DEF Output

LEMMA SendTypes ==
  ASSUME TopicTypes, NEW agent \in Agents, NEW d \in Devices, NEW r \in RequestsOf(agent), Send(agent, d, r)
  PROVE  /\ requests' \in [Agents -> [Devices -> Seq(TaskRequest)]]
         /\ \A a \in Agents, e \in Devices :
              requests'[a][e] \in Seq(RequestsOf(a)) /\ Len(requests[a][e]) <= Len(requests'[a][e])
         /\ \A a \in Agents, e \in Devices : \A q \in Range(requests'[a][e]) :
              q \in Range(requests[a][e]) \/ (a = agent /\ e = d /\ q = r)
         /\ \A a \in Agents, e \in Devices : Range(requests[a][e]) \subseteq Range(requests'[a][e])
<1>1. /\ requests \in [Agents -> [Devices -> Seq(TaskRequest)]]
      /\ \A a \in Agents, e \in Devices : requests[a][e] \in Seq(RequestsOf(a)) /\ Len(requests[a][e]) \in Nat
  BY DEF TopicTypes
<1>2. r \in TaskRequest
  BY DEF RequestsOf, TaskRequest
<1>3. /\ Append(requests[agent][d], r) \in Seq(RequestsOf(agent))
      /\ Len(Append(requests[agent][d], r)) = Len(requests[agent][d]) + 1
      /\ Range(Append(requests[agent][d], r)) = Range(requests[agent][d]) \cup {r}
  BY <1>1, RangeOfAppend
<1>4. Append(requests[agent][d], r) \in Seq(TaskRequest)
  BY <1>1, <1>2
<1>5. requests' = [requests EXCEPT ![agent][d] = Append(requests[agent][d], r)]
  BY DEF Send
<1>6. requests' \in [Agents -> [Devices -> Seq(TaskRequest)]]
  BY <1>1, <1>4, <1>5
<1>7. \A a \in Agents, e \in Devices :
        \/ a = agent /\ e = d /\ requests'[a][e] = Append(requests[agent][d], r)
        \/ requests'[a][e] = requests[a][e]
  BY <1>1, <1>5
<1>8. ASSUME NEW a \in Agents, NEW e \in Devices
      PROVE  /\ requests'[a][e] \in Seq(RequestsOf(a)) /\ Len(requests[a][e]) <= Len(requests'[a][e])
             /\ \A q \in Range(requests'[a][e]) :
                  q \in Range(requests[a][e]) \/ (a = agent /\ e = d /\ q = r)
             /\ Range(requests[a][e]) \subseteq Range(requests'[a][e])
  <2>1. CASE a = agent /\ e = d /\ requests'[a][e] = Append(requests[agent][d], r)
    BY <1>1, <1>3, <2>1
  <2>2. CASE requests'[a][e] = requests[a][e]
    BY <1>1, <2>2
  <2>3. QED
    BY <1>7, <2>1, <2>2
<1>9. QED
  BY <1>6, <1>8

LEMMA OrderTypes ==
  ASSUME TopicTypes, NEW d \in Devices, NEW c \in Command, commands' = [commands EXCEPT ![d] = Append(@, c)]
  PROVE  /\ commands' \in [Devices -> Seq(Command)]
         /\ \A e \in Devices :
              /\ Len(commands[e]) <= Len(commands'[e])
              /\ Range(commands'[e]) = Range(commands[e]) \cup (IF e = d THEN {c} ELSE {})
<1>1. commands \in [Devices -> Seq(Command)] /\ \A e \in Devices : Len(commands[e]) \in Nat
  BY DEF TopicTypes
<1>2. /\ Append(commands[d], c) \in Seq(Command) /\ Len(Append(commands[d], c)) = Len(commands[d]) + 1
      /\ Range(Append(commands[d], c)) = Range(commands[d]) \cup {c}
  BY <1>1, RangeOfAppend
<1>3. \A e \in Devices : commands'[e] = IF e = d THEN Append(commands[d], c) ELSE commands[e]
  BY <1>1
<1>4. QED
  BY <1>1, <1>2, <1>3

LEMMA OutputTypes ==
  ASSUME FlowTypes, NEW d \in Devices, Output(d)
  PROVE  FlowTypes'
<1>1. EngineTypes'
  BY DEF FlowTypes, Output, untouched, engineVars, EngineTypes, SimulatorTypeOK, Ordered
<1>2. BoundTypes'
  <2>1. faults \in Nat /\ life \in 0 .. faults /\ MaxFaults \in Nat
    BY FlowAssumption DEF FlowTypes, BoundTypes
  <2>2. life' = life /\ controls' = controls /\ applied' = applied
        /\ faults' \in {faults, faults + 1} /\ faults' <= MaxFaults
    BY DEF Output, untouched
  <2>3. life' \in 0 .. faults' /\ faults' \in 0 .. MaxFaults
    BY <2>1, <2>2
  <2>4. QED
    BY <2>2, <2>3 DEF FlowTypes, BoundTypes
<1>3. TopicTypes'
  <2>1. /\ requests' \in [Agents -> [Devices -> Seq(TaskRequest)]]
        /\ \A a \in Agents, e \in Devices :
             requests'[a][e] \in Seq(RequestsOf(a)) /\ Len(requests[a][e]) <= Len(requests'[a][e])
    <3>1. CASE UNCHANGED requests
      BY <3>1 DEF FlowTypes, TopicTypes
    <3>2. CASE ~UNCHANGED requests
      <4>1. PICK a \in Agents : \E r \in RequestsOf(a) : Send(a, d, r)
        BY <3>2 DEF Output
      <4>2. PICK r \in RequestsOf(a) : Send(a, d, r)
        BY <4>1
      <4>3. QED
        BY <4>2, SendTypes DEF FlowTypes
    <3>3. QED
      BY <3>1, <3>2
  <2>2. /\ commands' \in [Devices -> Seq(Command)]
        /\ \A e \in Devices : Len(commands[e]) <= Len(commands'[e])
    <3>1. CASE UNCHANGED commands
      BY <3>1 DEF FlowTypes, TopicTypes
    <3>2. CASE ~UNCHANGED commands
      <4>1. PICK c \in Command : commands' = [commands EXCEPT ![d] = Append(@, c)]
        BY <3>2 DEF Output
      <4>2. QED
        BY <4>1, OrderTypes DEF FlowTypes
    <3>3. QED
      BY <3>1, <3>2
  <2>3. UNCHANGED <<events, routed, taken>>
    BY DEF Output, untouched
  <2>4. \A a \in Agents, e \in Devices : handled'[a][e] <= Len(requests'[a][e])
    <3>1. \A a \in Agents, e \in Devices :
            /\ handled'[a][e] \in Nat /\ handled'[a][e] <= Len(requests[a][e])
            /\ Len(requests[a][e]) \in Nat /\ Len(requests'[a][e]) \in Nat
      BY <2>1 DEF Output, FlowTypes, TopicTypes
    <3>2. QED
      BY <2>1, <3>1
  <2>5. \A e \in Devices : taken'[e] <= Len(commands'[e])
    <3>1. \A e \in Devices : /\ taken[e] \in Nat /\ taken[e] <= Len(commands[e])
                             /\ Len(commands[e]) \in Nat /\ Len(commands'[e]) \in Nat
      BY <2>2 DEF FlowTypes, TopicTypes
    <3>2. QED
      BY <2>2, <2>3, <3>1
  <2>6. QED
    BY <2>1, <2>2, <2>3, <2>4, <2>5 DEF Output, FlowTypes, TopicTypes
<1>4. QED
  BY <1>1, <1>2, <1>3 DEF FlowTypes

LEMMA TakenCommand ==
  ASSUME TopicTypes, NEW d \in Devices, taken[d] < Len(commands[d])
  PROVE  /\ commands[d][taken[d] + 1] \in Command
         /\ commands[d][taken[d] + 1] \in Range(commands[d])
<1>1. commands[d] \in Seq(Command) /\ taken[d] \in Nat /\ Len(commands[d]) \in Nat
  BY DEF TopicTypes
<1>2. taken[d] + 1 \in 1 .. Len(commands[d])
  BY <1>1
<1>3. QED
  BY <1>1, <1>2, ElementInRange

LEMMA ConsumeTypes ==
  ASSUME FlowTypes, NEW d \in Devices, Consume(d)
  PROVE  FlowTypes'
<1> DEFINE c == commands[d][taken[d] + 1]
<1>1. /\ taken[d] < Len(commands[d]) /\ taken' = [taken EXCEPT ![d] = @ + 1]
      /\ UNCHANGED <<events, routed, requests, handled, commands, boundVars>>
      /\ \/ UNCHANGED <<engineVars, applied>>
         \/ OnPolicyCommand(d, c) /\ applied' = Append(applied, <<life, c.id>>)
  BY DEF Consume
<1>2. c \in Command /\ c.id \in CommandId
  <2>1. c \in Command
    BY <1>1, TakenCommand DEF FlowTypes
  <2>2. QED
    BY <2>1 DEF Command
<1> HIDE DEF c
<1>3. EngineTypes'
  <2>1. CASE UNCHANGED <<engineVars, applied>>
    BY <2>1 DEF engineVars, FlowTypes, EngineTypes, SimulatorTypeOK, Ordered
  <2>2. CASE OnPolicyCommand(d, c)
    BY <1>2, <2>2, PolicyCommandTypes DEF FlowTypes
  <2>3. QED
    BY <1>1, <2>1, <2>2
<1>4. TopicTypes'
  <2>1. /\ taken \in [Devices -> Nat]
        /\ \A e \in Devices : taken[e] <= Len(commands[e]) /\ Len(commands[e]) \in Nat
    BY DEF FlowTypes, TopicTypes
  <2>2. taken' \in [Devices -> Nat] /\ \A e \in Devices : taken'[e] <= Len(commands[e])
    BY <1>1, <2>1
  <2>3. QED
    BY <1>1, <2>2 DEF FlowTypes, TopicTypes
<1>5. BoundTypes'
  <2>1. life \in Nat /\ applied \in Seq(Nat \X CommandId)
    BY FlowAssumption DEF FlowTypes, BoundTypes
  <2>2. applied' \in Seq(Nat \X CommandId)
    <3>1. <<life, c.id>> \in Nat \X CommandId
      BY <1>2, <2>1
    <3>2. Append(applied, <<life, c.id>>) \in Seq(Nat \X CommandId)
      BY <2>1, <3>1
    <3>3. QED
      BY <1>1, <2>1, <3>2
  <2>3. QED
    BY <1>1, <2>2 DEF FlowTypes, BoundTypes, boundVars
<1>6. QED
  BY <1>3, <1>4, <1>5 DEF FlowTypes

\* Events only accumulate, and everything else of the topics stays.
LEMMA EventsTypes ==
  ASSUME TopicTypes, events' \in [Devices -> Seq(Event)],
         \A d \in Devices : Len(events[d]) <= Len(events'[d]),
         UNCHANGED <<routed, requests, handled, commands, taken>>
  PROVE  TopicTypes'
<1>1. \A d \in Devices : /\ routed[d] \in Nat /\ routed[d] <= Len(events[d])
                         /\ Len(events[d]) \in Nat /\ Len(events'[d]) \in Nat
  BY DEF TopicTypes
<1>2. \A d \in Devices : routed[d] <= Len(events'[d])
  BY <1>1
<1>3. QED
  BY <1>2 DEF TopicTypes

LEMMA TickEvents ==
  ASSUME FlowTypes, NEW elapsed \in Nat, Tick(elapsed)
  PROVE  /\ events' \in [Devices -> Seq(Event)]
         /\ \A d \in Devices :
              \/ events'[d] = events[d]
              \/ /\ events'[d] = events[d] \o DueEvents(d, elapsed)
                 /\ DueEvents(d, elapsed) \in Seq(AnswerEvent) /\ DueEvents(d, elapsed) \in Seq(Event)
         /\ faults' \in {faults, faults + 1} /\ faults' <= MaxFaults
<1>1. PICK lost \in SUBSET {d \in Devices : DueEvents(d, elapsed) # <<>>} :
        /\ events' = [d \in Devices |->
                        IF d \in lost THEN events[d] ELSE events[d] \o DueEvents(d, elapsed)]
        /\ IF lost = {} THEN UNCHANGED faults ELSE \A d \in lost : Loss(d)
  BY DEF Tick
<1>2. \A d \in Devices : DueEvents(d, elapsed) \in Seq(AnswerEvent)
  BY DueEventsType DEF FlowTypes
<1>3. \A d \in Devices : DueEvents(d, elapsed) \in Seq(Event)
  BY <1>2, SeqMonotonic DEF Event
<1>4. \A d \in Devices : events[d] \in Seq(Event) /\ events[d] \o DueEvents(d, elapsed) \in Seq(Event)
  BY <1>3 DEF FlowTypes, TopicTypes
<1>5. events' \in [Devices -> Seq(Event)]
  BY <1>1, <1>4
<1>6. faults' \in {faults, faults + 1} /\ faults' <= MaxFaults
  <2>1. CASE lost = {}
    BY <1>1, <2>1, FlowAssumption DEF FlowTypes, BoundTypes
  <2>2. CASE lost # {}
    <3>1. PICK d \in lost : Loss(d)
      BY <1>1, <2>2
    <3>2. QED
      BY <3>1, FaultBound DEF FlowTypes, Loss
  <2>3. QED
    BY <2>1, <2>2
<1>7. QED
  BY <1>1, <1>2, <1>3, <1>5, <1>6

LEMMA FaultsTypes ==
  ASSUME BoundTypes, faults' \in {faults, faults + 1}, faults' <= MaxFaults,
         UNCHANGED <<applied, life, controls>>
  PROVE  BoundTypes'
<1>1. faults \in Nat /\ life \in 0 .. faults /\ MaxFaults \in Nat
  BY FlowAssumption DEF BoundTypes
<1>2. life' \in 0 .. faults' /\ faults' \in 0 .. MaxFaults
  BY <1>1
<1>3. QED
  BY <1>2 DEF BoundTypes

LEMMA TickTypes ==
  ASSUME FlowTypes, NEW elapsed \in Nat, Tick(elapsed)
  PROVE  FlowTypes'
<1>1. EngineTypes'
  BY BeginTickTypes DEF Tick, FlowTypes
<1>2. /\ events' \in [Devices -> Seq(Event)]
      /\ \A d \in Devices : \/ events'[d] = events[d]
                            \/ /\ events'[d] = events[d] \o DueEvents(d, elapsed)
                               /\ DueEvents(d, elapsed) \in Seq(Event)
      /\ faults' \in {faults, faults + 1} /\ faults' <= MaxFaults
  BY TickEvents
<1>3. \A d \in Devices : Len(events[d]) <= Len(events'[d])
  <2>1. SUFFICES ASSUME NEW d \in Devices PROVE Len(events[d]) <= Len(events'[d])
    OBVIOUS
  <2>2. events[d] \in Seq(Event) /\ Len(events[d]) \in Nat
    BY DEF FlowTypes, TopicTypes
  <2>3. CASE events'[d] = events[d]
    BY <2>2, <2>3
  <2>4. CASE events'[d] = events[d] \o DueEvents(d, elapsed) /\ DueEvents(d, elapsed) \in Seq(Event)
    <3>1. Len(events'[d]) = Len(events[d]) + Len(DueEvents(d, elapsed))
      BY <2>2, <2>4, RangeOfConcat
    <3>2. Len(DueEvents(d, elapsed)) \in Nat
      BY <2>4
    <3>3. QED
      BY <2>2, <3>1, <3>2
  <2>5. QED
    BY <1>2, <2>3, <2>4
<1>4. TopicTypes'
  BY <1>2, <1>3, EventsTypes DEF Tick, FlowTypes
<1>5. BoundTypes'
  BY <1>2, FaultsTypes DEF Tick, FlowTypes
<1>6. QED
  BY <1>1, <1>4, <1>5 DEF FlowTypes

LEMMA EmitEvents ==
  ASSUME FlowTypes, NEW d \in Devices, Emit(d)
  PROVE  /\ EngineTypes' /\ UNCHANGED <<answers, seen>>
         /\ events' \in [Devices -> Seq(Event)]
         /\ \A e \in Devices : \/ events'[e] = events[e]
                               \/ \E r \in RequestEvent : events'[e] = events[e] \o <<r>>
         /\ faults' \in {faults, faults + 1} /\ faults' <= MaxFaults
<1>1. PICK scenario \in Drawable : \E plan \in FeasiblePlans(scenario) :
        plan.device = d /\ Request(plan) /\ Published(d, <<Requested(plan)>>)
  BY DEF Emit
<1>2. PICK plan \in FeasiblePlans(scenario) :
        plan.device = d /\ Request(plan) /\ Published(d, <<Requested(plan)>>)
  BY <1>1
<1>3. EngineTypes' /\ Requested(plan) \in RequestEvent /\ UNCHANGED <<answers, seen>>
  BY <1>2, RequestTypes DEF FlowTypes, Request
<1>4. events \in [Devices -> Seq(Event)]
  BY DEF FlowTypes, TopicTypes
<1>5. CASE events' = [events EXCEPT ![d] = @ \o <<Requested(plan)>>] /\ UNCHANGED faults
  <2>1. Requested(plan) \in Event
    BY <1>3 DEF Event
  <2>2. events[d] \o <<Requested(plan)>> \in Seq(Event)
    BY <1>4, <2>1
  <2>3. events' \in [Devices -> Seq(Event)]
    BY <1>4, <1>5, <2>2
  <2>4. \A e \in Devices : \/ events'[e] = events[e]
                           \/ events'[e] = events[e] \o <<Requested(plan)>>
    BY <1>4, <1>5
  <2>5. faults' = faults /\ faults' <= MaxFaults
    BY <1>5, FlowAssumption DEF FlowTypes, BoundTypes
  <2>6. QED
    BY <1>3, <2>3, <2>4, <2>5
<1>6. CASE Loss(d) /\ UNCHANGED events
  BY <1>3, <1>4, <1>6, FaultBound DEF FlowTypes, Loss
<1>7. QED
  BY <1>2, <1>5, <1>6 DEF Published

LEMMA EmitTypes ==
  ASSUME FlowTypes, NEW d \in Devices, Emit(d)
  PROVE  FlowTypes'
<1>1. /\ EngineTypes' /\ events' \in [Devices -> Seq(Event)]
      /\ \A e \in Devices : \/ events'[e] = events[e]
                            \/ \E r \in RequestEvent : events'[e] = events[e] \o <<r>>
      /\ faults' \in {faults, faults + 1} /\ faults' <= MaxFaults
  BY EmitEvents
<1>2. ASSUME NEW e \in Devices
      PROVE  Len(events[e]) <= Len(events'[e])
  <2>1. events[e] \in Seq(Event) /\ Len(events[e]) \in Nat
    BY DEF FlowTypes, TopicTypes
  <2>2. CASE events'[e] = events[e]
    BY <2>1, <2>2
  <2>3. CASE \E r \in RequestEvent : events'[e] = events[e] \o <<r>>
    <3>1. PICK r \in RequestEvent : events'[e] = events[e] \o <<r>>
      BY <2>3
    <3>2. <<r>> \in Seq(Event) /\ Len(<<r>>) = 1
      BY DEF Event
    <3>3. Len(events'[e]) = Len(events[e]) + 1
      BY <2>1, <3>1, <3>2, RangeOfConcat
    <3>4. QED
      BY <2>1, <3>3
  <2>4. QED
    BY <1>1, <2>2, <2>3
<1>3. TopicTypes'
  BY <1>1, <1>2, EventsTypes DEF Emit, FlowTypes
<1>4. BoundTypes'
  BY <1>1, FaultsTypes DEF Emit, FlowTypes
<1>5. QED
  BY <1>1, <1>3, <1>4 DEF FlowTypes

LEMMA RestartTypes ==
  ASSUME FlowTypes, Restart
  PROVE  FlowTypes'
<1>1. EngineTypes'
  BY FreshTypes DEF Restart, FlowTypes
<1>2. taken' \in [Devices -> Nat] /\ \A d \in Devices : taken'[d] <= Len(commands[d])
  <2>1. \A d \in Devices : /\ taken[d] \in Nat /\ taken[d] <= Len(commands[d])
                           /\ Len(commands[d]) \in Nat
    BY DEF FlowTypes, TopicTypes
  <2>2. CASE \E resumed \in [Devices -> UNION {0 .. taken[d] : d \in Devices}] :
               (\A d \in Devices : resumed[d] <= taken[d]) /\ taken' = resumed
    <3>1. \A d \in Devices : taken'[d] \in Nat /\ taken'[d] <= taken[d]
      BY <2>1, <2>2
    <3>2. taken' \in [Devices -> Nat]
      BY <2>2, <3>1
    <3>3. QED
      BY <2>1, <3>1, <3>2
  <2>3. CASE taken' = [d \in Devices |-> Len(commands[d])]
    BY <2>1, <2>3
  <2>4. QED
    BY <2>2, <2>3 DEF Restart
<1>3. TopicTypes'
  BY <1>2 DEF Restart, FlowTypes, TopicTypes
<1>4. BoundTypes'
  <2>1. faults' = faults + 1 /\ faults' <= MaxFaults
    BY FaultBound DEF Restart, FlowTypes
  <2>2. faults \in Nat /\ life \in 0 .. faults
    BY FlowAssumption DEF FlowTypes, BoundTypes
  <2>3. life' \in 0 .. faults' /\ faults' \in 0 .. MaxFaults
    BY <2>1, <2>2, FlowAssumption DEF Restart
  <2>4. QED
    BY <2>3 DEF Restart, FlowTypes, BoundTypes
<1>5. QED
  BY <1>1, <1>3, <1>4 DEF FlowTypes

LEMMA ControlStep ==
  ASSUME FlowTypes, Control
  PROVE  FlowTypes'
<1>1. controls < MaxControls /\ controls' = controls + 1 /\ UNCHANGED <<topicVars, applied, life, faults>>
  BY DEF Control
<1>2. PICK newRate \in Rates, command \in {"none", "START", "STOP", "INJECT"},
        scenario \in Scenarios, count \in 0 .. MaxInjected - Len(injected) :
          OnControl(newRate, command, scenario, count)
  BY DEF Control
<1>3. EngineTypes'
  BY <1>2, ControlTypes DEF FlowTypes
<1>4. TopicTypes'
  BY <1>1 DEF FlowTypes, TopicTypes, topicVars
<1>5. BoundTypes'
  <2>1. controls \in Nat /\ MaxControls \in Nat
    BY FlowAssumption DEF FlowTypes, BoundTypes
  <2>2. controls' \in 0 .. MaxControls
    BY <1>1, <2>1
  <2>3. QED
    BY <1>1, <2>2 DEF FlowTypes, BoundTypes
<1>6. QED
  BY <1>3, <1>4, <1>5 DEF FlowTypes

LEMMA FinishTickStep ==
  ASSUME FlowTypes, FinishTick
  PROVE  FlowTypes' /\ UNCHANGED <<answers, seen>>
<1>1. EngineTypes'
  BY FinishTickTypes DEF FlowTypes
<1>2. UNCHANGED <<topicVars, applied, boundVars, answers, seen>>
  BY DEF FinishTick, SkipToken, EndTick
<1>3. TopicTypes' /\ BoundTypes'
  BY <1>2 DEF FlowTypes, TopicTypes, BoundTypes, topicVars, boundVars
<1>4. QED
  BY <1>1, <1>2, <1>3 DEF FlowTypes

\* The router makes one task of one event, and gives it the grounds of the event.
LEMMA RoutedTask ==
  ASSUME FlowTypes, Grounds, NEW d \in Devices, Route(d)
  PROVE  \E agent \in Agents : \E r \in RequestsOf(agent) :
           Send(agent, d, r) /\ agent # "step-up" /\ RequestGrounds(agent, d, r)
<1> DEFINE e == events[d][routed[d] + 1]
<1> DEFINE agent == IF e.type = "ENROL_REQUESTED" THEN "risk" ELSE "enrolment"
<1>1. routed[d] < Len(events[d]) /\ Send(agent, d, TaskOf(e))
  BY DEF Route
<1>2. events[d] \in Seq(Event) /\ routed[d] + 1 \in 1 .. Len(events[d])
  <2>1. events[d] \in Seq(Event) /\ routed[d] \in Nat /\ Len(events[d]) \in Nat
    BY DEF FlowTypes, TopicTypes
  <2>2. QED
    BY <1>1, <2>1
<1>3. e \in Event /\ e \in Range(events[d])
  BY <1>2, ElementInRange
<1>4. agent \in Agents /\ agent # "step-up"
  BY DEF Agents
<1> HIDE DEF e
<1>5. TaskOf(e) \in RequestsOf(agent) /\ RequestGrounds(agent, d, TaskOf(e))
  <2>1. CASE e.type = "ENROL_REQUESTED"
    <3>1. e.number \in Numbers /\ agent = "risk"
      BY <1>3, <2>1 DEF Event, RequestEvent, AnswerEvent
    <3>2. TaskOf(e) = [of |-> e.number]
      BY <2>1 DEF TaskOf
    <3>3. TaskOf(e) \in RequestsOf("risk")
      BY <3>1, <3>2 DEF RequestsOf, RiskRequest
    <3>4. RequestGrounds("risk", d, TaskOf(e))
      BY DEF RequestGrounds
    <3>5. QED
      BY <3>1, <3>3, <3>4
  <2>2. CASE e.type = "UNENROL_REQUESTED"
    <3>1. e.number \in Numbers /\ agent = "enrolment"
      BY <1>3, <2>2 DEF Event, RequestEvent, AnswerEvent
    <3>2. TaskOf(e) = [type |-> "REMOVE_TRUST", of |-> e.number]
      BY <2>2 DEF TaskOf
    <3>3. TaskOf(e) \in RemoveRequest /\ TaskOf(e).type = "REMOVE_TRUST"
      BY <3>1, <3>2 DEF RemoveRequest
    <3>4. QED
      BY <3>1, <3>3 DEF RequestsOf, RequestGrounds
  <2>3. CASE e.type \notin {"ENROL_REQUESTED", "UNENROL_REQUESTED"}
    <3>1. e \in AnswerEvent /\ agent = "enrolment"
      BY <1>3, <2>3 DEF Event, RequestEvent
    <3>2. e.number \in Numbers /\ e.task \in Numbers
      BY <3>1 DEF AnswerEvent
    <3>3. TaskOf(e) = [type |-> "RESOLVE_CHALLENGE", of |-> e.number, task |-> e.task,
                       passed |-> e.type = "CHALLENGE_PASSED"]
      BY <2>3 DEF TaskOf
    <3>4. TaskOf(e) \in ResolveRequest /\ TaskOf(e).task = e.task
      BY <3>2, <3>3 DEF ResolveRequest
    <3>5. Challenged(d, e.task)
      BY <1>3, <3>1 DEF Grounds
    <3>6. QED
      BY <3>1, <3>4, <3>5 DEF RequestsOf, RequestGrounds
  <2>4. QED
    BY <2>1, <2>2, <2>3
<1> HIDE DEF agent
<1>6. QED
  BY <1>1, <1>4, <1>5

LEMMA RouteTypes ==
  ASSUME FlowTypes, Grounds, NEW d \in Devices, Route(d)
  PROVE  FlowTypes'
<1>1. /\ routed[d] < Len(events[d]) /\ routed' = [routed EXCEPT ![d] = @ + 1]
      /\ UNCHANGED <<engineVars, events, handled, commands, taken, applied, boundVars>>
  BY DEF Route
<1>2. PICK agent \in Agents : \E r \in RequestsOf(agent) : Send(agent, d, r)
  BY RoutedTask
<1>3. /\ requests' \in [Agents -> [Devices -> Seq(TaskRequest)]]
      /\ \A a \in Agents, e \in Devices :
           requests'[a][e] \in Seq(RequestsOf(a)) /\ Len(requests[a][e]) <= Len(requests'[a][e])
  BY <1>2, SendTypes DEF FlowTypes
<1>4. \A a \in Agents, e \in Devices : handled[a][e] <= Len(requests'[a][e])
  <2>1. SUFFICES ASSUME NEW a \in Agents, NEW e \in Devices
                 PROVE  handled[a][e] <= Len(requests'[a][e])
    OBVIOUS
  <2>2. /\ handled[a][e] \in Nat /\ handled[a][e] <= Len(requests[a][e])
        /\ Len(requests[a][e]) \in Nat
    BY DEF FlowTypes, TopicTypes
  <2>3. Len(requests'[a][e]) \in Nat /\ Len(requests[a][e]) <= Len(requests'[a][e])
    BY <1>3
  <2>4. QED
    BY <2>2, <2>3
<1>5. routed' \in [Devices -> Nat] /\ \A e \in Devices : routed'[e] <= Len(events[e])
  <2>1. routed \in [Devices -> Nat] /\ \A e \in Devices : routed[e] <= Len(events[e]) /\ Len(events[e]) \in Nat
    BY DEF FlowTypes, TopicTypes
  <2>2. QED
    BY <1>1, <2>1
<1>6. TopicTypes'
  BY <1>1, <1>3, <1>4, <1>5 DEF FlowTypes, TopicTypes
<1>7. EngineTypes' /\ BoundTypes'
  BY <1>1 DEF FlowTypes, EngineTypes, BoundTypes, SimulatorTypeOK, Ordered, engineVars, boundVars
<1>8. QED
  BY <1>6, <1>7 DEF FlowTypes

\* A step of the mesh that is one agent's, or the delivery of what it produced.
LEMMA AgentsOutput ==
  ASSUME FlowTypes, Grounds, NEW d \in Devices,
         AgentStep(d) \/ LateOutput(d) \/ \E agent \in Agents : FailTask(agent, d)
  PROVE  Output(d)
BY AssessOutput, DecideOutput, RemoveTrustOutput, ResolveOutput, ChallengeOutput, LateOutputIsOutput,
   FailTaskOutput DEF AgentStep

LEMMA TypesStep ==
  ASSUME FlowTypes, Grounds, [Next]_vars
  PROVE  FlowTypes'
<1>1. CASE UNCHANGED vars
  BY <1>1 DEF vars, engineVars, topicVars, boundVars, FlowTypes, EngineTypes, TopicTypes, BoundTypes,
              SimulatorTypeOK, Ordered
<1>2. CASE Control
  BY <1>2, ControlStep
<1>3. CASE FinishTick
  BY <1>3, FinishTickStep
<1>4. CASE Restart
  BY <1>4, RestartTypes
<1>5. ASSUME NEW elapsed \in 0 .. 1, Tick(elapsed) PROVE FlowTypes'
  BY <1>5, TickTypes
<1>6. ASSUME NEW d \in Devices, Consume(d) PROVE FlowTypes'
  BY <1>6, ConsumeTypes
<1>7. ASSUME NEW d \in Devices, Emit(d) PROVE FlowTypes'
  BY <1>7, EmitTypes
<1>8. ASSUME NEW d \in Devices, Route(d) PROVE FlowTypes'
  BY <1>8, RouteTypes
<1>9. ASSUME NEW d \in Devices, AgentStep(d) \/ LateOutput(d) \/ \E agent \in Agents : FailTask(agent, d)
      PROVE FlowTypes'
  BY <1>9, AgentsOutput, OutputTypes
<1>10. QED
  BY <1>1, <1>2, <1>3, <1>4, <1>5, <1>6, <1>7, <1>8, <1>9 DEF Next

-----------------------------------------------------------------------------
(* Grounds: nothing that was a ground is taken back *)

LEMMA GroundsKept ==
  ASSUME Grounds,
         \A d \in Devices :
           /\ Range(events[d]) \subseteq Range(events'[d])
           /\ Range(requests["step-up"][d]) \subseteq Range(requests'["step-up"][d])
           /\ \A c \in Range(commands'[d]) : c \in Range(commands[d]) \/ CommandGrounds(d, c)
           /\ \A a \in Range(answers'[d]) : Challenged(d, a.task)
           /\ \A e \in Range(events'[d]) :
                e \in Range(events[d]) \/ (e \in AnswerEvent => Challenged(d, e.task))
           /\ \A agent \in Agents : \A r \in Range(requests'[agent][d]) :
                r \in Range(requests[agent][d]) \/ RequestGrounds(agent, d, r)
  PROVE  Grounds'
<1>1. \A d \in Devices : \A task : Challenged(d, task) => Challenged(d, task)'
  BY DEF Challenged
<1>2. \A d \in Devices : \A task : Clean(d, task) => Clean(d, task)'
  BY DEF Clean
<1>3. SUFFICES ASSUME NEW d \in Devices
               PROVE  (/\ \A c \in Range(commands[d]) : CommandGrounds(d, c)
                       /\ \A a \in Range(answers[d]) : Challenged(d, a.task)
                       /\ \A e \in Range(events[d]) : e \in AnswerEvent => Challenged(d, e.task)
                       /\ \A agent \in Agents : \A r \in Range(requests[agent][d]) :
                            RequestGrounds(agent, d, r))'
  BY DEF Grounds
<1>4. ASSUME NEW c \in Range(commands'[d]) PROVE CommandGrounds(d, c)'
  <2>1. CommandGrounds(d, c)
    BY <1>4 DEF Grounds
  <2>2. QED
    BY <1>1, <1>2, <2>1 DEF CommandGrounds
<1>5. ASSUME NEW a \in Range(answers'[d]) PROVE Challenged(d, a.task)'
  BY <1>1, <1>5
<1>6. ASSUME NEW e \in Range(events'[d]), e \in AnswerEvent PROVE Challenged(d, e.task)'
  <2>1. Challenged(d, e.task)
    BY <1>6 DEF Grounds
  <2>2. QED
    BY <1>1, <2>1
<1>7. ASSUME NEW agent \in Agents, NEW r \in Range(requests'[agent][d]) PROVE RequestGrounds(agent, d, r)'
  <2>1. RequestGrounds(agent, d, r)
    BY <1>7 DEF Grounds
  <2>2. QED
    BY <1>1, <1>2, <2>1 DEF RequestGrounds
<1>8. QED
  BY <1>4, <1>5, <1>6, <1>7

LEMMA InitGrounds == Init => Grounds
<1> SUFFICES ASSUME Init PROVE Grounds
  OBVIOUS
<1>1. "step-up" \in Agents /\ \A d \in Devices : Range(answers[d]) = {} /\ Range(events[d]) = {}
        /\ Range(commands[d]) = {} /\ \A agent \in Agents : Range(requests[agent][d]) = {}
  BY DEF Init, SimulatorInit, Range, Agents
<1>2. QED
  BY <1>1 DEF Grounds

LEMMA OutputGrounds ==
  ASSUME FlowTypes, Grounds, NEW d \in Devices, Output(d)
  PROVE  Grounds'
<1>1. UNCHANGED <<events, answers>> /\ "step-up" \in Agents
  BY DEF Output, untouched, engineVars, Agents
<1>2. \A a \in Agents, e \in Devices :
        /\ Range(requests[a][e]) \subseteq Range(requests'[a][e])
        /\ \A r \in Range(requests'[a][e]) : r \in Range(requests[a][e]) \/ RequestGrounds(a, e, r)
  <2>1. CASE UNCHANGED requests
    BY <2>1
  <2>2. CASE ~UNCHANGED requests
    <3>1. PICK a \in Agents : \E r \in RequestsOf(a) : Send(a, d, r) /\ RequestGrounds(a, d, r)
      BY <2>2 DEF Output
    <3>2. PICK r \in RequestsOf(a) : Send(a, d, r) /\ RequestGrounds(a, d, r)
      BY <3>1
    <3>3. \A b \in Agents, e \in Devices :
            /\ \A q \in Range(requests'[b][e]) : q \in Range(requests[b][e]) \/ (b = a /\ e = d /\ q = r)
            /\ Range(requests[b][e]) \subseteq Range(requests'[b][e])
      <4>1. TopicTypes /\ Send(a, d, r)
        BY <3>2 DEF FlowTypes
      <4>2. QED
        BY <4>1, SendTypes
    <3>4. QED
      BY <3>2, <3>3
  <2>3. QED
    BY <2>1, <2>2
<1>3. \A e \in Devices : \A c \in Range(commands'[e]) : c \in Range(commands[e]) \/ CommandGrounds(e, c)
  <2>1. CASE UNCHANGED commands
    BY <2>1
  <2>2. CASE ~UNCHANGED commands
    <3>1. PICK c \in Command : commands' = [commands EXCEPT ![d] = Append(@, c)] /\ CommandGrounds(d, c)
      BY <2>2 DEF Output
    <3>2. \A e \in Devices : Range(commands'[e]) = Range(commands[e]) \cup (IF e = d THEN {c} ELSE {})
      BY <3>1, OrderTypes DEF FlowTypes
    <3>3. QED
      BY <3>1, <3>2
  <2>3. QED
    BY <2>1, <2>2
<1>4. \A e \in Devices : \A a \in Range(answers'[e]) : Challenged(e, a.task)
  BY <1>1 DEF Grounds
<1>5. QED
  BY <1>1, <1>2, <1>3, <1>4, GroundsKept

LEMMA RouteGrounds ==
  ASSUME FlowTypes, Grounds, NEW d \in Devices, Route(d)
  PROVE  Grounds'
<1>1. UNCHANGED <<events, answers, commands>> /\ "step-up" \in Agents
  BY DEF Route, engineVars, Agents
<1>2. PICK a \in Agents : \E r \in RequestsOf(a) : Send(a, d, r) /\ RequestGrounds(a, d, r)
  BY RoutedTask
<1>3. PICK r \in RequestsOf(a) : Send(a, d, r) /\ RequestGrounds(a, d, r)
  BY <1>2
<1>4. \A b \in Agents, e \in Devices :
        /\ \A q \in Range(requests'[b][e]) : q \in Range(requests[b][e]) \/ (b = a /\ e = d /\ q = r)
        /\ Range(requests[b][e]) \subseteq Range(requests'[b][e])
  <2>1. TopicTypes /\ Send(a, d, r)
    BY <1>3 DEF FlowTypes
  <2>2. QED
    BY <2>1, SendTypes
<1>5. \A e \in Devices : \A x \in Range(answers'[e]) : Challenged(e, x.task)
  BY <1>1 DEF Grounds
<1>6. QED
  BY <1>1, <1>3, <1>4, <1>5, GroundsKept

\* A challenge that the simulator takes up has its request.
LEMMA ConsumeGrounds ==
  ASSUME FlowTypes, Grounds, NEW d \in Devices, Consume(d)
  PROVE  Grounds'
<1> DEFINE c == commands[d][taken[d] + 1]
<1>1. /\ taken[d] < Len(commands[d]) /\ UNCHANGED <<events, requests, commands>>
      /\ UNCHANGED answers \/ OnPolicyCommand(d, c)
  BY DEF Consume, engineVars
<1>2. c \in Command /\ c \in Range(commands[d])
  BY <1>1, TakenCommand DEF FlowTypes
<1> HIDE DEF c
<1>3. \A e \in Devices : \A a \in Range(answers'[e]) : Challenged(e, a.task)
  <2>1. CASE UNCHANGED answers
    BY <2>1 DEF Grounds
  <2>2. CASE OnPolicyCommand(d, c) /\ c.action = "CHALLENGE"
    <3>1. PICK passed \in BOOLEAN :
            answers' = [answers EXCEPT ![d] = Append(@, Scheduled(c, passed))]
      BY <2>2 DEF OnPolicyCommand
    <3>2. Scheduled(c, passed) \in Answer /\ Scheduled(c, passed).task = c.task
      BY <1>2, ScheduledType DEF Scheduled
    <3>3. answers \in [Devices -> Seq(Answer)]
      BY DEF FlowTypes, EngineTypes, SimulatorTypeOK
    <3>4. Range(Append(answers[d], Scheduled(c, passed))) = Range(answers[d]) \cup {Scheduled(c, passed)}
      BY <3>2, <3>3, RangeOfAppend
    <3>5. \A e \in Devices :
            answers'[e] = IF e = d THEN Append(answers[d], Scheduled(c, passed)) ELSE answers[e]
      BY <3>1, <3>3
    <3>6. Challenged(d, c.task)
      BY <1>2, <2>2 DEF Grounds, CommandGrounds
    <3>7. \A e \in Devices : \A a \in Range(answers[e]) : Challenged(e, a.task)
      BY DEF Grounds
    <3> HIDE DEF Challenged
    <3>8. QED
      BY <3>2, <3>4, <3>5, <3>6, <3>7
  <2>3. CASE OnPolicyCommand(d, c) /\ c.action # "CHALLENGE"
    BY <2>3 DEF OnPolicyCommand, Grounds
  <2>4. QED
    BY <1>1, <2>1, <2>2, <2>3
<1>4. QED
  BY <1>1, <1>3, GroundsKept

\* What a tick sends and what it leaves on the list were both on the list.
LEMMA TickGrounds ==
  ASSUME FlowTypes, Grounds, NEW elapsed \in Nat, Tick(elapsed)
  PROVE  Grounds'
<1>1. UNCHANGED <<requests, commands>> /\ answers' = [d \in Devices |-> Later(d, elapsed)]
  BY DEF Tick, BeginTick
<1>2. \A d \in Devices : answers[d] \in Seq(Answer) /\ Ordered(answers[d])
  BY DEF FlowTypes, EngineTypes, SimulatorTypeOK
<1>3. ASSUME NEW d \in Devices
      PROVE  \A a \in Range(answers'[d]) : Challenged(d, a.task)
  <2> DEFINE rest == Later(d, elapsed)
  <2>1. /\ rest \in Seq(Answer)
        /\ \A i \in 1 .. Len(rest) : /\ DueCount(d, elapsed) + i \in 1 .. Len(answers[d])
                                     /\ rest[i].task = answers[d][DueCount(d, elapsed) + i].task
    BY <1>2, LaterType
  <2>2. answers'[d] = rest
    BY <1>1
  <2> HIDE DEF rest
  <2>3. \A i \in 1 .. Len(answers[d]) : Challenged(d, answers[d][i].task)
    BY <1>2 DEF Grounds, Range
  <2>4. QED
    BY <2>1, <2>2, <2>3 DEF Range
<1>4. ASSUME NEW d \in Devices
      PROVE  /\ Range(events[d]) \subseteq Range(events'[d])
             /\ \A e \in Range(events'[d]) : e \in Range(events[d]) \/ Challenged(d, e.task)
  <2> DEFINE sent == DueEvents(d, elapsed)
  <2>1. CASE events'[d] = events[d]
    BY <2>1
  <2>2. CASE events'[d] = events[d] \o sent /\ sent \in Seq(Event)
    <3>1. events[d] \in Seq(Event)
      BY DEF FlowTypes, TopicTypes
    <3>2. \A i \in 1 .. Len(sent) : i \in 1 .. Len(answers[d]) /\ sent[i].task = answers[d][i].task
      BY DueEventsType DEF FlowTypes
    <3> HIDE DEF sent
    <3>3. Range(events'[d]) = Range(events[d]) \cup Range(sent)
      BY <2>2, <3>1, RangeOfConcat
    <3>4. \A i \in 1 .. Len(answers[d]) : Challenged(d, answers[d][i].task)
      BY <1>2 DEF Grounds, Range
    <3>5. \A e \in Range(sent) : Challenged(d, e.task)
      <4>1. \A i \in 1 .. Len(sent) : Challenged(d, sent[i].task)
        BY <3>2, <3>4
      <4>2. DOMAIN sent = 1 .. Len(sent)
        BY <2>2
      <4>3. QED
        BY <4>1, <4>2 DEF Range
    <3>6. QED
      BY <3>3, <3>5
  <2>3. QED
    BY <2>1, <2>2, TickEvents
<1>5. QED
  BY <1>1, <1>3, <1>4, GroundsKept

LEMMA EmitGrounds ==
  ASSUME FlowTypes, Grounds, NEW d \in Devices, Emit(d)
  PROVE  Grounds'
<1>1. UNCHANGED <<requests, commands, answers>>
  BY EmitEvents DEF Emit
<1>2. ASSUME NEW e \in Devices
      PROVE  /\ Range(events[e]) \subseteq Range(events'[e])
             /\ \A x \in Range(events'[e]) : x \in Range(events[e]) \/ x \notin AnswerEvent
  <2>1. CASE events'[e] = events[e]
    BY <2>1
  <2>2. CASE \E r \in RequestEvent : events'[e] = events[e] \o <<r>>
    <3>1. PICK r \in RequestEvent : events'[e] = events[e] \o <<r>>
      BY <2>2
    <3>2. events[e] \in Seq(Event) /\ <<r>> \in Seq(Event) /\ Range(<<r>>) = {r}
      BY DEF FlowTypes, TopicTypes, Event, Range
    <3>3. Range(events'[e]) = Range(events[e]) \cup {r}
      <4>1. Range(events[e] \o <<r>>) = Range(events[e]) \cup Range(<<r>>)
        <5> DEFINE t == <<r>>
        <5>1. t \in Seq(Event)
          BY <3>2
        <5> HIDE DEF t
        <5>2. Range(events[e] \o t) = Range(events[e]) \cup Range(t)
          BY <3>2, <5>1, RangeOfConcat
        <5>3. QED
          BY <5>2 DEF t
      <4>2. QED
        BY <3>1, <3>2, <4>1
    <3>4. r \notin AnswerEvent
      BY DEF RequestEvent, AnswerEvent
    <3>5. QED
      BY <3>3, <3>4
  <2>3. QED
    BY <2>1, <2>2, EmitEvents
<1>3. \A e \in Devices : \A x \in Range(answers'[e]) : Challenged(e, x.task)
  BY <1>1 DEF Grounds
<1>4. QED
  BY <1>1, <1>2, <1>3, GroundsKept

LEMMA GroundsStep ==
  ASSUME FlowTypes, Grounds, [Next]_vars
  PROVE  Grounds'
<1>1. ASSUME UNCHANGED <<events, requests, commands, answers>> PROVE Grounds'
  <2>1. \A d \in Devices : \A a \in Range(answers'[d]) : Challenged(d, a.task)
    BY <1>1 DEF Grounds
  <2>2. QED
    BY <1>1, <2>1, GroundsKept
<1>2. CASE UNCHANGED vars
  BY <1>1, <1>2 DEF vars, engineVars, topicVars
<1>3. CASE Control
  BY <1>1, <1>3 DEF Control, OnControl, topicVars
<1>4. CASE FinishTick
  BY <1>1, <1>4, FinishTickStep DEF FinishTick, topicVars
<1>5. CASE Restart
  <2>1. UNCHANGED <<events, requests, commands>> /\ \A d \in Devices : Range(answers'[d]) = {}
    BY <1>5 DEF Restart, Fresh, Range
  <2>2. QED
    BY <2>1, GroundsKept
<1>6. ASSUME NEW elapsed \in 0 .. 1, Tick(elapsed) PROVE Grounds'
  BY <1>6, TickGrounds
<1>7. ASSUME NEW d \in Devices, Consume(d) PROVE Grounds'
  BY <1>7, ConsumeGrounds
<1>8. ASSUME NEW d \in Devices, Emit(d) PROVE Grounds'
  BY <1>8, EmitGrounds
<1>9. ASSUME NEW d \in Devices, Route(d) PROVE Grounds'
  BY <1>9, RouteGrounds
<1>10. ASSUME NEW d \in Devices, AgentStep(d) \/ LateOutput(d) \/ \E agent \in Agents : FailTask(agent, d)
      PROVE Grounds'
  BY <1>10, AgentsOutput, OutputGrounds
<1>11. QED
  BY <1>2, <1>3, <1>4, <1>5, <1>6, <1>7, <1>8, <1>9, <1>10 DEF Next

\* The types and the grounds are inductive together: a request to the step-up
\* agent is what makes the task of an answer, and so of a resumed request,
\* one with a clean fingerprint.
LEMMA FlowInvariant == Spec => [](FlowTypes /\ Grounds)
<1>1. Init => FlowTypes /\ Grounds
  BY InitTypes, InitGrounds
<1>2. FlowTypes /\ Grounds /\ [Next]_vars => FlowTypes' /\ Grounds'
  BY TypesStep, GroundsStep
<1>3. QED
  BY <1>1, <1>2, PTL DEF Spec

\* Types of the simulator's state, of every topic's records and positions, and
\* the bounds, whatever the pool and the faults (EnrolmentFlow).
THEOREM TypeSafety == Spec => []TypeOK
<1>1. FlowTypes /\ Grounds => TypeOK
  BY TypesImplyTypeOK
<1>2. QED
  BY <1>1, FlowInvariant, PTL

\* Only a challenge that was asked of the step-up agent resumes a task, however
\* events and commands are repeated, delayed or lost.
THEOREM ResumedWereChallenged == Spec => []ResumedTasksWereChallenged
<1>1. FlowTypes /\ Grounds => ResumedTasksWereChallenged
  BY DEF Grounds, RequestGrounds, Challenged, ResumedTasksWereChallenged, Agents
<1>2. QED
  BY <1>1, FlowInvariant, PTL

\* No answer of the model, no guardrail and no outcome of a challenge gives
\* trust to a device of which every fingerprint since the request is rooted.
THEOREM TrustIsGrounded == Spec => []TrustHasCleanGrounds
<1>1. FlowTypes /\ Grounds => TrustHasCleanGrounds
  BY DEF Grounds, CommandGrounds, Clean, TrustHasCleanGrounds
<1>2. QED
  BY <1>1, FlowInvariant, PTL

-----------------------------------------------------------------------------
(* The window of remembered commands *)

\* The remembered ids are those of the latest applied commands of this life,
\* and of all of them unless the capacity is used up.
Window ==
  /\ Len(seen) <= Len(applied)
  /\ \A k \in 1 .. Len(seen) : applied[Len(applied) - Len(seen) + k] = <<life, seen[k]>>
  /\ \A i \in 1 .. Len(applied) : applied[i][1] <= life
  /\ \A i \in 1 .. Len(applied) - Len(seen) : applied[i][1] < life \/ Len(seen) = DedupeCapacity

SpacedOut ==
  \A i, j \in 1 .. Len(applied) : i < j /\ applied[i] = applied[j] => j - i > DedupeCapacity

\* A command that is not remembered was last applied in an earlier life, or
\* more than DedupeCapacity commands ago.
LEMMA NewToTheWindow ==
  ASSUME FlowTypes, Window, NEW id \in CommandId, id \notin Range(seen),
         NEW i \in 1 .. Len(applied), applied[i] = <<life, id>>
  PROVE  Len(applied) + 1 - i > DedupeCapacity
<1>1. /\ Len(applied) \in Nat /\ Len(seen) \in Nat /\ DedupeCapacity \in Nat /\ life \in Nat
      /\ Len(seen) <= Len(applied) /\ DOMAIN seen = 1 .. Len(seen)
  BY SimulatorAssumption, FlowAssumption DEF FlowTypes, EngineTypes, SimulatorTypeOK, BoundTypes, Window
<1>2. CASE i > Len(applied) - Len(seen)
  <2> DEFINE k == i - (Len(applied) - Len(seen))
  <2>1. k \in 1 .. Len(seen) /\ Len(applied) - Len(seen) + k = i
    BY <1>1, <1>2
  <2>2. applied[i] = <<life, seen[k]>>
    BY <2>1 DEF Window
  <2>3. seen[k] = id
    BY <2>2
  <2>4. QED
    BY <1>1, <2>1, <2>3 DEF Range
<1>3. CASE i <= Len(applied) - Len(seen)
  <2>1. i \in 1 .. Len(applied) - Len(seen)
    BY <1>1, <1>3
  <2>2. ~(applied[i][1] < life)
    BY <1>1
  <2>3. applied[i][1] < life \/ Len(seen) = DedupeCapacity
    BY <2>1 DEF Window
  <2>4. Len(seen) = DedupeCapacity
    BY <2>2, <2>3
  <2>5. QED
    BY <1>1, <1>3, <2>4
<1>4. QED
  BY <1>1, <1>2, <1>3

LEMMA ConsumeWindow ==
  ASSUME FlowTypes, Window, SpacedOut, NEW d \in Devices, Consume(d)
  PROVE  Window' /\ SpacedOut'
<1> DEFINE c == commands[d][taken[d] + 1]
<1>1. /\ taken[d] < Len(commands[d]) /\ life' = life
      /\ \/ UNCHANGED <<seen, applied>>
         \/ ~Ignored(c) /\ OnPolicyCommand(d, c) /\ applied' = Append(applied, <<life, c.id>>)
  BY DEF Consume, engineVars, boundVars
<1>2. c.id \in CommandId
  BY <1>1, TakenCommand DEF FlowTypes, Command
<1> HIDE DEF c
<1>3. CASE UNCHANGED <<seen, applied>>
  BY <1>1, <1>3 DEF Window, SpacedOut
<1>4. CASE ~Ignored(c) /\ OnPolicyCommand(d, c) /\ applied' = Append(applied, <<life, c.id>>)
  <2> DEFINE id == c.id
  <2> DEFINE n == Len(applied)
  <2> DEFINE m == Len(seen)
  <2>1. id \notin Range(seen) /\ Remember(id)
    BY <1>4 DEF Ignored, OnPolicyCommand
  <2>2. /\ seen \in Seq(CommandId) /\ m \in Nat /\ m <= DedupeCapacity /\ DedupeCapacity \in Nat
        /\ applied \in Seq(Nat \X CommandId) /\ n \in Nat /\ m <= n /\ life \in Nat
    BY SimulatorAssumption, FlowAssumption DEF FlowTypes, EngineTypes, SimulatorTypeOK, BoundTypes, Window
  <2>3. /\ Len(applied') = n + 1 /\ applied'[n + 1] = <<life, id>>
        /\ \A i \in 1 .. n : applied'[i] = applied[i]
    BY <1>4, <2>2
  <2>4. IF m < DedupeCapacity THEN seen' = Append(seen, id) ELSE seen' = Tail(Append(seen, id))
    BY <1>2, <2>1, RememberTypes DEF FlowTypes
  <2>5. SpacedOut'
    <3>1. SUFFICES ASSUME NEW i \in 1 .. n + 1, NEW j \in 1 .. n + 1, i < j, applied'[i] = applied'[j]
                   PROVE  j - i > DedupeCapacity
      BY <2>3 DEF SpacedOut
    <3>2. i \in 1 .. n
      BY <2>2, <3>1
    <3>3. CASE j = n + 1
      <4>1. applied[i] = <<life, id>>
        BY <2>3, <3>1, <3>2, <3>3
      <4>2. n + 1 - i > DedupeCapacity
        BY <1>2, <2>1, <3>2, <4>1, NewToTheWindow
      <4>3. QED
        BY <3>3, <4>2
    <3>4. CASE j # n + 1
      <4>1. j \in 1 .. n
        BY <2>2, <3>4
      <4>2. QED
        BY <2>3, <3>1, <3>2, <4>1 DEF SpacedOut
    <3>5. QED
      BY <3>3, <3>4
  <2>6. \A i \in 1 .. n + 1 : applied'[i][1] <= life
    <3>1. SUFFICES ASSUME NEW i \in 1 .. n + 1 PROVE applied'[i][1] <= life
      OBVIOUS
    <3>2. CASE i = n + 1
      BY <2>2, <2>3, <3>2
    <3>3. CASE i # n + 1
      <4>1. i \in 1 .. n
        BY <2>2, <3>3
      <4>2. QED
        BY <2>3, <4>1 DEF Window
    <3>4. QED
      BY <3>2, <3>3
  <2>7. CASE m < DedupeCapacity
    <3>1. /\ Len(seen') = m + 1 /\ seen'[m + 1] = id
          /\ \A k \in 1 .. m : seen'[k] = seen[k]
      <4>1. seen' = Append(seen, id) /\ id \in CommandId
        BY <1>2, <2>4, <2>7
      <4>2. /\ Len(Append(seen, id)) = m + 1 /\ Append(seen, id)[m + 1] = id
            /\ \A k \in 1 .. m : Append(seen, id)[k] = seen[k]
        BY <2>2, <4>1, AppendAndTail
      <4>3. QED
        BY <4>1, <4>2
    <3>2. \A k \in 1 .. m + 1 : applied'[n + 1 - (m + 1) + k] = <<life, seen'[k]>>
      <4>1. SUFFICES ASSUME NEW k \in 1 .. m + 1 PROVE applied'[n + 1 - (m + 1) + k] = <<life, seen'[k]>>
        OBVIOUS
      <4>2. CASE k = m + 1
        <5>1. n + 1 - (m + 1) + k = n + 1
          BY <2>2, <4>2
        <5>2. QED
          BY <2>3, <3>1, <4>2, <5>1
      <4>3. CASE k # m + 1
        <5>1. k \in 1 .. m /\ n - m + k \in 1 .. n /\ n + 1 - (m + 1) + k = n - m + k
          BY <2>2, <4>3
        <5>2. applied[n - m + k] = <<life, seen[k]>>
          BY <5>1 DEF Window
        <5>3. QED
          BY <2>3, <3>1, <5>1, <5>2
      <4>4. QED
        BY <4>2, <4>3
    <3>3. \A i \in 1 .. n + 1 - (m + 1) : applied'[i][1] < life
      <4>1. SUFFICES ASSUME NEW i \in 1 .. n + 1 - (m + 1) PROVE applied'[i][1] < life
        OBVIOUS
      <4>2. i \in 1 .. n /\ i \in 1 .. n - m /\ m # DedupeCapacity
        BY <2>2, <2>7
      <4>3. applied[i][1] < life
        BY <4>2 DEF Window
      <4>4. QED
        BY <2>3, <4>2, <4>3
    <3>4. Len(seen') <= Len(applied')
      BY <2>2, <2>3, <3>1
    <3>5. QED
      <4>1. /\ Len(applied') = n + 1 /\ Len(seen') = m + 1
            /\ \A k \in 1 .. Len(seen') : applied'[Len(applied') - Len(seen') + k] = <<life', seen'[k]>>
        <5>1. Len(applied') = n + 1 /\ Len(seen') = m + 1 /\ life' = life
          BY <1>1, <2>3, <3>1
        <5>2. QED
          BY <3>2, <5>1
      <4>2. /\ \A i \in 1 .. Len(applied') : applied'[i][1] <= life'
            /\ \A i \in 1 .. Len(applied') - Len(seen') : applied'[i][1] < life'
        BY <1>1, <2>6, <3>3, <4>1
      <4>3. QED
        BY <2>5, <3>4, <4>1, <4>2 DEF Window
  <2>8. CASE ~(m < DedupeCapacity)
    <3>1. m = DedupeCapacity
      BY <2>2, <2>8
    <3>2. Append(seen, id)[m + 1] = id /\ \A k \in 1 .. m : Append(seen, id)[k] = seen[k]
      <4>1. id \in CommandId
        BY <1>2
      <4>2. QED
        BY <2>2, <4>1, AppendAndTail
    <3>3. /\ Len(seen') = m
          /\ \A k \in 1 .. m : seen'[k] = Append(seen, id)[k + 1]
      <4>1. seen' = Tail(Append(seen, id))
        BY <2>4, <2>8
      <4>2. QED
        <5>1. id \in CommandId
          BY <1>2
        <5>2. /\ Len(Tail(Append(seen, id))) = m
              /\ \A k \in 1 .. m : Tail(Append(seen, id))[k] = Append(seen, id)[k + 1]
          BY <2>2, <5>1, AppendAndTail
        <5>3. QED
          BY <4>1, <5>2
    <3>4. \A k \in 1 .. m : applied'[n + 1 - m + k] = <<life, seen'[k]>>
      <4>1. SUFFICES ASSUME NEW k \in 1 .. m PROVE applied'[n + 1 - m + k] = <<life, seen'[k]>>
        OBVIOUS
      <4>2. CASE k = m
        <5>1. n + 1 - m + k = n + 1 /\ k + 1 = m + 1
          BY <2>2, <4>2
        <5>2. QED
          BY <2>3, <3>2, <3>3, <5>1
      <4>3. CASE k # m
        <5>1. k + 1 \in 1 .. m /\ n - m + (k + 1) \in 1 .. n /\ n + 1 - m + k = n - m + (k + 1)
          BY <2>2, <4>3
        <5>2. applied[n - m + (k + 1)] = <<life, seen[k + 1]>>
          BY <5>1 DEF Window
        <5>3. QED
          BY <2>3, <3>2, <3>3, <5>1, <5>2
      <4>4. QED
        BY <4>2, <4>3
    <3>5. Len(seen') <= Len(applied') /\ Len(seen') = DedupeCapacity
      BY <2>2, <2>3, <3>1, <3>3
    <3>6. QED
      BY <1>1, <2>3, <2>5, <2>6, <3>3, <3>4, <3>5 DEF Window
  <2>9. QED
    BY <2>7, <2>8
<1>5. QED
  BY <1>1, <1>3, <1>4

LEMMA RestartWindow ==
  ASSUME FlowTypes, Window, SpacedOut, Restart
  PROVE  Window' /\ SpacedOut'
<1>1. life' = life + 1 /\ seen' = <<>> /\ applied' = applied
  BY DEF Restart, Fresh
<1>2. Len(applied) \in Nat /\ life \in Nat /\ applied \in Seq(Nat \X CommandId)
  BY FlowAssumption DEF FlowTypes, BoundTypes
<1>3. \A i \in 1 .. Len(applied) : applied[i][1] \in Nat
  <2>1. \A i \in 1 .. Len(applied) : applied[i] \in Nat \X CommandId
    BY <1>2
  <2>2. QED
    BY <2>1
<1>4. \A i \in 1 .. Len(applied) : applied[i][1] < life + 1
  BY <1>2, <1>3 DEF Window
<1>5. Len(seen') = 0
  BY <1>1
<1>6. QED
  BY <1>1, <1>2, <1>3, <1>4, <1>5 DEF Window, SpacedOut

LEMMA WindowStep ==
  ASSUME FlowTypes, Grounds, Window, SpacedOut, [Next]_vars
  PROVE  Window' /\ SpacedOut'
<1>1. ASSUME UNCHANGED <<seen, applied, life>> PROVE Window' /\ SpacedOut'
  BY <1>1 DEF Window, SpacedOut
<1>2. CASE UNCHANGED vars
  BY <1>1, <1>2 DEF vars, engineVars, boundVars
<1>3. CASE Control
  BY <1>1, <1>3 DEF Control, OnControl
<1>4. CASE FinishTick
  BY <1>1, <1>4, FinishTickStep DEF FinishTick, boundVars
<1>5. CASE Restart
  BY <1>5, RestartWindow
<1>6. ASSUME NEW elapsed \in 0 .. 1, Tick(elapsed) PROVE Window' /\ SpacedOut'
  BY <1>1, <1>6 DEF Tick, BeginTick
<1>7. ASSUME NEW d \in Devices, Consume(d) PROVE Window' /\ SpacedOut'
  BY <1>7, ConsumeWindow
<1>8. ASSUME NEW d \in Devices, Emit(d) PROVE Window' /\ SpacedOut'
  BY <1>1, <1>8, EmitEvents DEF Emit
<1>9. ASSUME NEW d \in Devices, Route(d) PROVE Window' /\ SpacedOut'
  BY <1>1, <1>9 DEF Route, engineVars, boundVars
<1>10. ASSUME NEW d \in Devices, AgentStep(d) \/ LateOutput(d) \/ \E agent \in Agents : FailTask(agent, d)
       PROVE  Window' /\ SpacedOut'
  <2>1. Output(d)
    BY <1>10, AgentsOutput
  <2>2. QED
    BY <1>1, <2>1 DEF Output, untouched, engineVars
<1>11. QED
  BY <1>2, <1>3, <1>4, <1>5, <1>6, <1>7, <1>8, <1>9, <1>10 DEF Next

LEMMA InitWindow == Init => Window /\ SpacedOut
<1> SUFFICES ASSUME Init PROVE Window /\ SpacedOut
  OBVIOUS
<1>1. applied = <<>> /\ seen = <<>> /\ Len(applied) = 0 /\ Len(seen) = 0
  BY DEF Init, SimulatorInit
<1>2. QED
  BY <1>1 DEF Window, SpacedOut

\* Between two effects of the same command in one life of the simulator, more
\* than DedupeCapacity commands were applied.
THEOREM AppliedOnceInAWindow == Spec => []AppliedOnce
<1>1. Init => Window /\ SpacedOut
  BY InitWindow
<1>2. (FlowTypes /\ Grounds) /\ (Window /\ SpacedOut) /\ [Next]_vars => (Window /\ SpacedOut)'
  BY WindowStep
<1>3. (FlowTypes /\ Grounds) /\ (Window /\ SpacedOut) => AppliedOnce
  <2>1. FlowTypes => DOMAIN applied = 1 .. Len(applied)
    BY DEF FlowTypes, BoundTypes
  <2>2. QED
    BY <2>1 DEF SpacedOut, AppliedOnce
<1>4. QED
  BY <1>1, <1>2, <1>3, FlowInvariant, PTL DEF Spec

-----------------------------------------------------------------------------
(* Counting *)

CountIn(s, W) == Cardinality({i \in DOMAIN s : s[i] \in W})

LEMMA CountType ==
  ASSUME NEW S, NEW s \in Seq(S), NEW W
  PROVE  /\ DOMAIN s = 1 .. Len(s) /\ Len(s) \in Nat
         /\ IsFiniteSet({i \in DOMAIN s : s[i] \in W}) /\ CountIn(s, W) \in Nat
<1>1. DOMAIN s = 1 .. Len(s) /\ Len(s) \in Nat
  OBVIOUS
<1>2. IsFiniteSet(1 .. Len(s))
  BY <1>1, PrefixSize
<1>3. {i \in DOMAIN s : s[i] \in W} \in SUBSET (1 .. Len(s))
  BY <1>1
<1>4. IsFiniteSet({i \in DOMAIN s : s[i] \in W})
  BY <1>2, <1>3, FS_Subset
<1>5. QED
  BY <1>1, <1>4, FS_CardinalityType DEF CountIn

LEMMA CountOfAppend ==
  ASSUME NEW S, NEW s \in Seq(S), NEW e \in S, NEW W
  PROVE  CountIn(Append(s, e), W) = IF e \in W THEN CountIn(s, W) + 1 ELSE CountIn(s, W)
<1> DEFINE A == {i \in DOMAIN s : s[i] \in W}
<1> DEFINE t == Append(s, e)
<1> DEFINE B == {i \in DOMAIN t : t[i] \in W}
<1>1. DOMAIN s = 1 .. Len(s) /\ Len(s) \in Nat /\ IsFiniteSet(A)
  BY CountType
<1>2. /\ DOMAIN t = 1 .. Len(s) + 1 /\ t[Len(s) + 1] = e
      /\ \A i \in 1 .. Len(s) : t[i] = s[i]
  BY <1>1
<1>3. 1 .. Len(s) + 1 = (1 .. Len(s)) \cup {Len(s) + 1} /\ Len(s) + 1 \notin 1 .. Len(s)
  BY <1>1
<1> HIDE DEF t
<1>4. B = IF e \in W THEN A \cup {Len(s) + 1} ELSE A
  BY <1>1, <1>2, <1>3
<1>5. Len(s) + 1 \notin A
  BY <1>1, <1>3
<1>6. Cardinality(A \cup {Len(s) + 1}) = Cardinality(A) + 1
  BY <1>1, <1>5, FS_AddElement
<1>7. CountIn(s, W) = Cardinality(A) /\ CountIn(Append(s, e), W) = Cardinality(B)
  BY DEF CountIn, t
<1> HIDE DEF A, B
<1>8. QED
  BY <1>4, <1>6, <1>7

LEMMA ShiftedSize ==
  ASSUME NEW n \in Int, NEW A \in SUBSET Int, NEW B, IsFiniteSet(B), \A i \in A : i + n \in B
  PROVE  IsFiniteSet(A) /\ Cardinality(A) <= Cardinality(B)
<1> DEFINE f == [i \in A |-> i + n]
<1>1. f \in [A -> B]
  OBVIOUS
<1>2. \A i, j \in A : f[i] = f[j] => i = j
  OBVIOUS
<1>3. f \in Injection(A, B)
  BY <1>1, <1>2 DEF Injection, IsInjective
<1>4. QED
  BY <1>3, FS_Injection

\* What is counted in a concatenation is counted in one of its parts.
LEMMA CountOfConcat ==
  ASSUME NEW S, NEW s \in Seq(S), NEW t \in Seq(S), NEW W
  PROVE  CountIn(s \o t, W) <= CountIn(s, W) + CountIn(t, W)
<1> DEFINE u == s \o t
<1> DEFINE A == {i \in DOMAIN s : s[i] \in W}
<1> DEFINE B == {i \in DOMAIN t : t[i] \in W}
<1> DEFINE C == {i \in DOMAIN u : u[i] \in W}
<1> DEFINE D == {i \in C : i > Len(s)}
<1>1. /\ DOMAIN s = 1 .. Len(s) /\ Len(s) \in Nat /\ IsFiniteSet(A)
      /\ DOMAIN t = 1 .. Len(t) /\ Len(t) \in Nat /\ IsFiniteSet(B)
  BY CountType
<1>2. /\ DOMAIN u = 1 .. Len(s) + Len(t)
      /\ \A i \in 1 .. Len(s) : u[i] = s[i]
      /\ \A i \in 1 .. Len(t) : u[Len(s) + i] = t[i]
  BY <1>1
<1> HIDE DEF u
<1>3. D \in SUBSET Int
  BY <1>2
<1>4. ASSUME NEW i \in D PROVE i + (-Len(s)) \in B
  <2>1. i \in 1 .. Len(s) + Len(t) /\ i > Len(s) /\ u[i] \in W
    BY <1>2, <1>4
  <2>2. i + (-Len(s)) \in 1 .. Len(t) /\ Len(s) + (i + (-Len(s))) = i
    BY <1>1, <2>1
  <2>3. t[i + (-Len(s))] = u[i]
    BY <1>2, <2>2
  <2>4. QED
    BY <1>1, <2>1, <2>2, <2>3
<1>5. -Len(s) \in Int
  BY <1>1
<1> HIDE DEF D, B
<1>6. IsFiniteSet(D) /\ Cardinality(D) <= Cardinality(B)
  BY <1>1, <1>3, <1>4, <1>5, ShiftedSize
<1>7. C \in SUBSET (A \cup D)
  BY <1>1, <1>2 DEF D
<1> HIDE DEF A, C
<1>8. IsFiniteSet(A \cup D) /\ Cardinality(A \cup D) = Cardinality(A) + Cardinality(D) - Cardinality(A \cap D)
  BY <1>1, <1>6, FS_Union
<1>9. IsFiniteSet(C) /\ Cardinality(C) <= Cardinality(A \cup D)
  BY <1>7, <1>8, FS_Subset
<1>10. IsFiniteSet(A \cap D)
  <2>1. A \cap D \in SUBSET A
    OBVIOUS
  <2>2. QED
    BY <1>1, <2>1, FS_Subset
<1>11. Cardinality(A) \in Nat /\ Cardinality(B) \in Nat /\ Cardinality(C) \in Nat /\ Cardinality(D) \in Nat
       /\ Cardinality(A \cap D) \in Nat /\ Cardinality(A \cup D) \in Nat
  BY <1>1, <1>6, <1>8, <1>9, <1>10, FS_CardinalityType
<1>12. Cardinality(C) <= Cardinality(A) + Cardinality(B)
  BY <1>6, <1>8, <1>9, <1>11
<1>13. QED
  BY <1>12 DEF CountIn, A, B, C, u

\* What a prefix and the rest of a sequence hold, each counted once.
LEMMA CountOfParts ==
  ASSUME NEW S, NEW s \in Seq(S), NEW W, NEW n \in 0 .. Len(s),
         NEW P, NEW p \in Seq(P), NEW V, NEW Q, NEW q \in Seq(Q), Len(p) <= n,
         \A i \in 1 .. Len(p) : p[i] \in V => s[i] \in W,
         \A i \in 1 .. Len(q) : n + i \in 1 .. Len(s) /\ (q[i] \in W => s[n + i] \in W)
  PROVE  CountIn(p, V) + CountIn(q, W) <= CountIn(s, W)
<1> DEFINE A == {i \in DOMAIN p : p[i] \in V}
<1> DEFINE B == {i \in DOMAIN q : q[i] \in W}
<1> DEFINE C == {i \in DOMAIN s : s[i] \in W}
<1> DEFINE D == {i \in C : i > n}
<1>1. /\ DOMAIN s = 1 .. Len(s) /\ Len(s) \in Nat /\ IsFiniteSet(C) /\ n \in Nat /\ n <= Len(s)
      /\ DOMAIN p = 1 .. Len(p) /\ Len(p) \in Nat /\ IsFiniteSet(A)
      /\ DOMAIN q = 1 .. Len(q) /\ Len(q) \in Nat /\ IsFiniteSet(B)
  <2>1. DOMAIN s = 1 .. Len(s) /\ Len(s) \in Nat /\ IsFiniteSet(C)
    BY CountType
  <2>2. DOMAIN p = 1 .. Len(p) /\ Len(p) \in Nat /\ IsFiniteSet(A)
    BY CountType
  <2>3. DOMAIN q = 1 .. Len(q) /\ Len(q) \in Nat /\ IsFiniteSet(B)
    BY CountType
  <2>4. n \in Nat /\ n <= Len(s)
    BY <2>1
  <2>5. QED
    BY <2>1, <2>2, <2>3, <2>4
<1>2. A \in SUBSET C /\ A \cap D = {}
  <2>1. SUFFICES ASSUME NEW i \in A PROVE i \in C /\ ~(i > n)
    OBVIOUS
  <2>2. i \in 1 .. Len(p) /\ p[i] \in V
    BY <1>1
  <2>3. i \in 1 .. Len(s) /\ ~(i > n)
    BY <1>1, <2>2
  <2>4. QED
    BY <1>1, <2>2, <2>3
<1>3. D \in SUBSET C
  OBVIOUS
<1>4. IsFiniteSet(D)
  BY <1>1, <1>3, FS_Subset
<1>5. B \in SUBSET Int
  BY <1>1
<1>6. \A i \in B : i + n \in D
  <2>1. SUFFICES ASSUME NEW i \in B PROVE i + n \in C /\ i + n > n
    OBVIOUS
  <2>2. i \in 1 .. Len(q) /\ q[i] \in W
    BY <1>1
  <2>3. n + i \in 1 .. Len(s) /\ s[n + i] \in W /\ n + i = i + n /\ i + n > n
    BY <1>1, <2>2
  <2>4. QED
    BY <1>1, <2>3
<1> HIDE DEF A, B, C, D
<1>7. Cardinality(B) <= Cardinality(D)
  <2>1. n \in Int
    BY <1>1
  <2>2. QED
    BY <2>1, <1>4, <1>5, <1>6, ShiftedSize
<1>8. IsFiniteSet(A \cup D) /\ Cardinality(A \cup D) = Cardinality(A) + Cardinality(D) - Cardinality(A \cap D)
  BY <1>1, <1>4, FS_Union
<1>9. A \cup D \in SUBSET C
  BY <1>2, <1>3
<1>10. Cardinality(A \cup D) <= Cardinality(C)
  BY <1>1, <1>9, FS_Subset
<1>11. Cardinality(A \cap D) = 0
  BY <1>2, FS_EmptySet
<1>12. Cardinality(A) \in Nat /\ Cardinality(B) \in Nat /\ Cardinality(C) \in Nat /\ Cardinality(D) \in Nat
  BY <1>1, <1>4, FS_CardinalityType
<1>13. Cardinality(A) + Cardinality(B) <= Cardinality(C)
  BY <1>7, <1>8, <1>10, <1>11, <1>12
<1>14. QED
  BY <1>13 DEF CountIn, A, B, C

-----------------------------------------------------------------------------
(* Answers against applied challenges *)

AnsweredFor(x) == {e \in AnswerEvent : e.cause = x}
PendingFor(x) == {a \in Answer : a.cause = x}
AppliedAs(x) == {p \in Nat \X CommandId : p[2] = x}

\* A challenge is answered, or will be, no more often than it was taken up.
Balance ==
  \A d \in Devices, x \in CommandId :
    CountIn(events[d], AnsweredFor(x)) + CountIn(answers[d], PendingFor(x))
      <= CountIn(applied, AppliedAs(x))

LEMMA BalanceTypes ==
  ASSUME FlowTypes, NEW d \in Devices, NEW x \in CommandId
  PROVE  /\ events[d] \in Seq(Event) /\ answers[d] \in Seq(Answer) /\ applied \in Seq(Nat \X CommandId)
         /\ CountIn(events[d], AnsweredFor(x)) \in Nat /\ CountIn(answers[d], PendingFor(x)) \in Nat
         /\ CountIn(applied, AppliedAs(x)) \in Nat
<1>1. events[d] \in Seq(Event) /\ answers[d] \in Seq(Answer) /\ applied \in Seq(Nat \X CommandId)
  BY DEF FlowTypes, EngineTypes, SimulatorTypeOK, TopicTypes, BoundTypes
<1>2. CountIn(events[d], AnsweredFor(x)) \in Nat
  BY <1>1, CountType
<1>3. CountIn(answers[d], PendingFor(x)) \in Nat
  BY <1>1, CountType
<1>4. CountIn(applied, AppliedAs(x)) \in Nat
  BY <1>1, CountType
<1>5. QED
  BY <1>1, <1>2, <1>3, <1>4

LEMMA CountOfNone ==
  ASSUME NEW s, NEW W, \A i \in DOMAIN s : s[i] \notin W
  PROVE  CountIn(s, W) = 0
<1>1. {i \in DOMAIN s : s[i] \in W} = {}
  OBVIOUS
<1>2. QED
  BY <1>1, FS_EmptySet DEF CountIn

LEMMA InitBalance == Init => Balance
<1> SUFFICES ASSUME Init, NEW d \in Devices, NEW x \in CommandId
             PROVE  CountIn(events[d], AnsweredFor(x)) + CountIn(answers[d], PendingFor(x))
                      <= CountIn(applied, AppliedAs(x))
  BY DEF Balance
<1>1. DOMAIN events[d] = {} /\ DOMAIN answers[d] = {} /\ DOMAIN applied = {}
  BY DEF Init, SimulatorInit
<1>2. CountIn(events[d], AnsweredFor(x)) = 0
  BY <1>1, CountOfNone
<1>3. CountIn(answers[d], PendingFor(x)) = 0
  BY <1>1, CountOfNone
<1>4. CountIn(applied, AppliedAs(x)) = 0
  BY <1>1, CountOfNone
<1>5. QED
  BY <1>2, <1>3, <1>4

LEMMA ConsumeBalance ==
  ASSUME FlowTypes, Balance, NEW d \in Devices, Consume(d)
  PROVE  Balance'
<1> DEFINE c == commands[d][taken[d] + 1]
<1>1. /\ taken[d] < Len(commands[d]) /\ events' = events
      /\ \/ UNCHANGED <<answers, applied>>
         \/ OnPolicyCommand(d, c) /\ applied' = Append(applied, <<life, c.id>>)
  BY DEF Consume, engineVars
<1>2. c \in Command /\ c.id \in CommandId
  <2>1. c \in Command
    BY <1>1, TakenCommand DEF FlowTypes
  <2>2. QED
    BY <2>1 DEF Command
<1> HIDE DEF c
<1>3. CASE UNCHANGED <<answers, applied>>
  BY <1>1, <1>3 DEF Balance
<1>4. CASE OnPolicyCommand(d, c) /\ applied' = Append(applied, <<life, c.id>>)
  <2>1. SUFFICES ASSUME NEW e \in Devices, NEW x \in CommandId
                 PROVE  CountIn(events[e], AnsweredFor(x)) + CountIn(answers'[e], PendingFor(x))
                          <= CountIn(applied', AppliedAs(x))
    BY <1>1 DEF Balance
  <2>2. /\ answers[e] \in Seq(Answer) /\ applied \in Seq(Nat \X CommandId)
        /\ CountIn(events[e], AnsweredFor(x)) \in Nat /\ CountIn(answers[e], PendingFor(x)) \in Nat
        /\ CountIn(applied, AppliedAs(x)) \in Nat
    BY BalanceTypes
  <2>3. /\ <<life, c.id>> \in Nat \X CommandId
        /\ <<life, c.id>> \in AppliedAs(x) <=> c.id = x
    BY <1>2, FlowAssumption DEF FlowTypes, BoundTypes, AppliedAs
  <2>4. CountIn(applied', AppliedAs(x)) =
          IF c.id = x THEN CountIn(applied, AppliedAs(x)) + 1 ELSE CountIn(applied, AppliedAs(x))
    <3> DEFINE S == Nat \X CommandId
    <3> DEFINE p == <<life, c.id>>
    <3>1. applied \in Seq(S) /\ p \in S /\ (p \in AppliedAs(x) <=> c.id = x) /\ applied' = Append(applied, p)
      BY <1>4, <2>2, <2>3
    <3> HIDE DEF S, p
    <3>2. CountIn(Append(applied, p), AppliedAs(x)) =
            IF p \in AppliedAs(x) THEN CountIn(applied, AppliedAs(x)) + 1 ELSE CountIn(applied, AppliedAs(x))
      BY <3>1, CountOfAppend
    <3>3. QED
      BY <3>1, <3>2
  <2>5. \/ CountIn(answers'[e], PendingFor(x)) = CountIn(answers[e], PendingFor(x))
        \/ c.id = x /\ CountIn(answers'[e], PendingFor(x)) = CountIn(answers[e], PendingFor(x)) + 1
    <3>1. CASE answers'[e] = answers[e]
      BY <3>1
    <3>2. CASE answers'[e] # answers[e]
      <4>1. PICK passed \in BOOLEAN : answers' = [answers EXCEPT ![d] = Append(@, Scheduled(c, passed))]
        BY <1>4, <3>2 DEF OnPolicyCommand
      <4>2. answers \in [Devices -> Seq(Answer)]
        BY DEF FlowTypes, EngineTypes, SimulatorTypeOK
      <4>3. e = d /\ answers'[e] = Append(answers[e], Scheduled(c, passed))
        BY <3>2, <4>1, <4>2
      <4>4. Scheduled(c, passed) \in Answer /\ Scheduled(c, passed).cause = c.id
        BY <1>2, ScheduledType DEF Scheduled
      <4>5. Scheduled(c, passed) \in PendingFor(x) <=> c.id = x
        BY <4>4 DEF PendingFor
      <4>6. CountIn(answers'[e], PendingFor(x)) =
              IF c.id = x THEN CountIn(answers[e], PendingFor(x)) + 1 ELSE CountIn(answers[e], PendingFor(x))
        BY <2>2, <4>3, <4>4, <4>5, CountOfAppend
      <4>7. QED
        BY <4>6
    <3>3. QED
      BY <3>1, <3>2
  <2>6. CountIn(events[e], AnsweredFor(x)) + CountIn(answers[e], PendingFor(x)) <= CountIn(applied, AppliedAs(x))
    BY DEF Balance
  <2>7. QED
    BY <2>2, <2>4, <2>5, <2>6
<1>5. QED
  BY <1>1, <1>3, <1>4

LEMMA TickBalance ==
  ASSUME FlowTypes, Balance, NEW elapsed \in Nat, Tick(elapsed)
  PROVE  Balance'
<1>1. applied' = applied /\ answers' = [d \in Devices |-> Later(d, elapsed)]
  BY DEF Tick, BeginTick
<1>2. SUFFICES ASSUME NEW d \in Devices, NEW x \in CommandId
               PROVE  CountIn(events'[d], AnsweredFor(x)) + CountIn(answers'[d], PendingFor(x))
                        <= CountIn(applied, AppliedAs(x))
  BY <1>1 DEF Balance
<1> DEFINE sent == DueEvents(d, elapsed)
<1> DEFINE rest == Later(d, elapsed)
<1> DEFINE n == DueCount(d, elapsed)
<1>3. /\ events[d] \in Seq(Event) /\ answers[d] \in Seq(Answer)
      /\ CountIn(events[d], AnsweredFor(x)) \in Nat /\ CountIn(answers[d], PendingFor(x)) \in Nat
      /\ CountIn(applied, AppliedAs(x)) \in Nat
  BY BalanceTypes
<1>4. EngineTypes /\ Ordered(answers[d])
  BY DEF FlowTypes, EngineTypes
<1>5. n \in 0 .. Len(answers[d])
  BY <1>3, DueFirst
<1>6. /\ sent \in Seq(AnswerEvent) /\ Len(sent) <= n
      /\ \A i \in 1 .. Len(sent) : i \in 1 .. Len(answers[d]) /\ sent[i].cause = answers[d][i].cause
  BY <1>4, DueEventsType
<1>7. /\ rest \in Seq(Answer)
      /\ \A i \in 1 .. Len(rest) : /\ n + i \in 1 .. Len(answers[d])
                                   /\ rest[i].cause = answers[d][n + i].cause
  BY <1>3, <1>4, LaterType
<1>8. answers'[d] = rest
  BY <1>1
<1>9. \/ events'[d] = events[d]
      \/ events'[d] = events[d] \o sent /\ sent \in Seq(Event)
  BY TickEvents
<1> HIDE DEF sent, rest, n
<1>10. \A i \in 1 .. Len(answers[d]) : answers[d][i] \in Answer
  BY <1>3
<1>11. \A i \in 1 .. Len(sent) : sent[i] \in AnsweredFor(x) => answers[d][i] \in PendingFor(x)
  BY <1>6, <1>10 DEF AnsweredFor, PendingFor
<1>12. \A i \in 1 .. Len(rest) :
         n + i \in 1 .. Len(answers[d]) /\ (rest[i] \in PendingFor(x) => answers[d][n + i] \in PendingFor(x))
  BY <1>7, <1>10 DEF PendingFor
<1>13. CountIn(sent, AnsweredFor(x)) + CountIn(rest, PendingFor(x)) <= CountIn(answers[d], PendingFor(x))
  BY <1>3, <1>5, <1>6, <1>7, <1>11, <1>12, CountOfParts
<1>14. CountIn(sent, AnsweredFor(x)) \in Nat /\ CountIn(rest, PendingFor(x)) \in Nat
       /\ CountIn(events'[d], AnsweredFor(x)) \in Nat
  <2>1. CountIn(sent, AnsweredFor(x)) \in Nat
    BY <1>6, CountType
  <2>2. CountIn(rest, PendingFor(x)) \in Nat
    BY <1>7, CountType
  <2>3. events'[d] \in Seq(Event)
    BY TickEvents
  <2>4. CountIn(events'[d], AnsweredFor(x)) \in Nat
    BY <2>3, CountType
  <2>5. QED
    BY <2>1, <2>2, <2>4
<1>15. CountIn(events'[d], AnsweredFor(x)) <= CountIn(events[d], AnsweredFor(x)) + CountIn(sent, AnsweredFor(x))
  <2>1. CASE events'[d] = events[d]
    BY <1>3, <1>14, <2>1
  <2>2. CASE events'[d] = events[d] \o sent /\ sent \in Seq(Event)
    <3>1. CountIn(events[d] \o sent, AnsweredFor(x))
            <= CountIn(events[d], AnsweredFor(x)) + CountIn(sent, AnsweredFor(x))
      BY <1>3, <2>2, CountOfConcat
    <3>2. QED
      BY <2>2, <3>1
  <2>3. QED
    BY <1>9, <2>1, <2>2
<1>16. CountIn(events[d], AnsweredFor(x)) + CountIn(answers[d], PendingFor(x)) <= CountIn(applied, AppliedAs(x))
  BY DEF Balance
<1>17. CountIn(events'[d], AnsweredFor(x)) + CountIn(rest, PendingFor(x)) <= CountIn(applied, AppliedAs(x))
  BY <1>3, <1>13, <1>14, <1>15, <1>16
<1>18. QED
  BY <1>8, <1>17

LEMMA EmitBalance ==
  ASSUME FlowTypes, Balance, NEW d \in Devices, Emit(d)
  PROVE  Balance'
<1>1. applied' = applied /\ answers' = answers
  BY EmitEvents DEF Emit
<1>2. SUFFICES ASSUME NEW e \in Devices, NEW x \in CommandId
               PROVE  CountIn(events'[e], AnsweredFor(x)) + CountIn(answers[e], PendingFor(x))
                        <= CountIn(applied, AppliedAs(x))
  BY <1>1 DEF Balance
<1>3. /\ events[e] \in Seq(Event)
      /\ CountIn(events[e], AnsweredFor(x)) \in Nat /\ CountIn(answers[e], PendingFor(x)) \in Nat
      /\ CountIn(applied, AppliedAs(x)) \in Nat
  BY BalanceTypes
<1>4. CountIn(events'[e], AnsweredFor(x)) \in Nat
  <2>1. events'[e] \in Seq(Event)
    BY EmitEvents
  <2>2. QED
    BY <2>1, CountType
<1>5. CountIn(events'[e], AnsweredFor(x)) <= CountIn(events[e], AnsweredFor(x))
  <2>1. CASE events'[e] = events[e]
    BY <1>3, <2>1
  <2>2. CASE \E r \in RequestEvent : events'[e] = events[e] \o <<r>>
    <3>1. PICK r \in RequestEvent : events'[e] = events[e] \o <<r>>
      BY <2>2
    <3>2. r \notin AnsweredFor(x) /\ <<r>> \in Seq(Event)
      BY DEF RequestEvent, AnswerEvent, AnsweredFor, Event
    <3>3. \A i \in DOMAIN <<r>> : <<r>>[i] \notin AnsweredFor(x)
      BY <3>2
    <3>4. CountIn(<<r>>, AnsweredFor(x)) = 0
      BY <3>3, CountOfNone
    <3>5. CountIn(events[e] \o <<r>>, AnsweredFor(x))
            <= CountIn(events[e], AnsweredFor(x)) + CountIn(<<r>>, AnsweredFor(x))
      BY <1>3, <3>2, CountOfConcat
    <3>6. QED
      BY <1>3, <3>1, <3>4, <3>5
  <2>3. QED
    BY <2>1, <2>2, EmitEvents
<1>6. CountIn(events[e], AnsweredFor(x)) + CountIn(answers[e], PendingFor(x)) <= CountIn(applied, AppliedAs(x))
  BY DEF Balance
<1>7. QED
  BY <1>3, <1>4, <1>5, <1>6

LEMMA BalanceStep ==
  ASSUME FlowTypes, Grounds, Balance, [Next]_vars
  PROVE  Balance'
<1>1. ASSUME UNCHANGED <<events, answers, applied>> PROVE Balance'
  BY <1>1 DEF Balance
<1>2. CASE UNCHANGED vars
  BY <1>1, <1>2 DEF vars, engineVars, topicVars
<1>3. CASE Control
  BY <1>1, <1>3 DEF Control, OnControl, topicVars
<1>4. CASE FinishTick
  BY <1>1, <1>4, FinishTickStep DEF FinishTick, topicVars
<1>5. CASE Restart
  <2>1. events' = events /\ applied' = applied /\ \A d \in Devices : DOMAIN answers'[d] = {}
    BY <1>5 DEF Restart, Fresh
  <2>2. ASSUME NEW d \in Devices, NEW x \in CommandId
        PROVE  CountIn(events[d], AnsweredFor(x)) + CountIn(answers'[d], PendingFor(x))
                 <= CountIn(applied, AppliedAs(x))
    <3>1. CountIn(answers'[d], PendingFor(x)) = 0
      BY <2>1, CountOfNone
    <3>2. CountIn(events[d], AnsweredFor(x)) + CountIn(answers[d], PendingFor(x))
            <= CountIn(applied, AppliedAs(x))
      BY DEF Balance
    <3>3. CountIn(events[d], AnsweredFor(x)) \in Nat /\ CountIn(answers[d], PendingFor(x)) \in Nat
          /\ CountIn(applied, AppliedAs(x)) \in Nat
      BY BalanceTypes
    <3>4. QED
      BY <3>1, <3>2, <3>3
  <2>3. QED
    BY <2>1, <2>2 DEF Balance
<1>6. ASSUME NEW elapsed \in 0 .. 1, Tick(elapsed) PROVE Balance'
  BY <1>6, TickBalance
<1>7. ASSUME NEW d \in Devices, Consume(d) PROVE Balance'
  BY <1>7, ConsumeBalance
<1>8. ASSUME NEW d \in Devices, Emit(d) PROVE Balance'
  BY <1>8, EmitBalance
<1>9. ASSUME NEW d \in Devices, Route(d) PROVE Balance'
  BY <1>1, <1>9 DEF Route, engineVars
<1>10. ASSUME NEW d \in Devices, AgentStep(d) \/ LateOutput(d) \/ \E agent \in Agents : FailTask(agent, d)
       PROVE  Balance'
  <2>1. Output(d)
    BY <1>10, AgentsOutput
  <2>2. QED
    BY <1>1, <2>1 DEF Output, untouched, engineVars
<1>11. QED
  BY <1>2, <1>3, <1>4, <1>5, <1>6, <1>7, <1>8, <1>9, <1>10 DEF Next

LEMMA BalanceImpliesOneAnswer ==
  ASSUME FlowTypes, Balance
  PROVE  OneAnswerPerChallenge
<1>1. SUFFICES ASSUME NEW d \in Devices, NEW e \in Range(events[d]), e \in AnswerEvent
               PROVE  Cardinality({i \in DOMAIN events[d] :
                                     events[d][i] \in AnswerEvent /\ events[d][i].cause = e.cause})
                        <= Cardinality({i \in DOMAIN applied : applied[i][2] = e.cause})
  BY DEF OneAnswerPerChallenge
<1> DEFINE x == e.cause
<1>2. x \in CommandId
  BY <1>1 DEF AnswerEvent
<1> HIDE DEF x
<1>3. /\ CountIn(events[d], AnsweredFor(x)) \in Nat /\ CountIn(answers[d], PendingFor(x)) \in Nat
      /\ CountIn(applied, AppliedAs(x)) \in Nat /\ applied \in Seq(Nat \X CommandId)
  BY <1>2, BalanceTypes
<1>4. CountIn(events[d], AnsweredFor(x)) <= CountIn(applied, AppliedAs(x))
  <2>1. CountIn(events[d], AnsweredFor(x)) + CountIn(answers[d], PendingFor(x)) <= CountIn(applied, AppliedAs(x))
    BY <1>2 DEF Balance
  <2>2. QED
    BY <1>3, <2>1
<1>5. {i \in DOMAIN events[d] : events[d][i] \in AnswerEvent /\ events[d][i].cause = x}
        = {i \in DOMAIN events[d] : events[d][i] \in AnsweredFor(x)}
  BY DEF AnsweredFor
<1>6. {i \in DOMAIN applied : applied[i][2] = x} = {i \in DOMAIN applied : applied[i] \in AppliedAs(x)}
  <2>1. \A i \in DOMAIN applied : applied[i] \in Nat \X CommandId
    BY <1>3
  <2>2. QED
    BY <2>1 DEF AppliedAs
<1>7. QED
  BY <1>4, <1>5, <1>6 DEF CountIn, x

\* However often a challenge's command is repeated, and the simulator restarted,
\* the task it belongs to is resumed by one answer for each time it was taken up.
THEOREM ChallengesAnsweredOnce == Spec => []OneAnswerPerChallenge
<1>1. Init => Balance
  BY InitBalance
<1>2. (FlowTypes /\ Grounds) /\ Balance /\ [Next]_vars => Balance'
  BY BalanceStep
<1>3. (FlowTypes /\ Grounds) /\ Balance => OneAnswerPerChallenge
  BY BalanceImpliesOneAnswer
<1>4. QED
  BY <1>1, <1>2, <1>3, FlowInvariant, PTL DEF Spec
=============================================================================
