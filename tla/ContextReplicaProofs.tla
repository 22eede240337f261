------------------------ MODULE ContextReplicaProofs ------------------------
(***************************************************************************)
(* Theorems about ContextReplica for every set of devices, customers,      *)
(* callers and records, every window size, and any number of faults:       *)
(* types first, then the inductive invariant behind the table, its         *)
(* lookups and its readiness.                                              *)
(***************************************************************************)
EXTENDS ContextReplica, FiniteSetTheorems, SequenceTheorems, WellFoundedInduction, TLAPS

-----------------------------------------------------------------------------
(* Types *)

LEMMA TopicCount == Len(ContextTopics) = 3
  BY DEF ContextTopics

LEMMA BisectRightType ==
  ASSUME NEW w \in Seq(Signal), NEW time \in Nat
  PROVE  BisectRight(w, time) \in 0 .. Len(w)
<1> DEFINE S == {i \in DOMAIN w : w[i].time <= time}
<1>1. DOMAIN w = 1 .. Len(w) /\ Len(w) \in Nat
  OBVIOUS
<1>2. IsFiniteSet(1 .. Len(w)) /\ Cardinality(1 .. Len(w)) = Len(w)
  BY <1>1, FS_Interval
<1>3. S \subseteq 1 .. Len(w)
  BY <1>1
<1>4. IsFiniteSet(S) /\ Cardinality(S) <= Len(w)
  BY <1>2, <1>3, FS_Subset
<1>5. Cardinality(S) \in Nat
  BY <1>4, FS_CardinalityType
<1>6. QED
  BY <1>1, <1>4, <1>5 DEF BisectRight

LEMMA InsertAtType ==
  ASSUME NEW w \in Seq(Signal), NEW i \in 1 .. Len(w) + 1, NEW s \in Signal
  PROVE  InsertAt(w, i, s) \in Seq(Signal)
<1>1. SubSeq(w, 1, i - 1) \in Seq(Signal)
  BY SubSeqProperties
<1>2. SubSeq(w, i, Len(w)) \in Seq(Signal)
  BY SubSeqProperties
<1>3. QED
  BY <1>1, <1>2 DEF InsertAt

LEMMA InsertedType ==
  ASSUME NEW w \in Seq(Signal), NEW s \in Signal
  PROVE  Inserted(w, s) \in Seq(Signal)
<1> DEFINE place == BisectRight(w, s.time)
<1>1. place \in 0 .. Len(w)
  BY BisectRightType DEF Signal
<1>2. CASE Len(w) < SIGNALS_PER_DEVICE
  BY <1>1, <1>2, InsertAtType DEF Inserted
<1>3. CASE ~(Len(w) < SIGNALS_PER_DEVICE) /\ place = 0
  BY <1>3 DEF Inserted
<1>4. CASE ~(Len(w) < SIGNALS_PER_DEVICE) /\ place # 0
  <2>1. Tail(w) \in Seq(Signal) /\ Len(Tail(w)) = Len(w) - 1
    BY <1>1, <1>4
  <2>2. place \in 1 .. Len(Tail(w)) + 1
    BY <1>1, <1>4, <2>1
  <2>3. InsertAt(Tail(w), place, s) \in Seq(Signal)
    BY <2>1, <2>2, InsertAtType
  <2>4. QED
    BY <1>4, <2>3 DEF Inserted
<1>5. QED
  BY <1>2, <1>3, <1>4

LEMMA ApplyDeviceType ==
  ASSUME TableTypeOK, NEW d \in Devices, NEW row \in DeviceRow \cup {Absent}, ApplyDevice(d, row)
  PROVE  /\ rows' \in [Devices -> DeviceRow \cup {Absent}]
         /\ index' \in [Customers -> SUBSET Devices]
<1>1. rows' \in [Devices -> DeviceRow \cup {Absent}]
  BY DEF TableTypeOK, ApplyDevice
<1>2. Unindexed(d) \in [Customers -> SUBSET Devices]
  BY DEF Unindexed, TableTypeOK
<1>3. index' \in [Customers -> SUBSET Devices]
  BY <1>2 DEF ApplyDevice
<1>4. QED
  BY <1>1, <1>3

LEMMA ApplySignalType ==
  ASSUME TableTypeOK, NEW r \in SignalRecord, r.time # NoTime, ApplySignal(r)
  PROVE  /\ signals' \in [Devices -> Seq(Signal)]
         /\ signalIds' \in [Devices -> SUBSET SignalIds]
<1> DEFINE s == [id |-> r.id, time |-> r.time]
<1>1. s \in Signal /\ r.device \in Devices /\ r.id \in SignalIds
  BY DEF Signal, SignalRecord
<1>2. CASE r.id \in signalIds[r.device]
  BY <1>2 DEF ApplySignal, TableTypeOK
<1>3. CASE r.id \notin signalIds[r.device]
  <2>1. signals[r.device] \in Seq(Signal)
    BY <1>1 DEF TableTypeOK
  <2>2. Inserted(signals[r.device], s) \in Seq(Signal)
    BY <1>1, <2>1, InsertedType
  <2>3. signals' = [signals EXCEPT ![r.device] = Inserted(signals[r.device], s)]
    BY <1>3 DEF ApplySignal
  <2>4. signals' \in [Devices -> Seq(Signal)]
    BY <2>2, <2>3 DEF TableTypeOK
  <2>5. signalIds' \in [Devices -> SUBSET SignalIds]
    <3>1. signalIds' = [signalIds EXCEPT ![r.device] = signalIds[r.device] \cup {r.id}]
      BY <1>3 DEF ApplySignal
    <3>2. signalIds[r.device] \cup {r.id} \in SUBSET SignalIds
      BY <1>1 DEF TableTypeOK
    <3>3. QED
      BY <3>1, <3>2 DEF TableTypeOK
  <2>6. QED
    BY <2>4, <2>5
<1>4. QED
  BY <1>2, <1>3

LEMMA NotifyAllType ==
  ASSUME lookup \in [Callers -> Calls], NotifyAll
  PROVE  /\ lookup' \in [Callers -> Calls]
         /\ \A c \in Callers :
              /\ lookup[c].state # "idle" <=> lookup'[c].state # "idle"
              /\ lookup'[c].state # "waiting"
<1>1. SUFFICES ASSUME NEW c \in Callers
               PROVE  /\ lookup'[c] \in Calls
                      /\ lookup[c].state # "idle" <=> lookup'[c].state # "idle"
                      /\ lookup'[c].state # "waiting"
  BY DEF NotifyAll
<1>2. lookup[c] \in Calls
  OBVIOUS
<1>3. CASE lookup[c].state = "waiting"
  <2>1. lookup'[c] = [lookup[c] EXCEPT !.state = "notified"]
    BY <1>3 DEF NotifyAll
  <2>2. lookup[c] \in [state : {"calling", "waiting", "notified"}, device : Devices,
                       min : MinSeqs, tries : 0 .. StaleRetries]
    BY <1>2, <1>3 DEF Calls
  <2>3. QED
    BY <1>3, <2>1, <2>2 DEF Calls
<1>4. CASE lookup[c].state # "waiting"
  BY <1>2, <1>4 DEF NotifyAll
<1>5. QED
  BY <1>3, <1>4

LEMMA ApplyType ==
  ASSUME TableTypeOK, lookup \in [Callers -> Calls],
         NEW t \in Topics, NEW offset \in Nat, NEW r, Applicable(t, r), Apply(t, offset, r)
  PROVE  TableTypeOK' /\ lookup' \in [Callers -> Calls]
<1>1. offsets' \in [Topics -> Nat \cup {-1}]
  BY DEF Apply, TableTypeOK
<1>2. lookup' \in [Callers -> Calls]
  BY NotifyAllType DEF Apply
<1>3. CASE t = "device.context"
  <2>1. ApplyDevice(r.device, r.row) /\ r \in DeviceRecord
    BY <1>3 DEF Apply, Applicable, Records
  <2>2. r.device \in Devices /\ r.row \in DeviceRow \cup {Absent}
    BY <2>1 DEF DeviceRecord
  <2>3. QED
    BY <1>1, <1>2, <2>1, <2>2, ApplyDeviceType DEF TableTypeOK, ApplyDevice
<1>4. CASE t = "customer.context"
  <2>1. ApplyCustomer(r) /\ r \in CustomerRecord
    BY <1>4 DEF Apply, Applicable, Records
  <2>2. QED
    BY <1>1, <1>2, <2>1 DEF TableTypeOK, ApplyCustomer, CustomerRecord
<1>5. CASE t = "device.risk-signals"
  <2>1. ApplySignal(r) /\ r \in SignalRecord /\ r.time # NoTime
    BY <1>5 DEF Apply, Applicable, Records
  <2>2. QED
    BY <1>1, <1>2, <2>1, ApplySignalType DEF TableTypeOK, ApplySignal
<1>6. QED
  BY <1>3, <1>4, <1>5 DEF Topics

LEMMA ResultType ==
  ASSUME TableTypeOK, NEW d \in Devices, NEW min \in MinSeqs
  PROVE  Result(d, min) \in Answers
<1>1. Status(d, min) \in {"OK", "STALE", "NOT_FOUND"}
  BY ReplicaAssumption DEF Status, Satisfies
<1>2. QED
  BY <1>1 DEF Result, Answers, TableTypeOK

LEMMA BusyType ==
  ASSUME lookup \in [Callers -> Calls], NEW c \in Callers, lookup[c].state # "idle"
  PROVE  lookup[c] \in [state : {"calling", "waiting", "notified"}, device : Devices,
                        min : MinSeqs, tries : 0 .. StaleRetries]
  BY DEF Calls

LEMMA RepliedType ==
  ASSUME TypeOK, NEW c \in Callers, lookup[c].state # "idle", Replied(c)
  PROVE  lookup' \in [Callers -> Calls] /\ answer' \in [Callers -> Answers]
<1> DEFINE result == Result(lookup[c].device, lookup[c].min)
<1>1. lookup[c] \in [state : {"calling", "waiting", "notified"}, device : Devices,
                     min : MinSeqs, tries : 0 .. StaleRetries]
  BY BusyType DEF TypeOK
<1>2. result \in Answers
  BY <1>1, ResultType DEF TypeOK
<1>3. CASE result.status = "STALE" /\ lookup[c].tries < StaleRetries
  <2>1. lookup[c].tries + 1 \in 0 .. StaleRetries
    BY <1>1, <1>3, ReplicaAssumption
  <2>2. [lookup[c] EXCEPT !.state = "calling", !.tries = @ + 1] \in Calls
    BY <1>1, <2>1 DEF Calls
  <2>3. lookup' = [lookup EXCEPT ![c] = [lookup[c] EXCEPT !.state = "calling", !.tries = @ + 1]]
        /\ answer' = answer
    BY <1>3 DEF Replied, TypeOK
  <2>4. QED
    BY <2>2, <2>3 DEF TypeOK
<1>4. CASE ~(result.status = "STALE" /\ lookup[c].tries < StaleRetries)
  <2>1. lookup' = [lookup EXCEPT ![c] = Idle] /\ answer' = [answer EXCEPT ![c] = result]
    BY <1>4 DEF Replied
  <2>2. Idle \in Calls
    BY DEF Idle, Calls
  <2>3. QED
    BY <1>2, <2>1, <2>2 DEF TypeOK
<1>5. QED
  BY <1>3, <1>4

LEMMA WaitingType ==
  ASSUME TypeOK, NEW c \in Callers, lookup[c].state # "idle",
         lookup' = [lookup EXCEPT ![c].state = "waiting"]
  PROVE  lookup' \in [Callers -> Calls]
<1>1. [lookup[c] EXCEPT !.state = "waiting"] \in Calls
  BY BusyType DEF TypeOK, Calls
<1>2. QED
  BY <1>1 DEF TypeOK

LEMMA LookupType ==
  ASSUME TypeOK, NEW c \in Callers, Lookup(c)
  PROVE  TypeOK'
<1>1. lookup[c].state # "idle"
  BY DEF Lookup, Call, Wake, Expire
<1>2. Replied(c) \/ (lookup' = [lookup EXCEPT ![c].state = "waiting"] /\ answer' = answer)
  BY DEF Lookup, Call, Wake, Expire
<1>3. lookup' \in [Callers -> Calls] /\ answer' \in [Callers -> Answers]
  BY <1>1, <1>2, RepliedType, WaitingType DEF TypeOK
<1>4. UNCHANGED <<tableVars, log, materializerVars, faults>>
  BY DEF Lookup, Call, Wake, Expire
<1>5. QED
  BY <1>3, <1>4 DEF TypeOK, TableTypeOK, tableVars, materializerVars

LEMMA RecordType ==
  ASSUME TypeOK, NEW t \in Topics, position[t] < Len(log[t])
  PROVE  Next1(t) \in Produced[t]
<1>1. log[t] \in Seq(Produced[t]) /\ position[t] \in Nat
  BY DEF TypeOK
<1>2. position[t] + 1 \in 1 .. Len(log[t])
  BY <1>1
<1>3. QED
  BY <1>1, <1>2 DEF Next1

LEMMA ConsumeType ==
  ASSUME TypeOK, NEW t \in Topics, Consume(t)
  PROVE  TypeOK'
<1>1. position' \in [Topics -> Nat] /\ consumed' \in [Topics -> Nat \cup {-1}]
  BY DEF TypeOK, Consume
<1>2. TableTypeOK' /\ lookup' \in [Callers -> Calls]
  <2>1. CASE Applicable(t, Next1(t))
    BY <2>1, ApplyType DEF Consume, TypeOK
  <2>2. CASE ~Applicable(t, Next1(t))
    BY <2>2 DEF Consume, TypeOK, TableTypeOK, tableVars
  <2>3. QED
    BY <2>1, <2>2
<1>3. QED
  BY <1>1, <1>2 DEF TypeOK, Consume

LEMMA TableLostType ==
  ASSUME TableLost
  PROVE  TableTypeOK'
  BY DEF TableLost, TableTypeOK, NoRows, NoIndex, NoSignals, NoSignalIds, NoOffsets

LEMMA MaterializerType ==
  ASSUME TypeOK, Materializer \/ BeginFails \/ Die
  PROVE  TypeOK'
<1> USE DEF TypeOK, TableTypeOK, tableVars
<1>1. CASE StartReplica
  <2>1. \A t \in Topics : Len(log[t]) \in Nat
    OBVIOUS
  <2>2. QED
    BY <1>1, <2>1 DEF StartReplica
<1>2. CASE Scan
  <2>1. ContextTopics[scanned + 1] \in Topics /\ scanned + 1 \in 0 .. Len(ContextTopics)
    <3>1. Len(ContextTopics) = 3 /\ \A i \in 1 .. 3 : ContextTopics[i] \in Topics
      BY DEF ContextTopics, Topics
    <3>2. scanned \in 0 .. Len(ContextTopics) /\ scanned < Len(ContextTopics)
      BY <1>2 DEF Scan
    <3>3. QED
      BY <3>1, <3>2
  <2>2. Len(log[ContextTopics[scanned + 1]]) - 1 \in Nat \cup {-1}
    BY <2>1
  <2>3. QED
    BY <1>2, <2>1, <2>2 DEF Scan
<1>3. CASE Begin
  BY <1>3 DEF Begin
<1>4. CASE CheckReady
  BY <1>4 DEF CheckReady, ConsumedWithMarkers, CaughtUp
<1>5. CASE \E t \in Topics : Consume(t)
  BY <1>5, ConsumeType
<1>6. CASE \E t \in Topics : PassControl(t)
  BY <1>6 DEF PassControl
<1>7. CASE BeginFails
  BY <1>7, ReplicaAssumption, TopicCount DEF BeginFails, Fault, NoOffsets
<1>8. CASE Die
  <2>1. TableTypeOK'
    BY <1>8, TableLostType DEF Die
  <2>2. lookup' \in [Callers -> Calls]
    BY <1>8 DEF Die, Calls, Idle
  <2>3. /\ targets' \in [Topics -> Nat \cup {-1}] /\ consumed' \in [Topics -> Nat \cup {-1}]
        /\ position' \in [Topics -> Nat]
    BY <1>8 DEF Die, NoOffsets
  <2>4. faults' \in 0 .. MaxFaults
    BY <1>8, ReplicaAssumption DEF Die, Fault
  <2>5. scanned' \in 0 .. Len(ContextTopics) /\ ready' = FALSE /\ phase' = "down"
    <3>1. scanned' = 0 /\ ready' = FALSE /\ phase' = "down"
      BY <1>8 DEF Die
    <3>2. QED
      BY <3>1, TopicCount
  <2>6. answer' = answer /\ log' = log /\ atStart' = atStart
    BY <1>8 DEF Die
  <2>7. QED
    BY <2>1, <2>2, <2>3, <2>4, <2>5, <2>6 DEF TypeOK
<1>9. QED
  BY <1>1, <1>2, <1>3, <1>4, <1>5, <1>6, <1>7, <1>8 DEF Materializer

LEMMA AppendType ==
  ASSUME TypeOK, NEW t \in Topics, Append1(t)
  PROVE  TypeOK'
<1>1. PICK r \in Produced[t] : log' = [log EXCEPT ![t] = Append(@, r)]
  BY DEF Append1
<1>2. Append(log[t], r) \in Seq(Produced[t]) /\ Len(Append(log[t], r)) <= MaxLog
  BY <1>1, ReplicaAssumption DEF Append1, TypeOK
<1>3. \A u \in Topics : log'[u] \in Seq(Produced[u]) /\ Len(log'[u]) <= MaxLog
  BY <1>1, <1>2 DEF TypeOK
<1>4. QED
  BY <1>1, <1>3 DEF Append1, TypeOK, TableTypeOK, tableVars, materializerVars

LEMMA AskType ==
  ASSUME TypeOK, NEW c \in Callers, NEW d \in Devices, NEW min \in MinSeqs, Ask(c, d, min)
  PROVE  TypeOK'
<1>1. [state |-> "calling", device |-> d, min |-> min, tries |-> 0] \in Calls
  BY ReplicaAssumption DEF Calls
<1>2. QED
  BY <1>1 DEF Ask, TypeOK, TableTypeOK, tableVars, materializerVars

LEMMA InitType == Init => TypeOK
<1>1. SUFFICES ASSUME Init PROVE TypeOK
  OBVIOUS
<1>2. TableTypeOK
  BY <1>1 DEF Init, TableInit, TableTypeOK, NoRows, NoIndex, NoSignals, NoSignalIds, NoOffsets
<1>3. QED
  <2>1. Idle \in Calls /\ NoAnswer \in Answers
    BY DEF Calls, Idle, Answers
  <2>2. lookup \in [Callers -> Calls] /\ answer \in [Callers -> Answers]
    BY <1>1, <2>1 DEF Init
  <2>3. DOMAIN log = Topics /\ \A t \in Topics : log[t] \in Seq(Produced[t]) /\ Len(log[t]) <= MaxLog
    BY <1>1, ReplicaAssumption DEF Init
  <2>4. /\ targets \in [Topics -> Nat \cup {-1}] /\ consumed \in [Topics -> Nat \cup {-1}]
        /\ position \in [Topics -> Nat] /\ atStart \in [Topics -> Nat]
    BY <1>1 DEF Init, NoOffsets
  <2>5. /\ scanned \in 0 .. Len(ContextTopics) /\ ready = FALSE /\ phase = "down"
        /\ faults \in 0 .. MaxFaults
    <3>1. scanned = 0 /\ ready = FALSE /\ phase = "down" /\ faults = 0
      BY <1>1 DEF Init
    <3>2. 0 \in 0 .. MaxFaults
      BY ReplicaAssumption
    <3>3. QED
      BY <3>1, <3>2, TopicCount
  <2>6. QED
    BY <1>2, <2>2, <2>3, <2>4, <2>5 DEF TypeOK

LEMMA NextType == TypeOK /\ [Next]_vars => TypeOK'
<1>1. SUFFICES ASSUME TypeOK, [Next]_vars PROVE TypeOK'
  OBVIOUS
<1>2. CASE UNCHANGED vars
  BY <1>1, <1>2 DEF vars, tableVars, materializerVars, TypeOK, TableTypeOK
<1>3. CASE Next
  BY <1>1, <1>3, MaterializerType, LookupType, AskType, AppendType DEF Next
<1>4. QED
  BY <1>1, <1>2, <1>3

\* The table, the materializer and the lookups keep their types.
THEOREM ReplicaTypeSafety == Spec => []TypeOK
  BY InitType, NextType, PTL DEF Spec

-----------------------------------------------------------------------------
(* The inductive invariant *)

\* The index lists every device under its row's customer and nowhere else.
IndexInv ==
  \A c \in Customers : index[c] = {d \in Devices : rows[d] # Absent /\ rows[d].customer = c}

IInv ==
  /\ TypeOK
  /\ ReplayInv
  /\ IndexInv
  /\ TableReflectsLog
  /\ OffsetsCoverLog
  /\ NoMissedWakeup
  /\ AnswersReproducible
  /\ AnswersInPast

-----------------------------------------------------------------------------
(* Compaction of a log *)

LEMMA LeastNat ==
  ASSUME NEW S \in SUBSET Nat, S # {}
  PROVE  \E n \in S : \A m \in S : n <= m
<1>1. PICK n \in S : \A m \in S : ~(<<m, n>> \in OpToRel(<, Nat))
  BY NatLessThanWellFounded, WFMin
<1>2. \A m \in S : ~(m < n)
  BY <1>1 DEF OpToRel
<1>3. QED
  BY <1>2

LEMMA MaxOfPrefix ==
  ASSUME NEW n \in Nat, NEW S \in SUBSET (1 .. n), S # {}
  PROVE  Max(S) \in S /\ \A i \in S : i <= Max(S)
<1> DEFINE T == {n - i : i \in S}
<1>0. \A i \in S : i \in 1 .. n /\ n - i \in Nat
  OBVIOUS
<1>1. T \in SUBSET Nat /\ T # {}
  BY <1>0
<1>2. PICK m \in T : \A k \in T : m <= k
  BY <1>1, LeastNat
<1>3. PICK i \in S : m = n - i
  BY <1>2
<1>4. \A j \in S : i >= j
  <2>1. SUFFICES ASSUME NEW j \in S PROVE i >= j
    OBVIOUS
  <2>2. n - i <= n - j
    BY <1>2, <1>3
  <2>3. QED
    BY <2>2
<1>5. Max(S) \in S /\ \A j \in S : Max(S) >= j
  BY <1>4 DEF Max
<1>6. QED
  BY <1>5

\* Records after the first n say nothing about the first n.
LEMMA LatestOfPrefix ==
  ASSUME NEW n \in Nat, NEW s, NEW u, \A i \in 1 .. n : s[i] = u[i]
  PROVE  /\ \A t \in Topics : Upto(t, s, n) = Upto(t, u, n)
         /\ \A d \in Devices : LatestRow(s, d, n) = LatestRow(u, d, n)
         /\ \A c \in Customers : LatestCustomer(s, c, n) = LatestCustomer(u, c, n)
<1>1. ASSUME NEW t \in Topics PROVE Upto(t, s, n) = Upto(t, u, n)
  BY DEF Upto
<1>2. ASSUME NEW d \in Devices PROVE LatestRow(s, d, n) = LatestRow(u, d, n)
  <2> DEFINE About(l) == {i \in Upto("device.context", l, n) : l[i].device = d}
  <2>1. About(s) = About(u) /\ About(s) \in SUBSET (1 .. n)
    BY DEF Upto
  <2>2. About(s) # {} => Max(About(s)) \in 1 .. n
    BY <2>1, MaxOfPrefix
  <2>3. QED
    BY <2>1, <2>2 DEF LatestRow
<1>3. ASSUME NEW c \in Customers PROVE LatestCustomer(s, c, n) = LatestCustomer(u, c, n)
  <2> DEFINE About(l) == {i \in Upto("customer.context", l, n) : l[i].customer = c}
  <2>1. About(s) = About(u) /\ About(s) \in SUBSET (1 .. n)
    BY DEF Upto
  <2>2. About(s) # {} => Max(About(s)) \in 1 .. n
    BY <2>1, MaxOfPrefix
  <2>3. QED
    BY <2>1, <2>2 DEF LatestCustomer
<1>4. QED
  BY <1>1, <1>2, <1>3

LEMMA MaxOfNext ==
  ASSUME NEW n \in Nat, NEW S \in SUBSET (1 .. n + 1), n + 1 \in S
  PROVE  Max(S) = n + 1
<1>1. n + 1 \in Nat /\ S # {}
  OBVIOUS
<1>2. Max(S) \in S /\ \A i \in S : i <= Max(S)
  BY <1>1, MaxOfPrefix
<1>3. Max(S) \in 1 .. n + 1 /\ n + 1 <= Max(S)
  BY <1>2
<1>4. QED
  BY <1>3

\* One more record: it replaces what the log said of the device it is about.
LEMMA LatestOfNext ==
  ASSUME NEW n \in Nat, NEW s
  PROVE  /\ \A t \in Topics : Upto(t, s, n + 1) =
              Upto(t, s, n) \cup (IF Applicable(t, s[n + 1]) THEN {n + 1} ELSE {})
         /\ \A d \in Devices : LatestRow(s, d, n + 1) =
              IF Applicable("device.context", s[n + 1]) /\ s[n + 1].device = d
                THEN s[n + 1].row ELSE LatestRow(s, d, n)
         /\ \A c \in Customers : LatestCustomer(s, c, n + 1) =
              IF Applicable("customer.context", s[n + 1]) /\ s[n + 1].customer = c
                THEN s[n + 1].row ELSE LatestCustomer(s, c, n)
<1>0. 1 .. n + 1 = (1 .. n) \cup {n + 1}
  OBVIOUS
<1>1. ASSUME NEW t \in Topics
      PROVE  Upto(t, s, n + 1) =
              Upto(t, s, n) \cup (IF Applicable(t, s[n + 1]) THEN {n + 1} ELSE {})
  BY <1>0 DEF Upto
<1>2. ASSUME NEW d \in Devices
      PROVE  LatestRow(s, d, n + 1) =
               IF Applicable("device.context", s[n + 1]) /\ s[n + 1].device = d
                 THEN s[n + 1].row ELSE LatestRow(s, d, n)
  <2> DEFINE About(m) == {i \in Upto("device.context", s, m) : s[i].device = d}
  <2>1. CASE Applicable("device.context", s[n + 1]) /\ s[n + 1].device = d
    <3>1. n + 1 \in About(n + 1) /\ About(n + 1) \in SUBSET (1 .. n + 1)
      BY <2>1 DEF Upto
    <3>2. Max(About(n + 1)) = n + 1
      BY <3>1, MaxOfNext
    <3>3. QED
      BY <2>1, <3>1, <3>2 DEF LatestRow
  <2>2. CASE ~(Applicable("device.context", s[n + 1]) /\ s[n + 1].device = d)
    <3>1. About(n + 1) = About(n)
      BY <1>0, <2>2 DEF Upto
    <3>2. QED
      BY <2>2, <3>1 DEF LatestRow
  <2>3. QED
    BY <2>1, <2>2
<1>3. ASSUME NEW c \in Customers
      PROVE  LatestCustomer(s, c, n + 1) =
               IF Applicable("customer.context", s[n + 1]) /\ s[n + 1].customer = c
                 THEN s[n + 1].row ELSE LatestCustomer(s, c, n)
  <2> DEFINE About(m) == {i \in Upto("customer.context", s, m) : s[i].customer = c}
  <2>1. CASE Applicable("customer.context", s[n + 1]) /\ s[n + 1].customer = c
    <3>1. n + 1 \in About(n + 1) /\ About(n + 1) \in SUBSET (1 .. n + 1)
      BY <2>1 DEF Upto
    <3>2. Max(About(n + 1)) = n + 1
      BY <3>1, MaxOfNext
    <3>3. QED
      BY <2>1, <3>1, <3>2 DEF LatestCustomer
  <2>2. CASE ~(Applicable("customer.context", s[n + 1]) /\ s[n + 1].customer = c)
    <3>1. About(n + 1) = About(n)
      BY <1>0, <2>2 DEF Upto
    <3>2. QED
      BY <2>2, <3>1 DEF LatestCustomer
  <2>3. QED
    BY <2>1, <2>2
<1>4. QED
  BY <1>1, <1>2, <1>3
-----------------------------------------------------------------------------
(* Steps *)

\* Topics only grow.
LEMMA LogGrows ==
  ASSUME TypeOK, [Next]_vars, NEW t \in Topics
  PROVE  /\ Len(log[t]) \in Nat /\ Len(log'[t]) \in Nat /\ Len(log[t]) <= Len(log'[t])
         /\ \A i \in 1 .. Len(log[t]) : log'[t][i] = log[t][i]
<1>1. log[t] \in Seq(Produced[t]) /\ Len(log[t]) \in Nat
  BY DEF TypeOK
<1>2. CASE \E u \in Topics : Append1(u)
  <2>0. PICK u \in Topics : Append1(u)
    BY <1>2
  <2>1. PICK r \in Produced[u] : log' = [log EXCEPT ![u] = Append(@, r)]
    BY <2>0 DEF Append1
  <2>2. log'[t] = log[t] \/ (t = u /\ log'[t] = Append(log[t], r))
    BY <2>1 DEF TypeOK
  <2>3. CASE log'[t] = log[t]
    BY <1>1, <2>3
  <2>4. CASE t = u /\ log'[t] = Append(log[t], r)
    BY <1>1, <2>4
  <2>5. QED
    BY <2>2, <2>3, <2>4
<1>3. CASE log' = log
  BY <1>1, <1>3
<1>4. log' = log \/ \E u \in Topics : Append1(u)
  BY DEF Next, Materializer, Lookup, StartReplica, Scan, Begin, BeginFails, Consume, PassControl,
         CheckReady, Die, Ask, Call, Wake, Expire, vars
<1>5. QED
  BY <1>2, <1>3, <1>4

\* The consumer goes past a record of topic t that the table does not see.
Passed(t) ==
  /\ position[t] < Len(log[t])
  /\ ~Applicable(t, Next1(t))
  /\ position' = [position EXCEPT ![t] = @ + 1]
  /\ UNCHANGED <<tableVars, lookup, answer, log, ready>>

Applied(t) ==
  /\ position[t] < Len(log[t])
  /\ Applicable(t, Next1(t))
  /\ position' = [position EXCEPT ![t] = @ + 1]
  /\ Apply(t, position[t], Next1(t))
  /\ UNCHANGED <<answer, log, ready>>

\* What a step does to the table and its place in the topics.
LEMMA TableSteps ==
  ASSUME [Next]_vars
  PROVE  \/ \E t \in Topics : Applied(t) \/ Passed(t)
         \/ Die
         \/ UNCHANGED <<tableVars, position>>
<1>1. CASE \E t \in Topics : Consume(t)
  BY <1>1 DEF Consume, Applied, Passed
<1>2. CASE \E t \in Topics : PassControl(t)
  BY <1>2, ReplicaAssumption DEF PassControl, Passed, Applicable
<1>3. CASE Die
  BY <1>3
<1>4. CASE StartReplica \/ Scan \/ Begin \/ BeginFails \/ CheckReady \/ UNCHANGED vars
  BY <1>4 DEF StartReplica, Scan, Begin, BeginFails, CheckReady, vars, tableVars, materializerVars
<1>5. CASE \E c \in Callers : Lookup(c) \/ \E d \in Devices, min \in MinSeqs : Ask(c, d, min)
  BY <1>5 DEF Lookup, Call, Wake, Expire, Ask, materializerVars
<1>6. CASE \E t \in Topics : Append1(t)
  BY <1>6 DEF Append1, materializerVars
<1>7. QED
  BY <1>1, <1>2, <1>3, <1>4, <1>5, <1>6 DEF Next, Materializer

\* What a step does to the lookups and their answers.
LEMMA LookupSteps ==
  ASSUME [Next]_vars
  PROVE  \/ \E t \in Topics : Applied(t)
         \/ Die
         \/ \E c \in Callers : Lookup(c) \/ \E d \in Devices, min \in MinSeqs : Ask(c, d, min)
         \/ UNCHANGED <<rows, lookup, answer>>
<1>1. CASE \E t \in Topics : Consume(t)
  BY <1>1 DEF Consume, Applied, tableVars
<1>2. CASE \E t \in Topics : PassControl(t)
  BY <1>2 DEF PassControl, tableVars
<1>3. CASE StartReplica \/ Scan \/ Begin \/ BeginFails \/ CheckReady \/ UNCHANGED vars
  BY <1>3 DEF StartReplica, Scan, Begin, BeginFails, CheckReady, vars, tableVars
<1>4. CASE \E t \in Topics : Append1(t)
  BY <1>4 DEF Append1, tableVars
<1>5. QED
  BY <1>1, <1>2, <1>3, <1>4 DEF Next, Materializer

LEMMA AppliedType ==
  ASSUME TypeOK, NEW t \in Topics, Applied(t) \/ Passed(t)
  PROVE  /\ position[t] \in Nat /\ position'[t] = position[t] + 1
         /\ log'[t] = log[t] /\ log[t][position[t] + 1] = Next1(t)
         /\ \A u \in Topics \ {t} : position'[u] = position[u] /\ log'[u] = log[u]
  BY DEF TypeOK, Applied, Passed, Next1

LEMMA NextRecord ==
  ASSUME TypeOK, NEW t \in Topics, Applied(t) \/ Passed(t)
  PROVE  LET r == Next1(t)
             n == position[t]
         IN /\ Upto(t, log'[t], position'[t]) =
                 Upto(t, log[t], n) \cup (IF Applicable(t, r) THEN {n + 1} ELSE {})
            /\ \A d \in Devices : LatestRow(log'[t], d, position'[t]) =
                 IF Applicable("device.context", r) /\ r.device = d
                   THEN r.row ELSE LatestRow(log[t], d, n)
            /\ \A c \in Customers : LatestCustomer(log'[t], c, position'[t]) =
                 IF Applicable("customer.context", r) /\ r.customer = c
                   THEN r.row ELSE LatestCustomer(log[t], c, n)
<1> DEFINE r == log[t][position[t] + 1]
           n == position[t]
<1>1. n \in Nat /\ position'[t] = n + 1 /\ log'[t] = log[t] /\ r = Next1(t)
  BY AppliedType
<1>2. Upto(t, log[t], n + 1) =
        Upto(t, log[t], n) \cup (IF Applicable(t, r) THEN {n + 1} ELSE {})
  BY <1>1, LatestOfNext
<1>3. \A d \in Devices : LatestRow(log[t], d, n + 1) =
        IF Applicable("device.context", r) /\ r.device = d
          THEN r.row ELSE LatestRow(log[t], d, n)
  BY <1>1, LatestOfNext
<1>4. \A c \in Customers : LatestCustomer(log[t], c, n + 1) =
        IF Applicable("customer.context", r) /\ r.customer = c
          THEN r.row ELSE LatestCustomer(log[t], c, n)
  BY <1>1, LatestOfNext
<1>5. QED
  BY <1>1, <1>2, <1>3, <1>4

-----------------------------------------------------------------------------
(* The replay *)

LEMMA ReplayStep == TypeOK /\ ReplayInv /\ [Next]_vars => ReplayInv'
<1> SUFFICES ASSUME TypeOK, ReplayInv, [Next]_vars PROVE ReplayInv'
  OBVIOUS
<1>0. /\ targets \in [Topics -> Nat \cup {-1}] /\ consumed \in [Topics -> Nat \cup {-1}]
      /\ position \in [Topics -> Nat] /\ atStart \in [Topics -> Nat]
      /\ scanned \in 0 .. 3 /\ lookup \in [Callers -> Calls]
      /\ Len(ContextTopics) = 3
      /\ \A k \in 1 .. 3 : ContextTopics[k] \in Topics
      /\ \A t \in Topics : Len(log[t]) \in Nat
  BY DEF TypeOK, ContextTopics, Topics
<1>1. CASE StartReplica
  BY <1>0, <1>1 DEF StartReplica, ReplayInv, CaughtUp
<1>2. CASE Scan
  BY <1>0, <1>2 DEF Scan, ReplayInv, CaughtUp
<1>3. CASE BeginFails
  BY <1>0, <1>3 DEF BeginFails, ReplayInv, CaughtUp
<1>4. CASE Begin
  BY <1>0, <1>4 DEF Begin, ReplayInv, CaughtUp
<1>5. CASE CheckReady
  BY <1>0, <1>5 DEF CheckReady, ReplayInv, CaughtUp, ConsumedWithMarkers
<1>6. CASE \E t \in Topics : Consume(t)
  <2>1. PICK t \in Topics : Consume(t)
    BY <1>6
  <2>2. /\ position' = [position EXCEPT ![t] = @ + 1] /\ position[t] < Len(log[t])
        /\ consumed' = [consumed EXCEPT ![t] = position[t]]
        /\ UNCHANGED <<log, phase, scanned, targets, ready, atStart>>
    BY <2>1 DEF Consume
  <2>3. \A u \in Topics : /\ consumed'[u] < position'[u] /\ position'[u] <= Len(log'[u])
                          /\ atStart'[u] <= Len(log'[u]) /\ consumed'[u] >= consumed[u]
    <3>1. SUFFICES ASSUME NEW u \in Topics
                   PROVE  /\ consumed'[u] < position'[u] /\ position'[u] <= Len(log'[u])
                          /\ atStart'[u] <= Len(log'[u]) /\ consumed'[u] >= consumed[u]
      OBVIOUS
    <3>2. /\ consumed[u] < position[u] /\ position[u] <= Len(log[u]) /\ atStart[u] <= Len(log[u])
          /\ position[u] \in Nat /\ consumed[u] \in Nat \cup {-1} /\ Len(log[u]) \in Nat
      BY <1>0 DEF ReplayInv
    <3>3. CASE u = t
      <4>1. position'[u] = position[u] + 1 /\ consumed'[u] = position[u] /\ position[u] < Len(log[u])
        BY <1>0, <2>2, <3>3
      <4>2. QED
        BY <2>2, <3>2, <4>1
    <3>4. CASE u # t
      <4>1. position'[u] = position[u] /\ consumed'[u] = consumed[u]
        BY <1>0, <2>2, <3>4
      <4>2. QED
        BY <2>2, <3>2, <4>1
    <3>5. QED
      BY <3>3, <3>4
  <2>4. \A c \in Callers : lookup'[c].state # "idle" => lookup[c].state # "idle"
    BY <1>0, <2>1, NotifyAllType DEF Consume, Apply
  <2>5. ready' => CaughtUp(consumed)'
    <3>1. SUFFICES ASSUME ready, NEW u \in Topics PROVE consumed'[u] >= targets'[u]
      BY <2>2 DEF CaughtUp
    <3>2. consumed[u] >= targets[u] /\ consumed'[u] >= consumed[u] /\ targets'[u] = targets[u]
      BY <2>2, <2>3, <3>1 DEF ReplayInv, CaughtUp
    <3>3. /\ consumed[u] \in Nat \cup {-1} /\ targets[u] \in Nat \cup {-1}
          /\ consumed'[u] \in Nat \cup {-1}
      BY <1>0, <2>2
    <3>4. QED
      BY <3>2, <3>3
  <2>6. QED
    BY <2>2, <2>3, <2>4, <2>5 DEF ReplayInv
<1>7. CASE \E t \in Topics : PassControl(t)
  <2>1. PICK t \in Topics : PassControl(t)
    BY <1>7
  <2>2. /\ position' = [position EXCEPT ![t] = @ + 1] /\ position[t] < Len(log[t])
        /\ UNCHANGED <<log, phase, scanned, targets, consumed, ready, atStart, lookup>>
    BY <2>1 DEF PassControl
  <2>3. \A u \in Topics : consumed[u] < position'[u] /\ position'[u] <= Len(log[u])
    <3>1. SUFFICES ASSUME NEW u \in Topics
                   PROVE  consumed[u] < position'[u] /\ position'[u] <= Len(log[u])
      OBVIOUS
    <3>2. /\ consumed[u] < position[u] /\ position[u] <= Len(log[u])
          /\ position[u] \in Nat /\ consumed[u] \in Nat \cup {-1} /\ Len(log[u]) \in Nat
      BY <1>0 DEF ReplayInv
    <3>3. position'[u] = IF u = t THEN position[u] + 1 ELSE position[u]
      BY <1>0, <2>2
    <3>4. QED
      BY <2>2, <3>2, <3>3
  <2>4. QED
    BY <2>2, <2>3 DEF ReplayInv, CaughtUp
<1>8. CASE Die
  BY <1>0, <1>8 DEF Die, ReplayInv, CaughtUp, NoOffsets, Idle
<1>9. CASE \E c \in Callers : Lookup(c)
  BY <1>0, <1>9 DEF Lookup, Call, Wake, Expire, Replied, ReplayInv, CaughtUp, materializerVars
<1>10. CASE \E c \in Callers, d \in Devices, min \in MinSeqs : Ask(c, d, min)
  BY <1>0, <1>10 DEF Ask, Serving, ReplayInv, CaughtUp, materializerVars
<1>11. CASE \E t \in Topics : Append1(t)
  <2>1. UNCHANGED <<consumed, position, atStart, scanned, targets, ready, phase, lookup>>
    BY <1>11 DEF Append1, materializerVars
  <2>2. \A u \in Topics : Len(log[u]) <= Len(log'[u]) /\ Len(log[u]) \in Nat /\ Len(log'[u]) \in Nat
    BY LogGrows
  <2>3. \A u \in Topics : /\ consumed'[u] < position'[u] /\ position'[u] <= Len(log'[u])
                          /\ atStart'[u] <= Len(log'[u])
    <3>1. SUFFICES ASSUME NEW u \in Topics
                   PROVE  /\ consumed[u] < position[u] /\ position[u] <= Len(log'[u])
                          /\ atStart[u] <= Len(log'[u])
      BY <2>1
    <3>2. /\ consumed[u] < position[u] /\ position[u] <= Len(log[u]) /\ atStart[u] <= Len(log[u])
          /\ position[u] \in Nat /\ atStart[u] \in Nat
      BY <1>0 DEF ReplayInv
    <3>3. QED
      BY <2>2, <3>2
  <2>4. QED
    BY <2>1, <2>3 DEF ReplayInv, CaughtUp
<1>12. CASE UNCHANGED vars
  BY <1>12 DEF vars, materializerVars, ReplayInv, CaughtUp
<1>13. QED
  BY <1>1, <1>2, <1>3, <1>4, <1>5, <1>6, <1>7, <1>8, <1>9, <1>10, <1>11, <1>12
     DEF Next, Materializer
LEMMA InvReady == TypeOK /\ ReplayInv => ReadyMeansCaughtUp
<1> SUFFICES ASSUME TypeOK, ReplayInv, ready, NEW t \in Topics PROVE position[t] >= atStart[t]
  BY DEF ReadyMeansCaughtUp
<1>1. PICK k \in 1 .. Len(ContextTopics) : ContextTopics[k] = t
  BY DEF ContextTopics, Topics
<1>2. targets[t] + 1 >= atStart[t] /\ consumed[t] >= targets[t] /\ consumed[t] < position[t]
  BY <1>1 DEF ReplayInv, CaughtUp
<1>3. /\ targets[t] \in Nat \cup {-1} /\ consumed[t] \in Nat \cup {-1}
      /\ position[t] \in Nat /\ atStart[t] \in Nat
  BY DEF TypeOK
<1>4. QED
  BY <1>2, <1>3

LEMMA InvReadyNext == TypeOK' /\ ReplayInv' => ReadyMeansCaughtUp'
  BY InvReady, PTL

-----------------------------------------------------------------------------
(* The table *)

LEMMA AppliedDevice ==
  ASSUME NEW t \in Topics, Applied(t)
  PROVE  IF t = "device.context"
           THEN /\ Next1(t).device \in Devices /\ Next1(t).row \in DeviceRow \cup {Absent}
                /\ ApplyDevice(Next1(t).device, Next1(t).row)
           ELSE UNCHANGED <<rows, index>>
  BY DEF Applied, Apply, Applicable, Records, DeviceRecord, ApplyCustomer, ApplySignal

LEMMA IndexStep == TypeOK /\ IndexInv /\ [Next]_vars => IndexInv'
<1> SUFFICES ASSUME TypeOK, IndexInv, [Next]_vars PROVE IndexInv'
  OBVIOUS
<1>1. ASSUME NEW d \in Devices, NEW row \in DeviceRow \cup {Absent}, ApplyDevice(d, row)
      PROVE  IndexInv'
  <2>1. SUFFICES ASSUME NEW c \in Customers
                 PROVE  index'[c] = {e \in Devices : rows'[e] # Absent /\ rows'[e].customer = c}
    BY DEF IndexInv
  <2>2. Unindexed(d)[c] = index[c] \ {d}
    <3>1. index[c] = {e \in Devices : rows[e] # Absent /\ rows[e].customer = c}
      BY DEF IndexInv
    <3>2. CASE rows[d] # Absent /\ rows[d].customer = c
      BY <3>2, TableAssumption DEF Unindexed, TypeOK, TableTypeOK
    <3>3. CASE ~(rows[d] # Absent /\ rows[d].customer = c)
      <4>1. d \notin index[c]
        BY <3>1, <3>3
      <4>2. Unindexed(d)[c] = index[c]
        BY <3>3 DEF Unindexed, TypeOK, TableTypeOK
      <4>3. QED
        BY <4>1, <4>2
    <3>4. QED
      BY <3>2, <3>3
  <2>3. Unindexed(d) \in [Customers -> SUBSET Devices]
    BY DEF Unindexed, TypeOK, TableTypeOK
  <2>4. index'[c] = IF row # Absent /\ row.customer = c
                      THEN (index[c] \ {d}) \cup {d} ELSE index[c] \ {d}
    BY <1>1, <2>2, <2>3, TableAssumption DEF ApplyDevice
  <2>5. /\ rows'[d] = row
        /\ \A e \in Devices \ {d} : rows'[e] = rows[e]
    BY <1>1 DEF ApplyDevice, TypeOK, TableTypeOK
  <2>6. QED
    BY <2>4, <2>5 DEF IndexInv
<1>2. CASE UNCHANGED <<rows, index>>
  BY <1>2 DEF IndexInv
<1>3. CASE Die
  BY <1>3 DEF Die, TableLost, NoRows, NoIndex, IndexInv
<1>4. CASE \E t \in Topics : Applied(t)
  BY <1>1, <1>2, <1>4, AppliedDevice
<1>5. QED
  BY <1>2, <1>3, <1>4, TableSteps DEF Passed, tableVars

LEMMA RowsStep ==
  ASSUME TypeOK, ReplayInv, [Next]_vars, TableReflectsLog
  PROVE  TableReflectsLog'
<1> DEFINE dc == "device.context"
           cc == "customer.context"
<1>0. dc \in Topics /\ cc \in Topics
  BY DEF Topics
<1>1. ASSUME NEW t \in Topics, Applied(t) PROVE TableReflectsLog'
  <2>1. CASE t = dc
    <3>1. position'[cc] = position[cc] /\ log'[cc] = log[cc] /\ customers' = customers
      BY <1>0, <1>1, <2>1, AppliedType, AppliedDevice DEF ApplyDevice
    <3>2. ASSUME NEW d \in Devices PROVE rows'[d] = LatestRow(log'[dc], d, position'[dc])
      <4>1. rows'[d] = IF Next1(dc).device = d THEN Next1(dc).row ELSE rows[d]
        BY <1>1, <2>1, AppliedDevice DEF ApplyDevice, TypeOK, TableTypeOK
      <4>2. LatestRow(log'[dc], d, position'[dc]) =
              IF Next1(dc).device = d THEN Next1(dc).row
                                      ELSE LatestRow(log[dc], d, position[dc])
        BY <1>1, <2>1, NextRecord DEF Applied
      <4>3. QED
        BY <4>1, <4>2 DEF TableReflectsLog
    <3>3. QED
      BY <3>1, <3>2 DEF TableReflectsLog
  <2>2. CASE t = cc
    <3>1. position'[dc] = position[dc] /\ log'[dc] = log[dc] /\ rows' = rows
      BY <1>0, <1>1, <2>2, AppliedType, AppliedDevice
    <3>2. ASSUME NEW c \in Customers
          PROVE  (c \in customers') = LatestCustomer(log'[cc], c, position'[cc])
      <4>1. Next1(cc) \in CustomerRecord /\ ApplyCustomer(Next1(cc))
        BY <1>1, <2>2 DEF Applied, Applicable, Records, Apply
      <4>2. (c \in customers') =
              IF Next1(cc).customer = c THEN Next1(cc).row ELSE c \in customers
        BY <4>1 DEF ApplyCustomer, CustomerRecord
      <4>3. LatestCustomer(log'[cc], c, position'[cc]) =
              IF Next1(cc).customer = c THEN Next1(cc).row
                                        ELSE LatestCustomer(log[cc], c, position[cc])
        BY <1>1, <2>2, NextRecord DEF Applied
      <4>4. QED
        BY <4>2, <4>3 DEF TableReflectsLog
    <3>3. QED
      BY <3>1, <3>2 DEF TableReflectsLog
  <2>3. CASE t # dc /\ t # cc
    <3>1. /\ position'[cc] = position[cc] /\ log'[cc] = log[cc]
          /\ position'[dc] = position[dc] /\ log'[dc] = log[dc]
      BY <1>0, <1>1, <2>3, AppliedType
    <3>2. rows' = rows /\ customers' = customers
      BY <1>1, <2>3 DEF Applied, Apply, ApplySignal
    <3>3. QED
      BY <3>1, <3>2 DEF TableReflectsLog
  <2>4. QED
    BY <2>1, <2>2, <2>3
<1>2. ASSUME NEW t \in Topics, Passed(t) PROVE TableReflectsLog'
  <2>1. rows' = rows /\ customers' = customers /\ log' = log
    BY <1>2 DEF Passed, tableVars
  <2>2. \A d \in Devices : LatestRow(log'[dc], d, position'[dc]) = LatestRow(log[dc], d, position[dc])
    <3>1. CASE t = dc
      BY <1>2, <3>1, NextRecord DEF Passed
    <3>2. CASE t # dc
      BY <1>0, <1>2, <3>2, AppliedType
    <3>3. QED
      BY <3>1, <3>2
  <2>3. \A c \in Customers :
          LatestCustomer(log'[cc], c, position'[cc]) = LatestCustomer(log[cc], c, position[cc])
    <3>1. CASE t = cc
      BY <1>2, <3>1, NextRecord DEF Passed
    <3>2. CASE t # cc
      BY <1>0, <1>2, <3>2, AppliedType
    <3>3. QED
      BY <3>1, <3>2
  <2>4. QED
    BY <2>1, <2>2, <2>3 DEF TableReflectsLog
<1>3. CASE Die
  <2>1. \A s, d : LatestRow(s, d, 0) = Absent /\ LatestCustomer(s, d, 0) = FALSE
    BY DEF LatestRow, LatestCustomer, Upto
  <2>2. rows' = NoRows /\ customers' = {} /\ position'[dc] = 0 /\ position'[cc] = 0
    BY <1>0, <1>3 DEF Die, TableLost
  <2>3. \A d \in Devices : rows'[d] = LatestRow(log'[dc], d, position'[dc])
    BY <2>1, <2>2 DEF NoRows
  <2>4. \A c \in Customers : (c \in customers') = LatestCustomer(log'[cc], c, position'[cc])
    <3>1. \A c \in Customers : LatestCustomer(log'[cc], c, position'[cc]) = FALSE
      BY <2>1, <2>2
    <3>2. \A c \in Customers : (c \in customers') = FALSE
      BY <2>2
    <3>3. QED
      BY <3>1, <3>2
  <2>5. QED
    BY <2>3, <2>4 DEF TableReflectsLog
<1>4. CASE UNCHANGED <<tableVars, position>>
  <2>1. ASSUME NEW t \in Topics
        PROVE  position[t] \in Nat /\ \A i \in 1 .. position[t] : log'[t][i] = log[t][i]
    BY LogGrows DEF TypeOK, ReplayInv
  <2>2. \A d \in Devices : LatestRow(log'[dc], d, position[dc]) = LatestRow(log[dc], d, position[dc])
    BY <1>0, <2>1, LatestOfPrefix
  <2>3. \A c \in Customers :
          LatestCustomer(log'[cc], c, position[cc]) = LatestCustomer(log[cc], c, position[cc])
    BY <1>0, <2>1, LatestOfPrefix
  <2>4. QED
    BY <1>4, <2>2, <2>3 DEF TableReflectsLog, tableVars
<1>5. QED
  BY <1>1, <1>2, <1>3, <1>4, TableSteps

LEMMA OffsetsStep ==
  ASSUME TypeOK, ReplayInv, [Next]_vars, OffsetsCoverLog
  PROVE  OffsetsCoverLog'
<1> SUFFICES ASSUME NEW t \in Topics
             PROVE  /\ offsets'[t] # -1 => offsets'[t] + 1 \in Upto(t, log'[t], position'[t])
                    /\ \A i \in Upto(t, log'[t], position'[t]) : i <= offsets'[t] + 1
  BY DEF OffsetsCoverLog
<1>0. offsets[t] \in Nat \cup {-1} /\ position[t] \in Nat
  BY DEF TypeOK, TableTypeOK
<1>1. ASSUME NEW u \in Topics, Applied(u), t # u PROVE offsets'[t] = offsets[t]
  BY <1>1 DEF Applied, Apply, TypeOK, TableTypeOK
<1>2. CASE Applied(t)
  <2>1. Upto(t, log'[t], position'[t]) = Upto(t, log[t], position[t]) \cup {position[t] + 1}
    BY <1>2, NextRecord DEF Applied
  <2>2. offsets'[t] = position[t]
    BY <1>2 DEF Applied, Apply, TypeOK, TableTypeOK
  <2>3. \A i \in Upto(t, log[t], position[t]) : i <= position[t] + 1
    BY <1>0 DEF Upto
  <2>4. offsets'[t] + 1 = position[t] + 1 /\ position[t] + 1 <= position[t] + 1
    BY <1>0, <2>2
  <2>5. QED
    BY <2>1, <2>3, <2>4
<1>3. CASE Passed(t)
  <2>1. Upto(t, log'[t], position'[t]) = Upto(t, log[t], position[t])
    BY <1>3, NextRecord DEF Passed
  <2>2. QED
    BY <1>3, <2>1 DEF OffsetsCoverLog, Passed, tableVars
<1>4. ASSUME NEW u \in Topics, Applied(u) \/ Passed(u), t # u
      PROVE  UNCHANGED <<offsets[t], log[t], position[t]>>
  BY <1>1, <1>4, AppliedType DEF Passed, tableVars
<1>5. CASE Die
  BY <1>5 DEF Die, TableLost, NoOffsets, Upto
<1>6. CASE UNCHANGED <<tableVars, position>>
  <2>1. \A i \in 1 .. position[t] : log'[t][i] = log[t][i]
    BY LogGrows DEF TypeOK, ReplayInv
  <2>2. Upto(t, log'[t], position[t]) = Upto(t, log[t], position[t])
    BY <2>1 DEF Upto
  <2>3. QED
    BY <1>6, <2>2 DEF OffsetsCoverLog, tableVars
<1>7. QED
  BY <1>2, <1>3, <1>4, <1>5, <1>6, TableSteps DEF OffsetsCoverLog

-----------------------------------------------------------------------------
(* Lookups *)

LEMMA LookupEffect ==
  ASSUME TypeOK, NEW c \in Callers, Lookup(c)
  PROVE  /\ UNCHANGED <<tableVars, log, materializerVars>>
         /\ \A b \in Callers \ {c} : lookup'[b] = lookup[b] /\ answer'[b] = answer[b]
         /\ lookup[c].state # "idle"
         /\ lookup'[c].state = "waiting" =>
              ~Met(c) /\ lookup'[c].device = lookup[c].device /\ lookup'[c].min = lookup[c].min
         /\ answer'[c] = answer[c] \/ answer'[c] = Result(lookup[c].device, lookup[c].min)
<1>1. UNCHANGED <<tableVars, log, materializerVars>> /\ lookup[c].state # "idle"
  BY DEF Lookup, Call, Wake, Expire
<1>2. lookup[c] \in [state : {"calling", "waiting", "notified"}, device : Devices,
                    min : MinSeqs, tries : 0 .. StaleRetries]
  BY <1>1, BusyType DEF TypeOK
<1>3. CASE Replied(c)
  BY <1>1, <1>2, <1>3 DEF Replied, TypeOK, Idle
<1>4. CASE ~Met(c) /\ lookup' = [lookup EXCEPT ![c].state = "waiting"] /\ answer' = answer
  BY <1>1, <1>2, <1>4 DEF TypeOK
<1>5. QED
  BY <1>3, <1>4 DEF Lookup, Call, Wake, Expire

LEMMA WakeupStep == TypeOK /\ NoMissedWakeup /\ [Next]_vars => NoMissedWakeup'
<1> SUFFICES ASSUME TypeOK, NoMissedWakeup, [Next]_vars,
                    NEW c \in Callers, lookup'[c].state = "waiting"
             PROVE  ~Met(c)'
  BY DEF NoMissedWakeup
<1>1. ASSUME lookup'[c] = lookup[c], UNCHANGED rows PROVE ~Met(c)'
  BY <1>1 DEF NoMissedWakeup, Met, Satisfies
<1>2. CASE \E t \in Topics : Applied(t)
  BY <1>2, NotifyAllType DEF Applied, Apply, TypeOK
<1>3. CASE Die
  BY <1>3 DEF Die, Idle
<1>4. CASE \E b \in Callers : Lookup(b)
  <2>1. PICK b \in Callers : Lookup(b)
    BY <1>4
  <2>2. UNCHANGED rows
    BY <2>1, LookupEffect DEF tableVars
  <2>3. CASE b = c
    BY <2>1, <2>2, <2>3, LookupEffect DEF Met, Satisfies
  <2>4. CASE b # c
    BY <1>1, <2>1, <2>2, <2>4, LookupEffect
  <2>5. QED
    BY <2>3, <2>4
<1>5. CASE \E b \in Callers, d \in Devices, min \in MinSeqs : Ask(b, d, min)
  <2>1. lookup'[c] = lookup[c] /\ UNCHANGED rows
    BY <1>5 DEF Ask, TypeOK, tableVars
  <2>2. QED
    BY <1>1, <2>1
<1>6. QED
  BY <1>1, <1>2, <1>3, <1>4, <1>5, LookupSteps

\* Between the last applied record of a topic and the consumer's place in it
\* there is nothing that the table shows.
LEMMA RowOfOffset ==
  ASSUME TypeOK, ReplayInv, TableReflectsLog, OffsetsCoverLog, NEW d \in Devices
  PROVE  rows[d] = LatestRow(log["device.context"], d, offsets["device.context"] + 1)
<1> DEFINE t == "device.context"
<1>1. t \in Topics /\ offsets[t] \in Nat \cup {-1} /\ position[t] \in Nat
  BY DEF Topics, TypeOK, TableTypeOK
<1>2. Upto(t, log[t], offsets[t] + 1) = Upto(t, log[t], position[t])
  <2>1. offsets[t] + 1 <= position[t]
    BY <1>1 DEF OffsetsCoverLog, Upto
  <2>2. \A i \in Upto(t, log[t], position[t]) : i <= offsets[t] + 1
    BY <1>1 DEF OffsetsCoverLog
  <2>3. QED
    BY <1>1, <2>1, <2>2 DEF Upto
<1>3. QED
  BY <1>2 DEF TableReflectsLog, LatestRow

\* An answer that a lookup has now.
LEMMA AnswerNow ==
  ASSUME TypeOK, ReplayInv, TableReflectsLog, OffsetsCoverLog,
         NEW c \in Callers, lookup[c].state # "idle"
  PROVE  LET a == Result(lookup[c].device, lookup[c].min)
         IN /\ a.offsets = offsets
            /\ a.row = LatestRow(log["device.context"], a.device, a.offsets["device.context"] + 1)
            /\ a.status = "OK" => a.row # Absent /\ (a.min # NoSeq => a.row.seq >= a.min)
<1>1. lookup[c].device \in Devices
  BY BusyType DEF TypeOK
<1>2. QED
  BY <1>1, RowOfOffset DEF Result, Status, Satisfies

LEMMA AnswersStep ==
  ASSUME TypeOK, ReplayInv, TableReflectsLog, OffsetsCoverLog, AnswersInPast,
         AnswersReproducible, [Next]_vars
  PROVE  AnswersReproducible'
<1> DEFINE t == "device.context"
<1> SUFFICES ASSUME NEW c \in Callers, answer'[c] # NoAnswer
             PROVE  /\ answer'[c].row = LatestRow(log'[t], answer'[c].device,
                                                 answer'[c].offsets[t] + 1)
                    /\ answer'[c].status = "OK" =>
                         /\ answer'[c].row # Absent
                         /\ answer'[c].min # NoSeq => answer'[c].row.seq >= answer'[c].min
  BY DEF AnswersReproducible
<1>1. CASE answer'[c] = answer[c]
  <2>1. /\ answer[c].device \in Devices
        /\ answer[c].offsets[t] \in Nat \cup {-1}
    BY <1>1 DEF TypeOK, Answers, Topics
  <2>2. answer[c].offsets[t] # -1 => answer[c].offsets[t] + 1 <= Len(log[t])
    BY <1>1 DEF AnswersInPast, Upto, Topics
  <2>3. \A i \in 1 .. answer[c].offsets[t] + 1 : log'[t][i] = log[t][i]
    BY <2>1, <2>2, LogGrows DEF Topics
  <2>4. LatestRow(log'[t], answer[c].device, answer[c].offsets[t] + 1)
          = LatestRow(log[t], answer[c].device, answer[c].offsets[t] + 1)
    <3>1. answer[c].offsets[t] + 1 \in Nat
      BY <2>1
    <3>2. QED
      BY <2>1, <2>3, <3>1, LatestOfPrefix
  <2>5. QED
    BY <1>1, <2>4 DEF AnswersReproducible
<1>2. CASE answer'[c] # answer[c]
  <2>1. Lookup(c)
    BY <1>2, LookupSteps, LookupEffect DEF Applied, Die, Ask
  <2>2. log' = log /\ lookup[c].state # "idle"
        /\ answer'[c] = Result(lookup[c].device, lookup[c].min)
    BY <1>2, <2>1, LookupEffect
  <2>3. QED
    BY <2>2, AnswerNow
<1>3. QED
  BY <1>1, <1>2

\* A serving replica never takes its offsets back.
LEMMA OffsetsGrow ==
  ASSUME TypeOK, OffsetsCoverLog, [Next]_vars, ~Die, NEW t \in Topics
  PROVE  offsets'[t] >= offsets[t]
<1>1. offsets[t] \in Nat \cup {-1} /\ position[t] \in Nat
  BY DEF TypeOK, TableTypeOK
<1>2. ASSUME NEW u \in Topics, Applied(u) PROVE offsets'[t] >= offsets[t]
  <2>1. CASE u = t
    <3>1. offsets[t] <= position[t]
      BY <1>1 DEF OffsetsCoverLog, Upto
    <3>2. offsets'[t] = position[t]
      BY <1>2, <2>1 DEF Applied, Apply, TypeOK, TableTypeOK
    <3>3. QED
      BY <1>1, <3>1, <3>2
  <2>2. CASE u # t
    BY <1>1, <1>2, <2>2 DEF Applied, Apply, TypeOK, TableTypeOK
  <2>3. QED
    BY <2>1, <2>2
<1>3. CASE UNCHANGED offsets
  BY <1>1, <1>3
<1>4. QED
  BY <1>2, <1>3, TableSteps DEF Passed, tableVars

\* How a replica starts, gets ready and stops.
LEMMA PhaseSteps ==
  ASSUME TypeOK, [Next]_vars
  PROVE  \/ phase = "down" /\ phase' # "down" /\ atStart' = [t \in Topics |-> Len(log[t])]
            /\ ready' = ready
         \/ phase' = "down" /\ ready' = FALSE
         \/ phase = "consume" /\ ~ready /\ UNCHANGED <<phase, atStart, offsets>>
         \/ (phase' = "down" <=> phase = "down") /\ UNCHANGED <<ready, atStart>>
<1>1. CASE StartReplica
  BY <1>1 DEF StartReplica
<1>2. CASE Scan \/ Begin \/ BeginFails \/ UNCHANGED vars
  BY <1>2 DEF Scan, Begin, BeginFails, vars, materializerVars
<1>3. CASE CheckReady
  BY <1>3 DEF CheckReady, tableVars
<1>4. CASE \E t \in Topics : Consume(t) \/ PassControl(t)
  BY <1>4 DEF Consume, PassControl
<1>5. CASE Die
  BY <1>5 DEF Die
<1>6. CASE \E c \in Callers : Lookup(c) \/ \E d \in Devices, min \in MinSeqs : Ask(c, d, min)
  BY <1>6 DEF Lookup, Call, Wake, Expire, Ask, materializerVars
<1>7. CASE \E t \in Topics : Append1(t)
  BY <1>7 DEF Append1, materializerVars
<1>8. QED
  BY <1>1, <1>2, <1>3, <1>4, <1>5, <1>6, <1>7 DEF Next, Materializer

LEMMA PastStep ==
  ASSUME TypeOK, ReplayInv, TableReflectsLog, OffsetsCoverLog, AnswersInPast, [Next]_vars,
         TypeOK', ReplayInv', OffsetsCoverLog'
  PROVE  AnswersInPast'
<1> SUFFICES ASSUME NEW c \in Callers, answer'[c] # NoAnswer, NEW t \in Topics
             PROVE  LET o == answer'[c].offsets[t]
                    IN /\ o # -1 => o + 1 \in Upto(t, log'[t], Len(log'[t]))
                       /\ ready' => o <= offsets'[t]
                       /\ phase' # "down" /\ ~ready' => o < atStart'[t]
  BY DEF AnswersInPast
<1> DEFINE o == answer'[c].offsets[t]
<1>0. /\ offsets[t] \in Nat \cup {-1} /\ offsets'[t] \in Nat \cup {-1}
      /\ o \in Nat \cup {-1}
      /\ position[t] \in Nat /\ position'[t] \in Nat
      /\ atStart[t] \in Nat /\ atStart'[t] \in Nat
  BY DEF TypeOK, TableTypeOK, Answers
<1>1. Upto(t, log[t], Len(log[t])) \subseteq Upto(t, log'[t], Len(log'[t]))
  BY LogGrows DEF Upto
<1>2. CASE answer'[c] = answer[c]
  <2>1. /\ o # -1 => o + 1 \in Upto(t, log[t], Len(log[t]))
        /\ ready => o <= offsets[t]
        /\ phase # "down" /\ ~ready => o < atStart[t]
    BY <1>2 DEF AnswersInPast
  <2>2. o # -1 => o + 1 <= Len(log[t])
    BY <2>1 DEF Upto
  <2>3. ready' => o <= offsets'[t]
    <3>1. SUFFICES ASSUME ready' PROVE o <= offsets'[t]
      OBVIOUS
    <3>2. CASE ready
      <4>1. ~Die
        BY <3>1 DEF Die
      <4>2. QED
        BY <1>0, <2>1, <3>2, <4>1, OffsetsGrow
    <3>3. CASE ~ready
      <4>1. phase = "consume" /\ atStart' = atStart
        BY <3>1, <3>3, PhaseSteps DEF ReplayInv
      <4>2. o < atStart'[t] /\ position'[t] >= atStart'[t]
        BY <2>1, <3>1, <3>3, <4>1, InvReadyNext DEF ReadyMeansCaughtUp
      <4>3. o # -1 => o + 1 \in Upto(t, log'[t], position'[t])
        <5>1. o # -1 => o + 1 \in 1 .. Len(log'[t]) /\ Applicable(t, log'[t][o + 1])
          BY <1>1, <2>1 DEF Upto
        <5>2. o # -1 => o + 1 \in 1 .. position'[t]
          BY <1>0, <4>2
        <5>3. QED
          BY <5>1, <5>2 DEF Upto
      <4>4. o # -1 => o + 1 <= offsets'[t] + 1
        BY <4>3 DEF OffsetsCoverLog
      <4>5. QED
        BY <1>0, <4>4
    <3>4. QED
      BY <3>2, <3>3
  <2>4. phase' # "down" /\ ~ready' => o < atStart'[t]
    <3>1. CASE phase = "down" /\ atStart' = [u \in Topics |-> Len(log[u])]
      <4>1. Len(log[t]) \in Nat
        BY LogGrows
      <4>2. QED
        BY <1>0, <2>2, <3>1, <4>1
    <3>2. CASE phase' = "down"
      BY <3>2
    <3>3. CASE phase # "down" /\ ~ready /\ atStart' = atStart
      BY <2>1, <3>3
    <3>4. QED
      BY <3>1, <3>2, <3>3, PhaseSteps
  <2>5. QED
    BY <1>1, <2>1, <2>3, <2>4
<1>3. CASE answer'[c] # answer[c]
  <2>1. Lookup(c)
    BY <1>3, LookupSteps, LookupEffect DEF Applied, Die, Ask
  <2>2. /\ log' = log /\ offsets' = offsets /\ ready' = ready
        /\ lookup[c].state # "idle"
        /\ answer'[c] = Result(lookup[c].device, lookup[c].min)
    BY <1>3, <2>1, LookupEffect DEF tableVars, materializerVars
  <2>3. o = offsets[t] /\ ready'
    BY <2>2, AnswerNow DEF ReplayInv
  <2>4. o # -1 => o + 1 \in Upto(t, log[t], Len(log[t]))
    <3>1. Upto(t, log[t], position[t]) \subseteq Upto(t, log[t], Len(log[t]))
      BY <1>0, LogGrows DEF Upto, ReplayInv
    <3>2. QED
      BY <2>3, <3>1 DEF OffsetsCoverLog
  <2>5. QED
    BY <1>0, <2>2, <2>3, <2>4
<1>4. QED
  BY <1>2, <1>3

LEMMA AnswerGoesOn ==
  IInv /\ [Next]_vars => \A c \in Callers : answer[c] # NoAnswer =>
                          \A t \in Topics : answer'[c].offsets[t] >= answer[c].offsets[t]
<1> SUFFICES ASSUME IInv, [Next]_vars, NEW c \in Callers, answer[c] # NoAnswer, NEW t \in Topics
             PROVE  answer'[c].offsets[t] >= answer[c].offsets[t]
  OBVIOUS
<1>1. CASE answer'[c] = answer[c]
  BY <1>1 DEF IInv, TypeOK, Answers
<1>2. CASE answer'[c] # answer[c]
  <2>1. Lookup(c)
    BY <1>2, LookupSteps, LookupEffect DEF Applied, Die, Ask, IInv
  <2>2. /\ lookup[c].state # "idle"
        /\ answer'[c] = Result(lookup[c].device, lookup[c].min)
    BY <1>2, <2>1, LookupEffect DEF IInv
  <2>3. answer'[c].offsets = offsets /\ ready
    BY <2>2, AnswerNow DEF IInv, ReplayInv
  <2>4. QED
    BY <2>3 DEF IInv, AnswersInPast, TypeOK, TableTypeOK, Answers
<1>3. QED
  BY <1>1, <1>2

-----------------------------------------------------------------------------

LEMMA InitInv == Init => IInv
<1> SUFFICES ASSUME Init PROVE IInv
  OBVIOUS
<1>1. TypeOK
  BY InitType
<1>2. \A t \in Topics : position[t] = 0 /\ log[t] = <<>> /\ consumed[t] = -1 /\ atStart[t] = 0
  BY DEF Init, NoOffsets
<1>3. ReplayInv
  BY <1>2 DEF Init, ReplayInv, Idle
<1>4. IndexInv
  BY DEF Init, TableInit, NoRows, NoIndex, IndexInv
<1>5. TableReflectsLog
  <2>1. \A t, s : Upto(t, s, 0) = {}
    BY DEF Upto
  <2>2. \A s, d : LatestRow(s, d, 0) = Absent /\ LatestCustomer(s, d, 0) = FALSE
    BY <2>1 DEF LatestRow, LatestCustomer
  <2>3. rows = NoRows /\ customers = {}
    BY DEF Init, TableInit
  <2>4. \A c \in Customers : (c \in customers) = FALSE
    BY <2>3
  <2>5. position["device.context"] = 0 /\ position["customer.context"] = 0
    BY <1>2 DEF Topics
  <2>6. \A c \in Customers : (c \in customers) =
          LatestCustomer(log["customer.context"], c, position["customer.context"])
    BY <2>2, <2>4, <2>5
  <2>7. QED
    BY <2>2, <2>3, <2>5, <2>6 DEF TableReflectsLog, NoRows
<1>6. OffsetsCoverLog
  BY <1>2 DEF Init, TableInit, NoOffsets, OffsetsCoverLog, Upto
<1>7. NoMissedWakeup /\ AnswersReproducible /\ AnswersInPast
  BY DEF Init, Idle, NoMissedWakeup, AnswersReproducible, AnswersInPast
<1>8. QED
  BY <1>1, <1>3, <1>4, <1>5, <1>6, <1>7 DEF IInv

LEMMA NextInv == IInv /\ [Next]_vars => IInv'
<1> SUFFICES ASSUME IInv, [Next]_vars PROVE IInv'
  OBVIOUS
<1>1. TypeOK' /\ ReplayInv'
  BY NextType, ReplayStep DEF IInv
<1>2. IndexInv' /\ TableReflectsLog' /\ OffsetsCoverLog'
  BY IndexStep, RowsStep, OffsetsStep DEF IInv
<1>3. NoMissedWakeup' /\ AnswersReproducible' /\ AnswersInPast'
  BY <1>1, <1>2, WakeupStep, AnswersStep, PastStep DEF IInv
<1>4. QED
  BY <1>1, <1>2, <1>3 DEF IInv

LEMMA InvHolds == Spec => []IInv
  BY InitInv, NextInv, PTL DEF Spec

\* The table a replica answers from is the compaction of its topics up to where
\* it has consumed them.
THEOREM TableIsCompaction == Spec => []TableReflectsLog
<1>1. IInv => TableReflectsLog
  BY DEF IInv
<1>2. QED
  BY <1>1, InvHolds, PTL

LEMMA IndexReads == TypeOK /\ IndexInv => IndexMatchesRows
<1> SUFFICES ASSUME TypeOK, IndexInv, NEW c \in Customers
             PROVE  /\ ListDevices(c) = {r \in ListDevices(Nobody) : r.row.customer = c}
                    /\ c \in customers =>
                         GetCustomer(c).devices = {d \in Devices : rows[d] # Absent /\ rows[d].customer = c}
  BY DEF IndexMatchesRows
<1>1. index[c] = {d \in Devices : rows[d] # Absent /\ rows[d].customer = c}
  BY DEF IndexInv
<1>2. c # Nobody
  BY TableAssumption
<1>3. ListDevices(c) = {[device |-> d, row |-> rows[d]] : d \in index[c]}
  BY <1>2 DEF ListDevices
<1>4. ListDevices(Nobody) = {[device |-> d, row |-> rows[d]] : d \in {e \in Devices : rows[e] # Absent}}
  BY DEF ListDevices
<1>5. ListDevices(c) = {r \in ListDevices(Nobody) : r.row.customer = c}
  BY <1>1, <1>3, <1>4
<1>6. QED
  BY <1>1, <1>5 DEF GetCustomer

\* What get_customer and list_devices read through the index is what the rows say.
THEOREM IndexSafety == Spec => []IndexMatchesRows
<1>1. IInv => IndexMatchesRows
  BY IndexReads DEF IInv
<1>2. QED
  BY <1>1, InvHolds, PTL

\* A replica serves lookups only after replaying all its topics held at its start.
THEOREM ReadySafety == Spec => []ReadyMeansCaughtUp
<1>1. IInv => ReadyMeansCaughtUp
  BY InvReady DEF IInv
<1>2. QED
  BY <1>1, InvHolds, PTL

\* No lookup sleeps through the record it waits for.
THEOREM WakeupSafety == Spec => []NoMissedWakeup
<1>1. IInv => NoMissedWakeup
  BY DEF IInv
<1>2. QED
  BY <1>1, InvHolds, PTL

\* An answer can be reproduced from the topics up to its sourceOffsets.
THEOREM AnswerSafety == Spec => []AnswersReproducible
<1>1. IInv => AnswersReproducible
  BY DEF IInv
<1>2. QED
  BY <1>1, InvHolds, PTL

\* Reads are monotonic, across restarts of the replica and its empty table.
THEOREM AnswersMonotone == Spec => AnswersNeverGoBack
<1> DEFINE GoesOn == \A c \in Callers : answer[c] # NoAnswer =>
                       \A t \in Topics : answer'[c].offsets[t] >= answer[c].offsets[t]
<1>1. IInv /\ [Next]_vars => [GoesOn]_vars
  BY AnswerGoesOn
<1>2. QED
  BY <1>1, InvHolds, PTL DEF Spec, AnswersNeverGoBack

-----------------------------------------------------------------------------
(* The window of risk signals *)

\* Record i of l is older than record j: by event time, then by arrival.
Older(l, i, j) == l[i].time < l[j].time \/ (l[i].time = l[j].time /\ i < j)

SignalOf(r) == [id |-> r.id, time |-> r.time]

\* Window w holds the records of l that f names, oldest first; of the arrivals
\* A it leaves out only what is older than all it holds, and only when full.
Fills(w, f, l, A) ==
  /\ Len(w) <= SIGNALS_PER_DEVICE
  /\ f \in [1 .. Len(w) -> A]
  /\ \A k \in 1 .. Len(w) : w[k] = SignalOf(l[f[k]])
  /\ \A j, k \in 1 .. Len(w) : j < k => Older(l, f[j], f[k])
  /\ \A i \in A : (\A k \in 1 .. Len(w) : f[k] # i) =>
       Len(w) = SIGNALS_PER_DEVICE /\ Older(l, i, f[1])

LEMMA InsertAtElements ==
  ASSUME NEW w \in Seq(Signal), NEW i \in 1 .. Len(w) + 1, NEW s \in Signal
  PROVE  /\ Len(InsertAt(w, i, s)) = Len(w) + 1
         /\ \A k \in 1 .. Len(w) + 1 :
              InsertAt(w, i, s)[k] = IF k < i THEN w[k] ELSE IF k = i THEN s ELSE w[k - 1]
<1> DEFINE a == SubSeq(w, 1, i - 1)
<1> DEFINE b == SubSeq(w, i, Len(w))
<1>1. a \in Seq(Signal) /\ Len(a) = i - 1 /\ \A k \in 1 .. i - 1 : a[k] = w[k]
  BY SubSeqProperties
<1>2. b \in Seq(Signal) /\ Len(b) = Len(w) - i + 1 /\ \A k \in 1 .. Len(w) - i + 1 : b[k] = w[i + k - 1]
  BY SubSeqProperties
<1>3. a \o <<s>> \in Seq(Signal) /\ Len(a \o <<s>>) = i
  BY <1>1
<1>4. InsertAt(w, i, s) = (a \o <<s>>) \o b
  BY DEF InsertAt
<1> HIDE DEF a, b
<1>5. i \in Nat /\ Len(w) \in Nat /\ Len((a \o <<s>>) \o b) = Len(w) + 1
  <2>1. i \in Nat /\ Len(w) \in Nat
    OBVIOUS
  <2>2. Len((a \o <<s>>) \o b) = Len(a \o <<s>>) + Len(b)
    BY <1>2, <1>3, ConcatProperties
  <2>3. QED
    BY <1>2, <1>3, <2>1, <2>2
<1>6. SUFFICES ASSUME NEW k \in 1 .. Len(w) + 1
               PROVE  ((a \o <<s>>) \o b)[k] = IF k < i THEN w[k] ELSE IF k = i THEN s ELSE w[k - 1]
  BY <1>4, <1>5
<1>7. CASE k < i
  BY <1>1, <1>2, <1>3, <1>7
<1>8. CASE k = i
  BY <1>1, <1>2, <1>3, <1>8
<1>9. CASE k > i
  <2>1. ((a \o <<s>>) \o b)[k] = b[k - i]
    BY <1>2, <1>3, <1>9
  <2>2. k - i \in 1 .. Len(w) - i + 1 /\ i + (k - i) - 1 = k - 1
    BY <1>5, <1>9
  <2>3. b[k - i] = w[k - 1]
    BY <1>2, <2>2
  <2>4. ~(k < i) /\ k # i
    BY <1>5, <1>9
  <2>5. QED
    BY <2>1, <2>3, <2>4
<1>10. QED
  BY <1>5, <1>7, <1>8, <1>9

\* bisect_right of a window in order of event time splits it at the time.
LEMMA BisectRightSplits ==
  ASSUME NEW w \in Seq(Signal), NEW time \in Nat,
         \A j, k \in 1 .. Len(w) : j < k => w[j].time <= w[k].time
  PROVE  /\ BisectRight(w, time) \in 0 .. Len(w)
         /\ \A k \in 1 .. Len(w) : w[k].time <= time <=> k <= BisectRight(w, time)
<1> DEFINE S == {k \in DOMAIN w : w[k].time <= time}
<1>1. BisectRight(w, time) = Cardinality(S) /\ S \in SUBSET (1 .. Len(w)) /\ Len(w) \in Nat
  BY DEF BisectRight
<1>2. \A k \in 1 .. Len(w) : w[k].time \in Nat
  <2>1. \A k \in 1 .. Len(w) : w[k] \in Signal
    OBVIOUS
  <2>2. QED
    BY <2>1 DEF Signal
<1>3. CASE S = {}
  <2>1. BisectRight(w, time) = 0
    BY <1>1, <1>3, FS_EmptySet
  <2>2. \A k \in 1 .. Len(w) : ~(w[k].time <= time) /\ ~(k <= 0)
    BY <1>3
  <2>3. 0 \in 0 .. Len(w)
    BY <1>1
  <2>4. QED
    BY <2>1, <2>2, <2>3
<1>4. CASE S # {}
  <2>1. PICK m \in S : \A k \in S : k <= m
    BY <1>1, <1>4, MaxOfPrefix
  <2>2. m \in 1 .. Len(w)
    BY <1>1
  <2>3. \A k \in 1 .. Len(w) : k <= m => w[k].time <= time
    BY <1>2, <2>1, <2>2
  <2>4. \A k \in 1 .. Len(w) : k \in S <=> k <= m
    BY <2>1, <2>2, <2>3
  <2>5. S = 1 .. m
    BY <1>1, <2>2, <2>4
  <2>6. Cardinality(1 .. m) = m
    BY <2>2, FS_Interval
  <2>7. BisectRight(w, time) = m
    BY <1>1, <2>5, <2>6
  <2>8. m \in 0 .. Len(w)
    BY <2>2
  <2>9. \A k \in 1 .. Len(w) : w[k].time <= time <=> k <= m
    BY <2>4
  <2>10. QED
    BY <2>7, <2>8, <2>9
<1>5. QED
  BY <1>3, <1>4

LEMMA WindowGrows ==
  ASSUME NEW w \in Seq(Signal), NEW l, NEW A \in SUBSET Nat, NEW f, Fills(w, f, l, A),
         NEW n \in Nat, \A i \in A : i < n,
         \A i \in A \cup {n} : SignalOf(l[i]) \in Signal
  PROVE  \E g : Fills(Inserted(w, SignalOf(l[n])), g, l, A \cup {n})
<1> DEFINE s == SignalOf(l[n])
           c == Len(w)
           b == BisectRight(w, s.time)
           B == A \cup {n}
           v == Inserted(w, s)
<1>1. s \in Signal /\ s.time = l[n].time /\ s.time \in Nat
  BY DEF Signal, SignalOf
<1>2. \A i \in B : i \in Nat /\ l[i].time \in Nat
  BY DEF Signal, SignalOf
<1>3. c \in Nat /\ c <= SIGNALS_PER_DEVICE /\ f \in [1 .. c -> A]
  BY DEF Fills
<1>4. \A k \in 1 .. c : f[k] \in A /\ f[k] < n /\ w[k] = SignalOf(l[f[k]]) /\ w[k].time = l[f[k]].time
  <2>1. \A k \in 1 .. c : f[k] \in A /\ w[k] = SignalOf(l[f[k]])
    BY <1>3 DEF Fills
  <2>2. \A k \in 1 .. c : f[k] < n
    BY <2>1
  <2>3. \A k \in 1 .. c : SignalOf(l[f[k]]).time = l[f[k]].time
    BY DEF SignalOf
  <2>4. QED
    BY <2>1, <2>2, <2>3
<1>5. \A j, k \in 1 .. c : j < k => Older(l, f[j], f[k])
  BY DEF Fills
<1>6. \A j, k \in 1 .. c : j < k => w[j].time <= w[k].time
  <2>1. SUFFICES ASSUME NEW j \in 1 .. c, NEW k \in 1 .. c, j < k
                 PROVE  w[j].time <= w[k].time
    OBVIOUS
  <2>2. Older(l, f[j], f[k])
    BY <1>5, <2>1
  <2>3. /\ w[j].time = l[f[j]].time /\ w[k].time = l[f[k]].time
        /\ l[f[j]].time \in Nat /\ l[f[k]].time \in Nat
    BY <1>2, <1>4
  <2>4. QED
    BY <2>2, <2>3 DEF Older
<1>7. /\ b \in 0 .. c
      /\ \A k \in 1 .. c : w[k].time <= s.time <=> k <= b
  BY <1>1, <1>6, BisectRightSplits
<1>8. \A k \in 1 .. c : IF k <= b THEN Older(l, f[k], n) ELSE Older(l, n, f[k])
  <2>1. SUFFICES ASSUME NEW k \in 1 .. c
                 PROVE  IF k <= b THEN Older(l, f[k], n) ELSE Older(l, n, f[k])
    OBVIOUS
  <2>2. /\ f[k] < n /\ l[f[k]].time \in Nat /\ l[n].time \in Nat /\ f[k] \in Nat
        /\ l[f[k]].time <= l[n].time <=> k <= b
    BY <1>1, <1>2, <1>4, <1>7
  <2>3. QED
    BY <2>2 DEF Older
<1>9. \A i \in A : (\A k \in 1 .. c : f[k] # i) => c = SIGNALS_PER_DEVICE /\ Older(l, i, f[1])
  BY DEF Fills
<1> HIDE DEF b
<1>10. CASE c < SIGNALS_PER_DEVICE
  <2> DEFINE g == [k \in 1 .. c + 1 |-> IF k < b + 1 THEN f[k] ELSE IF k = b + 1 THEN n ELSE f[k - 1]]
  <2>1. v = InsertAt(w, b + 1, s) /\ b + 1 \in 1 .. c + 1
    BY <1>3, <1>7, <1>10 DEF Inserted, b
  <2>2. /\ Len(v) = c + 1
        /\ \A k \in 1 .. c + 1 : v[k] = IF k < b + 1 THEN w[k] ELSE IF k = b + 1 THEN s ELSE w[k - 1]
    BY <1>1, <2>1, InsertAtElements
  <2>3. g \in [1 .. c + 1 -> B]
    BY <1>3, <1>4, <1>7
  <2>4. \A k \in 1 .. c + 1 : v[k] = SignalOf(l[g[k]])
    BY <1>3, <1>4, <1>7, <2>2
  <2>5. \A j, k \in 1 .. c + 1 : j < k => Older(l, g[j], g[k])
    <3>1. SUFFICES ASSUME NEW j \in 1 .. c + 1, NEW k \in 1 .. c + 1, j < k
                   PROVE  Older(l, g[j], g[k])
      OBVIOUS
    <3>2. CASE k < b + 1
      <4>1. j \in 1 .. c /\ k \in 1 .. c /\ g[j] = f[j] /\ g[k] = f[k]
        BY <1>3, <1>7, <3>1, <3>2
      <4>2. QED
        BY <1>5, <3>1, <4>1
    <3>3. CASE k = b + 1
      <4>1. j \in 1 .. c /\ j <= b /\ g[j] = f[j] /\ g[k] = n
        BY <1>3, <1>7, <3>1, <3>3
      <4>2. QED
        BY <1>8, <4>1
    <3>4. CASE k > b + 1 /\ j < b + 1
      <4>1. /\ j \in 1 .. c /\ k - 1 \in 1 .. c /\ j < k - 1
            /\ g[j] = f[j] /\ g[k] = f[k - 1]
        BY <1>3, <1>7, <3>1, <3>4
      <4>2. QED
        BY <1>5, <4>1
    <3>5. CASE k > b + 1 /\ j = b + 1
      <4>1. k - 1 \in 1 .. c /\ ~(k - 1 <= b) /\ g[j] = n /\ g[k] = f[k - 1]
        BY <1>3, <1>7, <3>1, <3>5
      <4>2. QED
        BY <1>8, <4>1
    <3>6. CASE k > b + 1 /\ j > b + 1
      <4>1. /\ j - 1 \in 1 .. c /\ k - 1 \in 1 .. c /\ j - 1 < k - 1
            /\ g[j] = f[j - 1] /\ g[k] = f[k - 1]
        BY <1>3, <1>7, <3>1, <3>6
      <4>2. QED
        BY <1>5, <4>1
    <3>7. QED
      BY <1>3, <1>7, <3>1, <3>2, <3>3, <3>4, <3>5, <3>6
  <2>6. \A i \in B : \E k \in 1 .. c + 1 : g[k] = i
    <3>1. SUFFICES ASSUME NEW i \in B PROVE \E k \in 1 .. c + 1 : g[k] = i
      OBVIOUS
    <3>2. CASE i = n
      <4>1. b + 1 \in 1 .. c + 1 /\ g[b + 1] = n
        BY <1>3, <1>7
      <4>2. QED
        BY <3>2, <4>1
    <3>3. CASE i \in A
      <4>1. PICK k \in 1 .. c : f[k] = i
        BY <1>9, <1>10, <3>3
      <4>2. CASE k < b + 1
        <5>1. k \in 1 .. c + 1 /\ g[k] = i
          BY <1>3, <4>1, <4>2
        <5>2. QED
          BY <5>1
      <4>3. CASE k >= b + 1
        <5>1. k + 1 \in 1 .. c + 1 /\ g[k + 1] = i
          BY <1>3, <1>7, <4>1, <4>3
        <5>2. QED
          BY <5>1
      <4>4. QED
        BY <1>3, <1>7, <4>2, <4>3
    <3>4. QED
      BY <3>2, <3>3
  <2> HIDE DEF g, v
  <2>7. Fills(v, g, l, B)
    BY <1>3, <1>10, <2>2, <2>3, <2>4, <2>5, <2>6, TableAssumption DEF Fills
  <2>8. QED
    BY <2>7 DEF v
<1>11. CASE c = SIGNALS_PER_DEVICE /\ b = 0
  <2>1. v = w
    BY <1>3, <1>11 DEF Inserted, b
  <2>2. 1 \in 1 .. c
    BY <1>11, TableAssumption
  <2>3. Older(l, n, f[1])
    BY <1>8, <1>11, <2>2
  <2>4. f \in [1 .. c -> B]
    BY <1>3, <1>4
  <2>5. Fills(w, f, l, B)
    BY <1>3, <1>4, <1>5, <1>9, <1>11, <2>3, <2>4 DEF Fills
  <2>6. QED
    BY <2>1, <2>5
<1>12. CASE c = SIGNALS_PER_DEVICE /\ b # 0
  <2> DEFINE u == Tail(w)
             g == [k \in 1 .. c |-> IF k < b THEN f[k + 1] ELSE IF k = b THEN n ELSE f[k]]
  <2>0. c >= 1 /\ b \in 1 .. c
    BY <1>3, <1>7, <1>12
  <2>1. u \in Seq(Signal) /\ Len(u) = c - 1 /\ \A k \in 1 .. c - 1 : u[k] = w[k + 1]
    BY <2>0
  <2>2. v = InsertAt(u, b, s)
    BY <1>3, <1>12 DEF Inserted, b
  <2>3. b \in 1 .. Len(u) + 1 /\ Len(u) + 1 = c
    BY <2>0, <2>1
  <2> HIDE DEF u, v
  <2>4. /\ Len(v) = c
        /\ \A k \in 1 .. c : v[k] = IF k < b THEN u[k] ELSE IF k = b THEN s ELSE u[k - 1]
    BY <1>1, <2>1, <2>2, <2>3, InsertAtElements
  <2>5. \A k \in 1 .. c : v[k] = IF k < b THEN w[k + 1] ELSE IF k = b THEN s ELSE w[k]
    BY <2>0, <2>1, <2>4
  <2>6. g \in [1 .. c -> B]
    BY <1>3, <1>4, <2>0
  <2>7. \A k \in 1 .. c : v[k] = SignalOf(l[g[k]])
    BY <1>3, <1>4, <2>0, <2>5
  <2>8. \A j, k \in 1 .. c : j < k => Older(l, g[j], g[k])
    BY <1>3, <1>5, <1>8, <2>0
  <2>9. Older(l, f[1], g[1])
    <3>1. 1 \in 1 .. c /\ (b # 1 => 1 + 1 \in 1 .. c)
      BY <2>0
    <3>2. QED
      BY <1>5, <1>8, <2>0, <3>1
  <2>10. ASSUME NEW i \in B, \A k \in 1 .. c : g[k] # i PROVE Older(l, i, g[1])
    <3>1. i \in A
      <4>1. g[b] = n
        BY <2>0
      <4>2. QED
        BY <2>0, <2>10, <4>1
    <3>2. CASE i = f[1]
      BY <2>9, <3>2
    <3>3. CASE i # f[1]
      <4>1. \A k \in 1 .. c : f[k] # i
        <5>1. SUFFICES ASSUME NEW k \in 1 .. c, f[k] = i PROVE FALSE
          OBVIOUS
        <5>2. CASE k = 1
          BY <3>3, <5>1, <5>2
        <5>3. CASE k > 1 /\ k <= b
          <6>1. k - 1 \in 1 .. c /\ g[k - 1] = f[k]
            BY <1>3, <2>0, <5>3
          <6>2. QED
            BY <2>10, <5>1, <6>1
        <5>4. CASE k > b
          <6>1. g[k] = f[k]
            BY <1>3, <2>0, <5>4
          <6>2. QED
            BY <2>10, <5>1, <6>1
        <5>5. QED
          BY <1>3, <2>0, <5>2, <5>3, <5>4
      <4>2. Older(l, i, f[1])
        BY <1>9, <3>1, <4>1
      <4>3. f[1] \in B /\ g[1] \in B /\ i \in B
        BY <1>3, <1>4, <2>0, <2>6, <2>10
      <4>4. /\ i \in Nat /\ f[1] \in Nat /\ g[1] \in Nat
            /\ l[i].time \in Nat /\ l[f[1]].time \in Nat /\ l[g[1]].time \in Nat
        BY <1>2, <4>3
      <4> HIDE DEF g
      <4>5. QED
        BY <2>9, <4>2, <4>4 DEF Older
    <3>4. QED
      BY <3>2, <3>3
  <2> HIDE DEF g
  <2>11. Fills(v, g, l, B)
    BY <1>3, <1>12, <2>4, <2>6, <2>7, <2>8, <2>10 DEF Fills
  <2>12. QED
    BY <2>11 DEF v
<1>13. c < SIGNALS_PER_DEVICE \/ c = SIGNALS_PER_DEVICE
  BY <1>3, TableAssumption
<1>14. QED
  BY <1>10, <1>11, <1>12, <1>13

\* Arrivals of a log's first n records.
FirstArrivals(s, d, n) ==
  LET mine == {i \in Upto("device.risk-signals", s, n) : s[i].device = d}
  IN {i \in mine : \A j \in mine : s[j].id = s[i].id => i <= j}

LEMMA ArrivalsOfLog ==
  ASSUME NEW d \in Devices
  PROVE  Arrivals(d) = FirstArrivals(log["device.risk-signals"], d, position["device.risk-signals"])
  BY DEF Arrivals, FirstArrivals

LEMMA ArrivalsAreSignals ==
  ASSUME NEW s, NEW d \in Devices, NEW n \in Nat
  PROVE  /\ FirstArrivals(s, d, n) \in SUBSET (1 .. n)
         /\ \A i \in FirstArrivals(s, d, n) : SignalOf(s[i]) \in Signal
<1>1. SUFFICES ASSUME NEW i \in FirstArrivals(s, d, n)
               PROVE  i \in 1 .. n /\ SignalOf(s[i]) \in Signal
  OBVIOUS
<1>2. i \in 1 .. n /\ s[i] \in SignalRecord /\ s[i].time # NoTime
  BY DEF FirstArrivals, Upto, Applicable, Records
<1>3. s[i].id \in SignalIds /\ s[i].time \in Nat
  BY <1>2 DEF SignalRecord
<1>4. QED
  BY <1>2, <1>3 DEF SignalOf, Signal

LEMMA ArrivalsOfPrefix ==
  ASSUME NEW n \in Nat, NEW s, NEW u, \A i \in 1 .. n : s[i] = u[i], NEW d \in Devices
  PROVE  FirstArrivals(s, d, n) = FirstArrivals(u, d, n)
<1> DEFINE Mine(l) == {i \in Upto("device.risk-signals", l, n) : l[i].device = d}
<1>1. Mine(s) = Mine(u) /\ \A i \in Mine(s) : s[i] = u[i]
  BY DEF Upto
<1>2. FirstArrivals(s, d, n) = {i \in Mine(s) : \A j \in Mine(s) : s[j].id = s[i].id => i <= j}
  BY DEF FirstArrivals
<1>3. FirstArrivals(u, d, n) = {i \in Mine(u) : \A j \in Mine(u) : u[j].id = u[i].id => i <= j}
  BY DEF FirstArrivals
<1> HIDE DEF Mine
<1>4. QED
  BY <1>1, <1>2, <1>3

\* The next record arrives if it is a signal of the device with a new id.
LEMMA ArrivalsOfNext ==
  ASSUME NEW n \in Nat, NEW s, NEW d \in Devices
  PROVE  LET r == s[n + 1]
             before == FirstArrivals(s, d, n)
         IN FirstArrivals(s, d, n + 1) =
              before \cup IF /\ Applicable("device.risk-signals", r) /\ r.device = d
                             /\ \A i \in before : s[i].id # r.id
                            THEN {n + 1} ELSE {}
<1> DEFINE r == s[n + 1]
           M == {i \in Upto("device.risk-signals", s, n) : s[i].device = d}
           N == {i \in Upto("device.risk-signals", s, n + 1) : s[i].device = d}
           New == Applicable("device.risk-signals", r) /\ r.device = d
           before == FirstArrivals(s, d, n)
<1>1. M \in SUBSET (1 .. n)
  BY DEF Upto
<1>2. N = M \cup (IF New THEN {n + 1} ELSE {})
  BY DEF Upto
<1>3. before = {i \in M : \A j \in M : s[j].id = s[i].id => i <= j}
  BY DEF FirstArrivals
<1>4. FirstArrivals(s, d, n + 1) = {i \in N : \A j \in N : s[j].id = s[i].id => i <= j}
  BY DEF FirstArrivals
<1>5. (\E j \in M : s[j].id = r.id) <=> (\E i \in before : s[i].id = r.id)
  <2>1. ASSUME NEW j \in M, s[j].id = r.id
        PROVE  \E i \in before : s[i].id = r.id
    <3> DEFINE S == {i \in M : s[i].id = r.id}
    <3>1. S \in SUBSET Nat /\ S # {}
      BY <1>1, <2>1
    <3>2. PICK i \in S : \A k \in S : i <= k
      BY <3>1, LeastNat
    <3>3. i \in before /\ s[i].id = r.id
      BY <1>3, <3>2
    <3>4. QED
      BY <3>3
  <2>2. QED
    BY <1>3, <2>1
<1> HIDE DEF M, N, New, before
<1>6. \A i \in M : i <= n + 1 /\ i # n + 1 /\ ~(n + 1 <= i)
  BY <1>1
<1>7. CASE ~New
  BY <1>2, <1>3, <1>4, <1>7 DEF New, before
<1>8. CASE New
  <2>1. N = M \cup {n + 1}
    BY <1>2, <1>8
  <2>2. ASSUME NEW i \in M
        PROVE  i \in FirstArrivals(s, d, n + 1) <=> i \in before
    BY <1>3, <1>4, <1>6, <2>1
  <2>3. n + 1 \in FirstArrivals(s, d, n + 1) <=> \A j \in M : s[j].id # r.id
    BY <1>4, <1>6, <2>1
  <2>4. FirstArrivals(s, d, n + 1) \subseteq M \cup {n + 1} /\ before \subseteq M
    BY <1>3, <1>4, <2>1
  <2>5. FirstArrivals(s, d, n + 1) = before \cup IF \A i \in before : s[i].id # r.id THEN {n + 1} ELSE {}
    BY <1>5, <1>6, <2>2, <2>3, <2>4
  <2>6. QED
    BY <1>8, <2>5 DEF New, before
<1>9. QED
  BY <1>7, <1>8

\* The ids that were seen, and the window, of every device.
WindowInv ==
  \A d \in Devices :
    /\ signalIds[d] = {log["device.risk-signals"][i].id : i \in Arrivals(d)}
    /\ \E f : Fills(signals[d], f, log["device.risk-signals"], Arrivals(d))

LEMMA FillsOfPrefix ==
  ASSUME NEW w, NEW f, NEW l, NEW m, NEW A, Fills(w, f, l, A), \A i \in A : l[i] = m[i],
         Len(w) \in Nat
  PROVE  Fills(w, f, m, A)
<1>1. \A k \in 1 .. Len(w) : f[k] \in A
  BY DEF Fills
<1>2. \A k \in 1 .. Len(w) : l[f[k]] = m[f[k]]
  BY <1>1
<1>3. \A j, k \in 1 .. Len(w) : j < k => Older(m, f[j], f[k])
  BY <1>2 DEF Fills, Older
<1>4. ASSUME NEW i \in A, \A k \in 1 .. Len(w) : f[k] # i
      PROVE  Len(w) = SIGNALS_PER_DEVICE /\ Older(m, i, f[1])
  <2>1. Len(w) = SIGNALS_PER_DEVICE /\ Older(l, i, f[1])
    BY <1>4 DEF Fills
  <2>2. 1 \in 1 .. Len(w)
    BY <2>1, TableAssumption
  <2>3. QED
    BY <1>2, <2>1, <2>2 DEF Older
<1>5. QED
  BY <1>2, <1>3, <1>4 DEF Fills

LEMMA WindowApplied ==
  ASSUME IInv, WindowInv, Applied("device.risk-signals"), NEW d \in Devices
  PROVE  /\ signalIds'[d] = {log'["device.risk-signals"][i].id : i \in Arrivals(d)'}
         /\ \E f : Fills(signals'[d], f, log'["device.risk-signals"], Arrivals(d)')
<1> DEFINE rs == "device.risk-signals"
           r == Next1(rs)
           l == log[rs]
           n == position[rs]
           A == Arrivals(d)
<1>0. rs \in Topics
  BY DEF Topics
<1>1. /\ n \in Nat /\ position'[rs] = n + 1 /\ log'[rs] = l /\ l[n + 1] = r
  BY <1>0, AppliedType DEF IInv
<1>2. ApplySignal(r) /\ r \in SignalRecord /\ r.time # NoTime /\ Applicable(rs, r)
  BY DEF Applied, Apply, Applicable, Records
<1>3. A = FirstArrivals(l, d, n) /\ Arrivals(d)' = FirstArrivals(l, d, n + 1)
  BY <1>1, ArrivalsOfLog DEF Arrivals, FirstArrivals
<1>4. Arrivals(d)' = A \cup IF r.device = d /\ \A i \in A : l[i].id # r.id THEN {n + 1} ELSE {}
  BY <1>1, <1>2, <1>3, ArrivalsOfNext
<1>5. /\ signalIds[d] = {l[i].id : i \in A}
      /\ \E f : Fills(signals[d], f, l, A)
  BY DEF WindowInv
<1>6. (\A i \in A : l[i].id # r.id) <=> r.id \notin signalIds[d]
  BY <1>5
<1>7. CASE r.device = d /\ r.id \notin signalIds[d]
  <2>1. /\ signalIds'[d] = signalIds[d] \cup {r.id}
        /\ signals'[d] = Inserted(signals[d], SignalOf(r))
    BY <1>2, <1>7 DEF ApplySignal, SignalOf, IInv, TypeOK, TableTypeOK
  <2>2. Arrivals(d)' = A \cup {n + 1}
    BY <1>4, <1>6, <1>7
  <2>3. signalIds'[d] = {l[i].id : i \in A \cup {n + 1}}
    BY <1>1, <1>5, <2>1
  <2>4. /\ A \in SUBSET (1 .. n) /\ A \cup {n + 1} \in SUBSET (1 .. n + 1)
        /\ \A i \in A \cup {n + 1} : SignalOf(l[i]) \in Signal
    BY <1>1, <1>3, <2>2, ArrivalsAreSignals
  <2>5. PICK f : Fills(signals[d], f, l, A)
    BY <1>5
  <2>6. signals[d] \in Seq(Signal)
    BY DEF IInv, TypeOK, TableTypeOK
  <2>7. A \in SUBSET Nat /\ n + 1 \in Nat /\ \A i \in A : i < n + 1
    BY <1>1, <2>4
  <2>8. \E g : Fills(Inserted(signals[d], SignalOf(l[n + 1])), g, l, A \cup {n + 1})
    BY <2>4, <2>5, <2>6, <2>7, WindowGrows
  <2>9. QED
    BY <1>1, <2>1, <2>2, <2>3, <2>8
<1>8. CASE ~(r.device = d /\ r.id \notin signalIds[d])
  <2>1. signalIds'[d] = signalIds[d] /\ signals'[d] = signals[d]
    BY <1>2, <1>8 DEF ApplySignal, IInv, TypeOK, TableTypeOK, SignalRecord
  <2>2. Arrivals(d)' = A
    BY <1>4, <1>6, <1>8
  <2>3. QED
    BY <1>1, <1>5, <2>1, <2>2
<1>9. QED
  BY <1>7, <1>8

\* A step that leaves the windows alone, and a device's arrivals too.
LEMMA WindowQuiet ==
  ASSUME IInv, WindowInv, UNCHANGED <<signals, signalIds>>, NEW d \in Devices,
         Arrivals(d)' = Arrivals(d),
         \A i \in Arrivals(d) : log'["device.risk-signals"][i] = log["device.risk-signals"][i]
  PROVE  /\ signalIds'[d] = {log'["device.risk-signals"][i].id : i \in Arrivals(d)'}
         /\ \E f : Fills(signals'[d], f, log'["device.risk-signals"], Arrivals(d)')
<1>1. /\ signalIds[d] = {log["device.risk-signals"][i].id : i \in Arrivals(d)}
      /\ Len(signals[d]) \in Nat
  BY DEF WindowInv, IInv, TypeOK, TableTypeOK
<1>2. PICK f : Fills(signals[d], f, log["device.risk-signals"], Arrivals(d))
  BY DEF WindowInv
<1>3. Fills(signals[d], f, log'["device.risk-signals"], Arrivals(d))
  BY <1>1, <1>2, FillsOfPrefix
<1>4. signalIds'[d] = {log'["device.risk-signals"][i].id : i \in Arrivals(d)}
  BY <1>1
<1>5. QED
  BY <1>3, <1>4

LEMMA WindowStep ==
  ASSUME IInv, WindowInv, [Next]_vars
  PROVE  WindowInv'
<1> DEFINE rs == "device.risk-signals"
           Fine(d) == /\ signalIds'[d] = {log'[rs][i].id : i \in Arrivals(d)'}
                      /\ \E f : Fills(signals'[d], f, log'[rs], Arrivals(d)')
<1>0. rs \in Topics
  BY DEF Topics
<1>1. SUFFICES ASSUME NEW d \in Devices PROVE Fine(d)
  BY DEF WindowInv
<1>2. position[rs] \in Nat /\ Arrivals(d) = FirstArrivals(log[rs], d, position[rs])
  BY <1>0, ArrivalsOfLog DEF IInv, TypeOK
<1>3. Arrivals(d)' = FirstArrivals(log'[rs], d, position'[rs])
  BY DEF Arrivals, FirstArrivals
<1>4. Arrivals(d) \in SUBSET (1 .. position[rs])
  BY <1>2, ArrivalsAreSignals
<1> HIDE DEF Fine
<1>5. CASE Applied(rs)
  BY <1>5, WindowApplied DEF Fine
<1>6. CASE Passed(rs)
  <2>1. /\ UNCHANGED <<signals, signalIds, log>>
        /\ position'[rs] = position[rs] + 1 /\ log[rs][position[rs] + 1] = Next1(rs)
        /\ ~Applicable(rs, Next1(rs))
    BY <1>0, <1>6, AppliedType DEF Passed, tableVars, IInv
  <2>2. Arrivals(d)' = Arrivals(d)
    <3>1. ~Applicable(rs, log[rs][position[rs] + 1])
      BY <2>1
    <3> DEFINE l == log[rs]
               n == position[rs]
    <3> HIDE DEF l, n
    <3>2. n \in Nat /\ ~Applicable(rs, l[n + 1])
      BY <1>2, <3>1 DEF l, n
    <3>3. FirstArrivals(l, d, n + 1) = FirstArrivals(l, d, n)
      <4> DEFINE before == FirstArrivals(l, d, n)
                 arrives == /\ Applicable(rs, l[n + 1]) /\ l[n + 1].device = d
                            /\ \A i \in before : l[i].id # l[n + 1].id
      <4>1. FirstArrivals(l, d, n + 1) = before \cup IF arrives THEN {n + 1} ELSE {}
        BY <3>2, ArrivalsOfNext, Zenon
      <4>2. ~arrives
        BY <3>2
      <4> HIDE DEF arrives, before
      <4>3. FirstArrivals(l, d, n + 1) = before
        BY <4>1, <4>2
      <4>4. QED
        BY <4>3 DEF before
    <3>4. QED
      BY <1>2, <1>3, <2>1, <3>3 DEF l, n
  <2>3. QED
    BY <2>1, <2>2, WindowQuiet DEF Fine
<1>7. ASSUME NEW t \in Topics \ {rs}, Applied(t) \/ Passed(t) PROVE Fine(d)
  <2>1. UNCHANGED <<signals, signalIds>>
    BY <1>7 DEF Applied, Apply, ApplyDevice, ApplyCustomer, Passed, tableVars, Topics
  <2>2. position'[rs] = position[rs] /\ log'[rs] = log[rs]
    BY <1>0, <1>7, AppliedType DEF IInv
  <2>3. QED
    BY <1>2, <1>3, <2>1, <2>2, WindowQuiet DEF Fine
<1>8. CASE Die
  <2>1. signals'[d] = <<>> /\ signalIds'[d] = {} /\ position'[rs] = 0
    BY <1>0, <1>8 DEF Die, TableLost, NoSignals, NoSignalIds
  <2>2. Arrivals(d)' = {}
    BY <1>3, <2>1 DEF FirstArrivals, Upto
  <2>3. Fills(<<>>, <<>>, log'[rs], {})
    BY TableAssumption DEF Fills
  <2>4. QED
    BY <2>1, <2>2, <2>3 DEF Fine
<1>9. CASE UNCHANGED <<tableVars, position>>
  <2>1. \A i \in 1 .. position[rs] : log'[rs][i] = log[rs][i]
    BY <1>0, LogGrows DEF IInv, TypeOK, ReplayInv
  <2>2. Arrivals(d)' = Arrivals(d)
    BY <1>2, <1>3, <1>9, <2>1, ArrivalsOfPrefix
  <2>3. QED
    BY <1>4, <1>9, <2>1, <2>2, WindowQuiet DEF Fine, tableVars
<1>10. QED
  BY <1>5, <1>6, <1>7, <1>8, <1>9, TableSteps

LEMMA OlderIsOrder ==
  ASSUME NEW l, NEW i \in Nat, NEW j \in Nat, l[i].time \in Nat, l[j].time \in Nat, Older(l, i, j)
  PROVE  /\ i # j /\ ~Older(l, j, i)
         /\ \A k \in Nat : l[k].time \in Nat /\ Older(l, j, k) => Older(l, i, k)
  BY DEF Older

NewerThan(l, A, i) == {j \in A : Older(l, i, j)}

\* Position k of a window has as many arrivals above it as the window has.
LEMMA CountNewer ==
  ASSUME NEW w, Len(w) \in Nat, NEW l, NEW A \in SUBSET Nat, NEW f, Fills(w, f, l, A),
         \A i \in A : l[i].time \in Nat, NEW k \in 1 .. Len(w)
  PROVE  Cardinality(NewerThan(l, A, f[k])) = Len(w) - k
<1> DEFINE N == NewerThan(l, A, f[k])
           c == Len(w)
<1>1. /\ c \in Nat /\ \A m \in 1 .. c : f[m] \in A /\ f[m] \in Nat /\ l[f[m]].time \in Nat
      /\ \A j, m \in 1 .. c : j < m => Older(l, f[j], f[m])
  BY DEF Fills
<1>2. \A j, m \in 1 .. c : j < m => ~Older(l, f[m], f[j])
  <2>1. SUFFICES ASSUME NEW j \in 1 .. c, NEW m \in 1 .. c, j < m
                 PROVE  ~Older(l, f[m], f[j])
    OBVIOUS
  <2>2. /\ Older(l, f[j], f[m]) /\ f[j] \in Nat /\ f[m] \in Nat
        /\ l[f[j]].time \in Nat /\ l[f[m]].time \in Nat
    BY <1>1, <2>1
  <2>3. QED
    BY <2>2, OlderIsOrder
<1>3. \A m \in 1 .. c : ~Older(l, f[m], f[m])
  BY <1>1, OlderIsOrder
<1> USE DEF NewerThan
<1>4. ASSUME NEW j \in N PROVE \E m \in k + 1 .. c : f[m] = j
  <2>1. CASE \A m \in 1 .. c : f[m] # j
    <3>1. Older(l, j, f[1]) /\ Older(l, f[k], j)
      BY <1>4, <2>1 DEF Fills
    <3>2. 1 \in 1 .. c /\ (f[1] = f[k] \/ Older(l, f[1], f[k]))
      BY <1>1
    <3>3. /\ j \in Nat /\ f[1] \in Nat /\ f[k] \in Nat
          /\ l[j].time \in Nat /\ l[f[1]].time \in Nat /\ l[f[k]].time \in Nat
      BY <1>1, <1>4, <3>2
    <3>4. FALSE
      BY <3>1, <3>2, <3>3, OlderIsOrder
    <3>5. QED
      BY <3>4
  <2>2. ASSUME NEW m \in 1 .. c, f[m] = j PROVE m \in k + 1 .. c
    <3>1. Older(l, f[k], f[m])
      BY <1>4, <2>2
    <3>2. ~(m < k) /\ m # k
      BY <1>2, <1>3, <3>1
    <3>3. QED
      BY <1>1, <3>2
  <2>3. QED
    BY <2>1, <2>2
<1>5. \A m \in k + 1 .. c : m \in 1 .. c /\ f[m] \in N
  BY <1>1
<1>6. \A j, m \in 1 .. c : f[j] = f[m] => j = m
  <2>1. SUFFICES ASSUME NEW j \in 1 .. c, NEW m \in 1 .. c, f[j] = f[m], j # m PROVE FALSE
    OBVIOUS
  <2>2. j < m \/ m < j
    BY <2>1
  <2>3. QED
    BY <1>1, <1>3, <2>1, <2>2
<1> DEFINE g == [m \in k + 1 .. c |-> f[m]]
<1> HIDE DEF N
<1>7. g \in [k + 1 .. c -> N]
  BY <1>5
<1>8. g \in Injection(k + 1 .. c, N)
  BY <1>5, <1>6, <1>7 DEF Injection, IsInjective
<1>9. g \in Surjection(k + 1 .. c, N)
  BY <1>4, <1>7 DEF Surjection
<1>10. ExistsBijection(k + 1 .. c, N)
  BY <1>8, <1>9 DEF ExistsBijection, Bijection
<1>11. IsFiniteSet(k + 1 .. c) /\ Cardinality(k + 1 .. c) = c - k
  BY <1>1, FS_Interval
<1>12. QED
  BY <1>10, <1>11, FS_Bijection DEF N

\* The window and its arrivals.
LEMMA CountArrivals ==
  ASSUME NEW w, Len(w) \in Nat, NEW l, NEW A \in SUBSET Nat, IsFiniteSet(A), NEW f, Fills(w, f, l, A),
         \A i \in A : l[i].time \in Nat
  PROVE  Len(w) = IF Cardinality(A) < SIGNALS_PER_DEVICE THEN Cardinality(A) ELSE SIGNALS_PER_DEVICE
<1> DEFINE c == Len(w)
<1>1. /\ c \in Nat /\ c <= SIGNALS_PER_DEVICE /\ f \in [1 .. c -> A]
      /\ \A j, m \in 1 .. c : j < m => Older(l, f[j], f[m])
  BY DEF Fills
<1>2. \A m \in 1 .. c : ~Older(l, f[m], f[m])
  <2>1. \A m \in 1 .. c : f[m] \in Nat /\ l[f[m]].time \in Nat
    BY <1>1
  <2>2. QED
    BY <2>1, OlderIsOrder
<1>3. \A j, m \in 1 .. c : f[j] = f[m] => j = m
  <2>1. SUFFICES ASSUME NEW j \in 1 .. c, NEW m \in 1 .. c, f[j] = f[m], j # m PROVE FALSE
    OBVIOUS
  <2>2. j < m \/ m < j
    BY <2>1
  <2>3. QED
    BY <1>1, <1>2, <2>1, <2>2
<1>4. f \in Injection(1 .. c, A)
  BY <1>1, <1>3 DEF Injection, IsInjective
<1>5. Cardinality(1 .. c) = c
  <2>1. Cardinality(1 .. c) = IF 1 > c THEN 0 ELSE c - 1 + 1
    BY <1>1, FS_Interval
  <2>2. QED
    BY <1>1, <2>1
<1>6. /\ c <= Cardinality(A)
      /\ c = Cardinality(A) <=> f \in Surjection(1 .. c, A)
  BY <1>4, <1>5, FS_Injection
<1>7. Cardinality(A) \in Nat
  BY FS_CardinalityType
<1>8. CASE c = SIGNALS_PER_DEVICE
  BY <1>6, <1>7, <1>8, TableAssumption
<1>9. CASE c < SIGNALS_PER_DEVICE
  <2>1. \A i \in A : \E k \in 1 .. c : f[k] = i
    BY <1>9, TableAssumption DEF Fills
  <2>2. f \in Surjection(1 .. c, A)
    BY <1>1, <2>1 DEF Surjection
  <2>3. QED
    BY <1>6, <1>7, <1>9, <2>2, TableAssumption
<1>10. QED
  BY <1>1, <1>8, <1>9, TableAssumption

LEMMA SignalsRead == IInv /\ WindowInv => NewestSignals
<1> SUFFICES ASSUME IInv, WindowInv PROVE NewestSignals
  OBVIOUS
<1> DEFINE l == log["device.risk-signals"]
           size == SIGNALS_PER_DEVICE
           Times(i) == l[i].time
           Newer(i, j) == Times(i) > Times(j) \/ (Times(i) = Times(j) /\ i > j)
<1>1. SUFFICES ASSUME NEW d \in Devices
               PROVE  LET n == Cardinality(Arrivals(d))
                          listed == ListRiskSignals(d, size)
                      IN /\ Len(listed) = IF n < size THEN n ELSE size
                         /\ \A k \in DOMAIN listed : \E i \in Arrivals(d) :
                              /\ listed[k] = [id |-> l[i].id, time |-> Times(i)]
                              /\ Cardinality({j \in Arrivals(d) : Newer(j, i)}) = k - 1
  BY DEF NewestSignals
<1> DEFINE w == signals[d]
           A == Arrivals(d)
           listed == ListRiskSignals(d, size)
<1>2. position["device.risk-signals"] \in Nat
  BY DEF IInv, TypeOK, Topics
<1>3. /\ A \in SUBSET (1 .. position["device.risk-signals"])
      /\ \A i \in A : SignalOf(l[i]) \in Signal
  BY <1>2, ArrivalsOfLog, ArrivalsAreSignals
<1>4. /\ A \in SUBSET Nat
      /\ \A i \in A : l[i].time \in Nat
  BY <1>3 DEF SignalOf, Signal
<1>5. IsFiniteSet(A)
  <2>1. IsFiniteSet(1 .. position["device.risk-signals"])
    BY <1>2, FS_Interval
  <2>2. QED
    BY <1>3, <2>1, FS_Subset
<1>6. Len(w) \in Nat
  BY DEF IInv, TypeOK, TableTypeOK
<1>7. PICK f : Fills(w, f, l, A)
  BY DEF WindowInv
<1> HIDE DEF A, w, l
<1>8. Len(w) = IF Cardinality(A) < size THEN Cardinality(A) ELSE size
  BY <1>4, <1>5, <1>6, <1>7, CountArrivals
<1>9. Len(w) <= size /\ size \in Nat
  BY <1>7, TableAssumption DEF Fills
<1>10. listed = [k \in 1 .. Len(w) |-> w[Len(w) + 1 - k]]
  BY <1>6, <1>9 DEF ListRiskSignals, w
<1>11. Len(listed) = Len(w) /\ DOMAIN listed = 1 .. Len(w)
  BY <1>6, <1>10
<1>12. ASSUME NEW k \in 1 .. Len(w)
       PROVE  \E i \in A : /\ listed[k] = [id |-> l[i].id, time |-> Times(i)]
                           /\ Cardinality({j \in A : Newer(j, i)}) = k - 1
  <2> DEFINE m == Len(w) + 1 - k
  <2>1. m \in 1 .. Len(w) /\ Len(w) - m = k - 1
    BY <1>6
  <2>2. f[m] \in A /\ w[m] = SignalOf(l[f[m]])
    BY <1>7, <2>1 DEF Fills
  <2>3. Cardinality(NewerThan(l, A, f[m])) = k - 1
    <3> HIDE DEF m
    <3>1. Cardinality(NewerThan(l, A, f[m])) = Len(w) - m
      BY <1>4, <1>6, <1>7, <2>1, CountNewer
    <3>2. QED
      BY <2>1, <3>1
  <2>4. \A j \in A : Older(l, f[m], j) <=> Newer(j, f[m])
    <3>1. SUFFICES ASSUME NEW j \in A PROVE Older(l, f[m], j) <=> Newer(j, f[m])
      OBVIOUS
    <3>2. j \in Nat /\ f[m] \in Nat /\ l[j].time \in Nat /\ l[f[m]].time \in Nat
      BY <1>4, <2>2
    <3>3. QED
      BY <3>2 DEF Older
  <2>5. NewerThan(l, A, f[m]) = {j \in A : Newer(j, f[m])}
    BY <2>4 DEF NewerThan
  <2>6. listed[k] = [id |-> l[f[m]].id, time |-> Times(f[m])]
    BY <1>10, <2>2 DEF SignalOf
  <2>7. QED
    BY <2>2, <2>3, <2>5, <2>6
<1>13. QED
  BY <1>8, <1>11, <1>12 DEF A, l

\* list_risk_signals returns the newest distinct signals of a device, newest
\* first, for every window size, every order of arrival, and across restarts.
THEOREM SignalsSafety == Spec => []NewestSignals
<1>1. Init => WindowInv
  <2>1. SUFFICES ASSUME Init, NEW d \in Devices
                 PROVE  /\ signalIds[d] = {log["device.risk-signals"][i].id : i \in Arrivals(d)}
                        /\ \E f : Fills(signals[d], f, log["device.risk-signals"], Arrivals(d))
    BY DEF WindowInv
  <2>2. signals[d] = <<>> /\ signalIds[d] = {} /\ position["device.risk-signals"] = 0
    BY <2>1 DEF Init, TableInit, NoSignals, NoSignalIds, Topics
  <2>3. Arrivals(d) = {}
    BY <2>2 DEF Arrivals, Upto
  <2>4. Fills(<<>>, <<>>, log["device.risk-signals"], {})
    BY TableAssumption DEF Fills
  <2>5. QED
    BY <2>2, <2>3, <2>4
<1>2. IInv /\ WindowInv /\ [Next]_vars => WindowInv'
  BY WindowStep
<1>3. IInv /\ WindowInv => NewestSignals
  BY SignalsRead
<1>4. Spec => [](IInv /\ WindowInv)
  BY <1>1, <1>2, InitInv, NextInv, PTL DEF Spec
<1>5. QED
  BY <1>3, <1>4, PTL
=============================================================================
