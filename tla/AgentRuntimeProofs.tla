------------------------- MODULE AgentRuntimeProofs -------------------------
(***************************************************************************)
(* Theorems about AgentRuntime for every number of partitions, records,    *)
(* faults, edits and file contents, and every batch size.                  *)
(***************************************************************************)
EXTENDS AgentRuntime, WellFoundedInduction, TLAPS

-----------------------------------------------------------------------------
(* Types *)

LEMMA LeastElement ==
  ASSUME NEW S \in SUBSET Nat, S # {}
  PROVE  \E n \in S : \A m \in S : n <= m
<1>1. PICK n \in S : \A m \in S : ~(<<m, n>> \in OpToRel(<, Nat))
  BY NatLessThanWellFounded, WFMin
<1>2. \A m \in S : ~(m < n)
  BY <1>1 DEF OpToRel
<1>3. QED
  BY <1>2

LEMMA SettingsOfType ==
  ASSUME NEW c \in Contents, c.agent # "absent"
  PROVE  SettingsOf(c) \in Settings
  BY DEF Contents, SettingsOf, Settings, Blocks

LEMMA FaultType ==
  ASSUME faults \in 0 .. MaxFaults, Fault
  PROVE  faults' \in 0 .. MaxFaults
  BY BusAssumption DEF Fault

LEMMA EmittedType ==
  ASSUME NEW r \in Inbound, NEW v \in Settings, NEW kinds \in SUBSET Kinds
  PROVE  Emitted(r, v, kinds) \subseteq Output
  BY DEF Emitted, Output

LEMMA FirstOffsetType ==
  ASSUME NEW b \in Seq(Inbound), NEW p \in PartitionsOf(b)
  PROVE  /\ FirstOffset(b, p) \in 0 .. MaxLog
         /\ \E i \in DOMAIN b : /\ b[i].partition = p
                                /\ b[i].offset = FirstOffset(b, p)
                                /\ \A h \in 1 .. i - 1 : b[h].partition # p
<1> DEFINE IsFirst(m) == b[m].partition = p /\ \A h \in 1 .. m - 1 : b[h].partition # p
<1> DEFINE S == {m \in DOMAIN b : b[m].partition = p}
<1>1. S # {} /\ S \subseteq Nat
  BY DEF PartitionsOf
<1>2. PICK n \in S : \A m \in S : n <= m
  BY <1>1, LeastElement
<1>3. n \in DOMAIN b /\ IsFirst(n)
  BY <1>2
<1>4. PICK i \in DOMAIN b : IsFirst(i) /\ FirstOffset(b, p) = b[i].offset
  BY <1>3 DEF FirstOffset
<1>5. b[i] \in Inbound
  OBVIOUS
<1>6. b[i].offset \in 0 .. MaxLog
  BY <1>5, BusAssumption DEF Inbound, Offsets
<1>7. QED
  BY <1>4, <1>6

LEMMA RewindType ==
  ASSUME TypeOK, Rewind
  PROVE  position' \in [Partitions -> 0 .. MaxLog] /\ batch' = <<>>
<1> PICK lost \in SUBSET (assigned \ owned) :
       position' = [p \in Partitions |->
                      IF p \in PartitionsOf(batch) \ lost THEN FirstOffset(batch, p)
                                                          ELSE position[p]]
  BY DEF Rewind
<1> ASSUME NEW p \in PartitionsOf(batch)
    PROVE  FirstOffset(batch, p) \in 0 .. MaxLog
  BY FirstOffsetType DEF TypeOK
<1> QED
  BY DEF Rewind, TypeOK, BusTypeOK

\* Types and control together: Handle and CommitSucceeds take the head of a
\* batch, which is a record only because LoopOK says there is one.
TypeInv == TypeOK /\ LoopOK

LEMMA TypeInit == Init => TypeInv
<1> SUFFICES ASSUME Init PROVE TypeInv
  OBVIOUS
<1> USE ConfigsAssumption, BusAssumption, RuntimeAssumption
       DEF Init, ConfigInit, BusInit, CardValue
<1>1. file \in Contents
  OBVIOUS
<1>2. settings \in Settings /\ busConf \in BusConfig
  BY <1>1 DEF Contents, Settings, SettingsOf, Blocks
<1>3. BusTypeOK
  <2>1. log \in [Partitions -> Seq(BOOLEAN)] /\ \A p \in Partitions : Len(log[p]) <= MaxLog
    OBVIOUS
  <2>2. committed \in [Partitions -> Nat \cup {None}]
    OBVIOUS
  <2>3. card \in CardValue /\ cardq \in Seq(CardValue)
    OBVIOUS
  <2>4. position \in [Partitions -> 0 .. MaxLog] /\ low \in [Partitions -> 0 .. MaxLog]
    OBVIOUS
  <2>5. faults \in 0 .. MaxFaults
    OBVIOUS
  <2>6. outputs = {} /\ inflight = {} /\ errors = {} /\ assigned = {} /\ owned = {}
        /\ pausedParts = {} /\ attempts = {} /\ paused \in BOOLEAN
    OBVIOUS
  <2>7. QED
    BY <2>1, <2>2, <2>3, <2>4, <2>5, <2>6, <1>2 DEF BusTypeOK
<1>4. digest \in Contents \cup {Unread} /\ batch \in Seq(Inbound) /\ edits \in 0 .. MaxEdits
  OBVIOUS
<1>5. pc = "down" /\ caller = "start" /\ batch = <<>> /\ active = FALSE /\ cardConfirmed = TRUE
  OBVIOUS
<1> HIDE DEF Init, ConfigInit, BusInit
<1>6. QED
  BY <1>1, <1>2, <1>3, <1>4, <1>5 DEF TypeInv, TypeOK, LoopOK, Callers

LEMMA BrokerType ==
  ASSUME TypeInv, Broker
  PROVE  TypeInv'
<1> USE DEF TypeInv, TypeOK, BusTypeOK, LoopOK, Broker, BrokerNext, Fault, configVars,
            runtimeVars, loopVars, brokerVars, producerVars, consumerVars
<1>1. ASSUME NEW p \in Partitions, Produce(p)
      PROVE  TypeInv'
  BY <1>1, BusAssumption, SMTT(30) DEF Produce
<1>2. ASSUME NEW p \in Partitions, PeerCommits(p)
      PROVE  TypeInv'
  <2> DEFINE r == [partition |-> p, offset |-> committed[p]]
  <2>1. r \in Inbound
    BY <1>2, BusAssumption DEF PeerCommits, Inbound, Offsets
  <2>2. attempts' \subseteq Inbound \X SUBSET Output
    BY <1>2, <2>1 DEF PeerCommits
  <2>3. committed' \in [Partitions -> Nat \cup {None}]
    <3>1. r.partition = p /\ r.offset \in Nat /\ r.offset + 1 \in Nat
      BY <2>1, BusAssumption, SMTT(30) DEF Inbound, Offsets
    <3>2. committed' = [committed EXCEPT ![r.partition] = r.offset + 1]
      BY <1>2 DEF PeerCommits, CommitOffset
    <3>3. QED
      BY <3>1, <3>2
  <2>4. QED
    BY <1>2, <2>2, <2>3 DEF PeerCommits
<1>3. ASSUME NEW o \in inflight, Persist(o) \/ Acknowledge(o) \/ FailDelivery(o)
      PROVE  TypeInv'
  <2>1. CASE Persist(o)
    BY <2>1 DEF Persist
  <2>2. CASE Acknowledge(o)
    BY <2>2 DEF Acknowledge
  <2>3. CASE FailDelivery(o)
    BY <2>3, BusAssumption DEF FailDelivery
  <2>4. QED
    BY <1>3, <2>1, <2>2, <2>3
<1>4. CASE DeliverCard \/ FailCard
  <2>1. Head(cardq) \in CardValue /\ Tail(cardq) \in Seq(CardValue)
    BY <1>4 DEF DeliverCard, FailCard
  <2>2. CASE DeliverCard
    BY <2>1, <2>2 DEF DeliverCard
  <2>3. CASE FailCard
    BY <2>1, <2>3, BusAssumption DEF FailCard
  <2>4. QED
    BY <1>4, <2>2, <2>3
<1>5. CASE LoseGroup
  BY <1>5, BusAssumption DEF LoseGroup
<1>6. QED
  BY <1>1, <1>2, <1>3, <1>4, <1>5

LEMMA ProcessLifeType ==
  ASSUME TypeInv, Boot \/ Start \/ StartRefused \/ Crash \/ StartRaises
  PROVE  TypeInv'
<1> USE DEF TypeInv, TypeOK, BusTypeOK, LoopOK, Callers, configVars, busVars, brokerVars,
            producerVars, consumerVars
<1>1. CASE Boot
  BY <1>1 DEF Boot, Load, Contents
<1>2. CASE Start
  BY <1>2, SettingsOfType DEF Start, Load
<1>3. CASE StartRefused
  BY <1>3 DEF StartRefused
<1>4. CASE Crash \/ StartRaises
  <2>1. faults' \in 0 .. MaxFaults
    BY <1>4, BusAssumption DEF Crash, StartRaises, Fault
  <2>2. cardq' \in Seq(CardValue) /\ batch' \in Seq(Inbound)
    <3>1. cardq' = <<>> /\ batch' = <<>>
      BY <1>4 DEF Crash, StartRaises, ProcessEnds
    <3>2. QED
      BY <3>1
  <2>3. /\ pc' = "down" /\ digest' = Unread /\ batch' = <<>> /\ active' = FALSE
        /\ cardConfirmed' = TRUE /\ paused' = FALSE
        /\ inflight' = {} /\ errors' = {} /\ assigned' = {} /\ owned' = {} /\ pausedParts' = {}
        /\ UNCHANGED <<file, log, committed, outputs, card, position, low, busConf, attempts,
                       caller, settings, edits>>
    <3>1. CASE Crash
      BY <3>1 DEF Crash, ProcessEnds
    <3>2. CASE StartRaises
      BY <3>2 DEF StartRaises, ProcessEnds
    <3>3. QED
      BY <1>4, <3>1, <3>2
  <2>4. QED
    BY <2>1, <2>2, <2>3
<1>5. QED
  BY <1>1, <1>2, <1>3, <1>4

LEMMA ConsumerType ==
  ASSUME TypeInv, Consumer
  PROVE  TypeInv'
<1> USE DEF TypeInv, TypeOK, BusTypeOK, LoopOK, configVars, brokerVars, producerVars,
            consumerVars, runtimeVars, loopVars
<1>1. CASE Rebalance
  <2>1. PICK S \in SUBSET Partitions : OnAssign(S)
    BY <1>1 DEF Rebalance
  <2>2. PICK f \in [S -> 0 .. MaxLog] :
          /\ position' = [p \in Partitions |-> IF p \in S THEN f[p] ELSE position[p]]
          /\ low' = [p \in Partitions |->
                       IF p \in S /\ committed[p] = None THEN f[p] ELSE low[p]]
          /\ assigned' = S /\ owned' = S /\ UNCHANGED paused
          /\ pausedParts' = IF paused THEN S ELSE {}
    BY <2>1 DEF OnAssign, Assign
  <2>3. position' \in [Partitions -> 0 .. MaxLog] /\ low' \in [Partitions -> 0 .. MaxLog]
    BY <2>2
  <2>4. QED
    BY <1>1, <2>2, <2>3 DEF Rebalance
<1>2. ASSUME NEW p \in Partitions, Fetch(p)
      PROVE  TypeInv'
  <2>1. NextRecord(p) \in Inbound
    BY <1>2, BusAssumption DEF Fetch, Fetchable, NextRecord, Inbound, Offsets
  <2>2. batch' \in Seq(Inbound)
    BY <1>2, <2>1 DEF Fetch
  <2>3. position' \in [Partitions -> 0 .. MaxLog]
    BY <1>2, BusAssumption DEF Fetch, Fetchable
  <2>4. QED
    BY <1>2, <2>2, <2>3 DEF Fetch
<1>3. QED
  BY <1>1, <1>2 DEF Consumer

LEMMA AfterReloadType ==
  ASSUME TypeInv, AfterReload
  PROVE  /\ pc' \in {"idle", "handle"}
         /\ position' \in [Partitions -> 0 .. MaxLog]
         /\ batch' \in Seq(Inbound)
         /\ pc' = "handle" => batch' # <<>>
         /\ pc' = "idle" => batch' = <<>>
<1>1. CASE batch = <<>>
  BY <1>1 DEF AfterReload, TypeInv, TypeOK, BusTypeOK
<1>2. CASE batch # <<>> /\ active
  BY <1>2 DEF AfterReload, TypeInv, TypeOK, BusTypeOK
<1>3. CASE batch # <<>> /\ ~active
  <2>1. pc' = "idle" /\ Rewind /\ TypeOK
    BY <1>3 DEF AfterReload, TypeInv
  <2>2. batch' = <<>> /\ position' \in [Partitions -> 0 .. MaxLog]
    BY <2>1, RewindType
  <2>3. QED
    BY <2>1, <2>2
<1>4. QED
  BY <1>1, <1>2, <1>3

LEMMA ReloadType ==
  ASSUME TypeInv, ReloadKeeps \/ ReloadWithCard \/ ReloadWithoutCard
  PROVE  TypeInv'
<1> USE DEF TypeInv, TypeOK, BusTypeOK, LoopOK, Callers, brokerVars, producerVars
<1>1. CASE ReloadKeeps
  <2>1. AfterReload
    BY <1>1 DEF ReloadKeeps
  <2>2. digest' \in Contents \cup {Unread}
    BY <1>1 DEF ReloadKeeps, RefreshNone, RefreshNew
  <2>3. QED
    BY <1>1, <2>1, <2>2, AfterReloadType DEF ReloadKeeps
<1>2. ASSUME Accept
      PROVE  /\ settings' \in Settings /\ busConf' \in BusConfig
             /\ digest' \in Contents \cup {Unread}
  BY <1>2, SettingsOfType DEF Accept, RefreshNew, Contents
<1>3. CASE ReloadWithCard
  BY <1>2, <1>3 DEF ReloadWithCard, Accept
<1>4. CASE ReloadWithoutCard
  BY <1>2, <1>4, AfterReloadType DEF ReloadWithoutCard, Accept
<1>5. QED
  BY <1>1, <1>3, <1>4

LEMMA HandleType ==
  ASSUME TypeInv, Handle
  PROVE  TypeInv'
<1>1. Head(batch) \in Inbound
  BY DEF Handle, TypeInv, TypeOK, LoopOK
<1>2. PICK kinds \in SUBSET Kinds :
        LET outs == Emitted(Head(batch), settings, kinds)
        IN /\ inflight' = inflight \cup outs
           /\ attempts' = attempts \cup {<<Head(batch), outs>>}
  BY DEF Handle
<1>3. Emitted(Head(batch), settings, kinds) \subseteq Output
  BY <1>1, EmittedType DEF TypeInv, TypeOK
<1>4. inflight' \subseteq Output /\ attempts' \subseteq Inbound \X SUBSET Output
  BY <1>1, <1>2, <1>3 DEF TypeInv, TypeOK, BusTypeOK
<1>5. QED
  BY <1>4 DEF Handle, TypeInv, TypeOK, BusTypeOK, LoopOK, configVars, brokerVars, consumerVars

LEMMA DeliveryFailedType ==
  ASSUME TypeInv, DeliveryFailed
  PROVE  errors' \subseteq {"card", "output"} /\ faults' \in 0 .. MaxFaults
<1> USE DEF TypeInv, TypeOK, BusTypeOK
<1>1. CASE errors # {}
  BY <1>1 DEF DeliveryFailed
<1>2. CASE errors = {}
  BY <1>2, BusAssumption DEF DeliveryFailed, Fault
<1>3. QED
  BY <1>1, <1>2

LEMMA CommitType ==
  ASSUME TypeInv, CommitUndelivered \/ CommitSucceeds \/ CommitFails
  PROVE  TypeInv'
<1>1. Head(batch) \in Inbound /\ Tail(batch) \in Seq(Inbound)
  BY DEF CommitUndelivered, CommitSucceeds, CommitFails, TypeInv, TypeOK, LoopOK
<1>2. ASSUME CommitOffset(Head(batch))
      PROVE  committed' \in [Partitions -> Nat \cup {None}]
  <2>1. Head(batch).partition \in Partitions /\ Head(batch).offset \in Nat
    BY <1>1, BusAssumption DEF Inbound, Offsets
  <2>2. Head(batch).offset + 1 \in Nat \cup {None}
    BY <2>1
  <2>3. committed \in [Partitions -> Nat \cup {None}]
    BY DEF TypeInv, TypeOK, BusTypeOK
  <2>4. committed' = [committed EXCEPT ![Head(batch).partition] = Head(batch).offset + 1]
    BY <1>2 DEF CommitOffset
  <2>5. QED
    BY <2>1, <2>2, <2>3, <2>4
<1>3. ASSUME Rewind
      PROVE  position' \in [Partitions -> 0 .. MaxLog] /\ batch' = <<>> /\ batch' \in Seq(Inbound)
  BY <1>3, RewindType DEF TypeInv
<1> USE DEF TypeInv, TypeOK, BusTypeOK, LoopOK, configVars, brokerVars, producerVars, consumerVars
<1>4. CASE CommitUndelivered
  <2>1. errors' \subseteq {"card", "output"} /\ faults' \in 0 .. MaxFaults
    BY <1>4, DeliveryFailedType DEF CommitUndelivered
  <2>2. Rewind
    BY <1>4 DEF CommitUndelivered
  <2>3. QED
    BY <1>3, <1>4, <2>1, <2>2 DEF CommitUndelivered
<1>5. CASE CommitSucceeds
  BY <1>1, <1>2, <1>5 DEF CommitSucceeds
<1>6. CASE CommitFails
  <2>1. committed' \in [Partitions -> Nat \cup {None}]
    BY <1>2, <1>6 DEF CommitFails
  <2>4. faults' \in 0 .. MaxFaults
    BY <1>6, FaultType DEF CommitFails
  <2>2. Rewind
    BY <1>6 DEF CommitFails
  <2>3. QED
    BY <1>3, <1>6, <2>1, <2>2, <2>4 DEF CommitFails
<1>7. QED
  BY <1>4, <1>5, <1>6

LEMMA LifecycleType ==
  ASSUME TypeInv, Lifecycle
  PROVE  paused' \in BOOLEAN /\ pausedParts' \subseteq assigned
  BY DEF Lifecycle, Pause, Resume, TypeInv, TypeOK, BusTypeOK, Callers

LEMMA SyncType ==
  ASSUME TypeInv, SyncProduce \/ SyncFlush \/ SyncRaises
  PROVE  TypeInv'
<1>1. CASE SyncProduce
  <2>1. cardq' \in Seq(CardValue)
    BY <1>1 DEF SyncProduce, ProduceCard, WantedCard, CardValue, TypeInv, TypeOK, BusTypeOK
  <2>2. QED
    BY <1>1, <2>1 DEF SyncProduce, TypeInv, TypeOK, BusTypeOK, LoopOK, configVars, brokerVars,
                      consumerVars
<1>2. CASE SyncFlush
  <2>1. /\ pc' \in {"idle", "poll", "handle"}
        /\ position' \in [Partitions -> 0 .. MaxLog]
        /\ batch' \in Seq(Inbound)
        /\ pc' = "handle" => batch' # <<>>
        /\ pc' = "idle" => batch' = <<>>
    <3>1. CASE caller \in {"start", "retry"}
      BY <1>2, <3>1 DEF SyncFlush, Return, TypeInv, TypeOK, BusTypeOK, LoopOK
    <3>2. CASE caller \notin {"start", "retry"}
      BY <1>2, <3>2, AfterReloadType DEF SyncFlush, Return
    <3>3. QED
      BY <3>1, <3>2
  <2>2. paused' \in BOOLEAN /\ pausedParts' \subseteq assigned
    BY <1>2, LifecycleType DEF SyncFlush
  <2>3. /\ errors' \subseteq {"card", "output"} /\ faults' \in 0 .. MaxFaults
        /\ cardConfirmed' \in BOOLEAN
    BY <1>2, DeliveryFailedType DEF SyncFlush, TypeInv, TypeOK, BusTypeOK
  <2>4. QED
    BY <1>2, <2>1, <2>2, <2>3 DEF SyncFlush, TypeInv, TypeOK, BusTypeOK, LoopOK, configVars,
                                  brokerVars
<1>3. CASE SyncRaises
  <2>1. position' \in [Partitions -> 0 .. MaxLog] /\ batch' = <<>> /\ batch' \in Seq(Inbound)
    BY <1>3, RewindType DEF SyncRaises, TypeInv
  <2>2. paused' \in BOOLEAN /\ pausedParts' \subseteq assigned
    BY <1>3, LifecycleType DEF SyncRaises
  <2>3. faults' \in 0 .. MaxFaults
    BY <1>3, BusAssumption DEF SyncRaises, Fault, TypeInv, TypeOK, BusTypeOK
  <2>4. QED
    BY <1>3, <2>1, <2>2, <2>3 DEF SyncRaises, TypeInv, TypeOK, BusTypeOK, LoopOK, configVars,
                                  brokerVars, producerVars
<1>4. QED
  BY <1>1, <1>2, <1>3

LEMMA TypeStep == TypeInv /\ [Next]_vars => TypeInv'
<1> SUFFICES ASSUME TypeInv, [Next]_vars PROVE TypeInv'
  OBVIOUS
<1> USE DEF TypeInv, TypeOK, BusTypeOK, LoopOK, configVars, busVars, brokerVars, producerVars,
            consumerVars, loopVars, runtimeVars
<1>1. CASE StepBegin \/ PollReturns
  BY <1>1 DEF StepBegin, PollReturns, Callers
<1>2. CASE OperatorEdits
  BY <1>2, ConfigsAssumption, RuntimeAssumption DEF OperatorEdits, Edit
<1>3. CASE UNCHANGED vars
  BY <1>3 DEF vars
<1> HIDE DEF TypeInv
<1>4. QED
  BY <1>1, <1>2, <1>3, ProcessLifeType, ReloadType, HandleType, CommitType, SyncType,
     ConsumerType, BrokerType DEF Next, Process

\* Every variable of the agent process, its bus and the broker keeps its type,
\* and a record is taken from a batch only where there is one.
THEOREM TypeSafety == Spec => [](TypeOK /\ LoopOK)
<1>1. Spec => []TypeInv
  BY TypeInit, TypeStep, PTL DEF Spec
<1>2. TypeInv => TypeOK /\ LoopOK
  BY DEF TypeInv
<1>3. QED
  BY <1>1, <1>2, PTL

-----------------------------------------------------------------------------
(* The pause follows the agent's activity *)

FollowsActive ==
  /\ paused = ~active
  /\ pausedParts = IF active THEN {} ELSE assigned

Syncing == pc \in {"card", "flush"}
Started == pc \in {"idle", "poll", "reload", "handle", "commit"}

\* A process that has not started has nothing assigned; while a card is on its
\* way out, what the caller will pause or resume is still as it was.
PausedInv ==
  /\ pc \in {"down", "booted"} \/ (Syncing /\ caller = "start") =>
       ~paused /\ pausedParts = {} /\ assigned = {}
  /\ Started \/ (Syncing /\ caller \in {"retry", "update"}) => FollowsActive
  /\ Syncing /\ caller \in {"activate", "update"} => active
  /\ Syncing /\ caller = "deactivate" => ~active

\* Whoever called _sync_card, the pause is right once it has returned or raised.
LEMMA LifecyclePauses ==
  ASSUME TypeInv, PausedInv, Syncing, Lifecycle, UNCHANGED <<active, assigned>>
  PROVE  FollowsActive'
<1>1. caller \in Callers /\ paused \in BOOLEAN /\ active \in BOOLEAN
  BY DEF TypeInv, TypeOK, BusTypeOK
<1>2. CASE caller = "start"
  <2>1. ~paused /\ pausedParts = {}
    BY <1>2 DEF PausedInv
  <2>2. IF active THEN UNCHANGED <<paused, pausedParts>> ELSE Pause
    BY <1>2 DEF Lifecycle
  <2>3. QED
    BY <1>1, <2>1, <2>2 DEF Pause, FollowsActive
<1>3. CASE caller \in {"retry", "update"}
  <2>1. FollowsActive /\ UNCHANGED <<paused, pausedParts>>
    BY <1>3 DEF PausedInv, Lifecycle
  <2>2. QED
    BY <2>1 DEF FollowsActive
<1>4. CASE caller = "activate"
  <2>1. active /\ Resume
    BY <1>4 DEF PausedInv, Lifecycle
  <2>2. QED
    BY <2>1 DEF Resume, FollowsActive
<1>5. CASE caller = "deactivate"
  <2>1. ~active /\ Pause
    BY <1>5 DEF PausedInv, Lifecycle
  <2>2. ~active'
    BY <2>1
  <2>3. paused' /\ pausedParts' = assigned'
    BY <2>1 DEF Pause
  <2>4. paused' \in BOOLEAN /\ active' \in BOOLEAN
    BY <1>1, <2>1 DEF Pause
  <2>5. QED
    BY <2>2, <2>3, <2>4 DEF FollowsActive
<1>6. QED
  BY <1>1, <1>2, <1>3, <1>4, <1>5 DEF Callers

LEMMA StartedReload ==
  ASSUME AfterReload
  PROVE  pc' \in {"idle", "handle"}
  BY DEF AfterReload

LEMMA PauseStep ==
  ASSUME TypeInv, PausedInv, [Next]_vars
  PROVE  PausedInv'
<1> USE DEF brokerVars, producerVars, consumerVars, configVars
<1>1. ASSUME Started', FollowsActive' PROVE PausedInv'
  BY <1>1 DEF PausedInv, Started, Syncing
<1>2. ASSUME UNCHANGED <<pc, caller, active, paused, pausedParts, assigned>> PROVE PausedInv'
  BY <1>2 DEF PausedInv, Started, Syncing, FollowsActive
<1>3. ASSUME Started, UNCHANGED <<active, paused, pausedParts, assigned>> PROVE FollowsActive'
  BY <1>3 DEF PausedInv, FollowsActive
<1>4. CASE Boot \/ StartRefused \/ Crash \/ StartRaises
  <2>1. /\ pc' \in {"down", "booted"}
        /\ ~paused' /\ pausedParts' = {} /\ assigned' = {}
    BY <1>4 DEF Boot, StartRefused, Crash, StartRaises, ProcessEnds, PausedInv, busVars
  <2>2. QED
    BY <2>1 DEF PausedInv, Started, Syncing
<1>5. CASE Start
  <2>1. pc' = "card" /\ caller' = "start" /\ ~paused' /\ pausedParts' = {} /\ assigned' = {}
    BY <1>5 DEF Start, PausedInv, busVars
  <2>2. QED
    BY <2>1 DEF PausedInv, Started, Syncing
<1>6. CASE StepBegin
  <2>1. /\ Started /\ UNCHANGED <<active, paused, pausedParts, assigned>>
        /\ pc' = "poll" \/ (pc' = "card" /\ caller' = "retry")
    BY <1>6 DEF StepBegin, Started, busVars
  <2>2. FollowsActive'
    BY <1>3, <2>1
  <2>3. QED
    BY <2>1, <2>2 DEF PausedInv, Started, Syncing
<1>7. CASE PollReturns \/ ReloadKeeps \/ Handle \/ CommitUndelivered \/ CommitSucceeds \/ CommitFails
           \/ \E p \in Partitions : Fetch(p)
  <2>1. Started /\ Started' /\ UNCHANGED <<active, paused, pausedParts, assigned>>
    BY <1>7, StartedReload DEF PollReturns, ReloadKeeps, Handle, CommitUndelivered, CommitSucceeds,
         CommitFails, Fetch, Started, busVars
  <2>2. QED
    BY <1>1, <1>3, <2>1
<1>8. CASE ReloadWithoutCard
  <2>1. Started /\ Started' /\ UNCHANGED <<active, paused, pausedParts, assigned>>
    BY <1>8, StartedReload DEF ReloadWithoutCard, Accept, Started
  <2>2. QED
    BY <1>1, <1>3, <2>1
<1>9. CASE ReloadWithCard
  <2>1. /\ Started /\ pc' = "card" /\ UNCHANGED <<paused, pausedParts, assigned>>
        /\ \/ active /\ ~active' /\ caller' = "deactivate"
           \/ ~active /\ active' /\ caller' = "activate"
           \/ active /\ active' /\ caller' = "update"
    BY <1>9 DEF ReloadWithCard, Accept, Started
  <2>2. FollowsActive
    BY <2>1 DEF PausedInv
  <2>3. caller' = "update" => FollowsActive'
    BY <2>1, <2>2 DEF FollowsActive
  <2>4. QED
    BY <2>1, <2>3 DEF PausedInv, Started, Syncing
<1>10. CASE SyncProduce
  <2>1. Syncing /\ Syncing' /\ UNCHANGED <<caller, active, paused, pausedParts, assigned>>
    BY <1>10 DEF SyncProduce, Syncing
  <2>2. QED
    BY <2>1 DEF PausedInv, Started, Syncing, FollowsActive
<1>11. CASE SyncFlush \/ SyncRaises
  <2>1. Syncing /\ Lifecycle /\ UNCHANGED <<active, assigned>>
    BY <1>11 DEF SyncFlush, SyncRaises, Syncing
  <2>2. Started'
    BY <1>11, StartedReload DEF SyncFlush, SyncRaises, Return, Started
  <2>3. QED
    BY <1>1, <2>1, <2>2, LifecyclePauses
<1>12. CASE Rebalance
  <2>1. PICK S \in SUBSET Partitions : OnAssign(S)
    BY <1>12 DEF Rebalance
  <2>2. /\ assigned' = S /\ pausedParts' = (IF paused THEN S ELSE {}) /\ UNCHANGED paused
        /\ Started /\ Started' /\ UNCHANGED active
    BY <1>12, <2>1 DEF Rebalance, OnAssign, Assign, Started, runtimeVars, loopVars
  <2>3. FollowsActive
    BY <2>2 DEF PausedInv
  <2>4. FollowsActive'
    BY <2>2, <2>3 DEF FollowsActive
  <2>5. QED
    BY <1>1, <2>2, <2>4
<1>13. CASE Broker \/ OperatorEdits \/ UNCHANGED vars
  <2>1. UNCHANGED <<pc, caller, active, paused, pausedParts, assigned>>
    BY <1>13 DEF Broker, BrokerNext, Produce, PeerCommits, Persist, Acknowledge, FailDelivery,
         DeliverCard, FailCard, LoseGroup, OperatorEdits, vars, busVars, runtimeVars, loopVars
  <2>2. QED
    BY <1>2, <2>1
<1>14. QED
  BY <1>4, <1>5, <1>6, <1>7, <1>8, <1>9, <1>10, <1>11, <1>12, <1>13 DEF Next, Process, Consumer

LEMMA PauseInit == Init => PausedInv
  BY DEF Init, BusInit, PausedInv, Started, Syncing

\* Whenever the loop polls, it fetches what is assigned if the agent is active
\* and nothing otherwise, whatever raised, was rebalanced or reloaded before.
THEOREM PauseSafety == Spec => []PausedMatchesActive
<1>1. TypeInv /\ PausedInv /\ [Next]_vars => TypeInv' /\ PausedInv'
  BY TypeStep, PauseStep
<1>2. PausedInv => PausedMatchesActive
  BY DEF PausedInv, Started, FollowsActive, PausedMatchesActive
<1>3. QED
  BY <1>1, <1>2, TypeInit, PauseInit, PTL DEF Spec

-----------------------------------------------------------------------------
(* The card on the topic is the confirmed one *)

\* While _sync_card waits for its delivery, the wanted card is the last one
\* under way or, when none is, on the topic, unless a delivery failed.
CardInv ==
  /\ cardConfirmed /\ Started => card = WantedCard /\ cardq = <<>>
  /\ pc = "flush" => IF cardq = <<>> THEN card = WantedCard \/ errors # {}
                                     ELSE cardq[Len(cardq)] = WantedCard

LEMMA CardDelivered ==
  ASSUME TypeInv, CardInv, DeliverCard \/ FailCard, UNCHANGED <<pc, cardConfirmed, active, settings>>
  PROVE  CardInv'
<1>1. /\ cardq # <<>> /\ cardq' = Tail(cardq) /\ cardq \in Seq(CardValue)
      /\ card' = Head(cardq) \/ errors' # {}
  BY DEF DeliverCard, FailCard, TypeInv, TypeOK, BusTypeOK
<1>2. ~(cardConfirmed /\ Started)
  BY <1>1 DEF CardInv
<1>3. WantedCard' = WantedCard
  BY DEF WantedCard
<1>4. /\ Len(cardq) \in Nat /\ Len(cardq) > 0
      /\ Len(cardq') = Len(cardq) - 1 /\ cardq' \in Seq(CardValue)
      /\ \A i \in 1 .. Len(cardq) - 1 : cardq'[i] = cardq[i + 1]
      /\ Head(cardq) = cardq[1]
  BY <1>1
<1>5. ASSUME pc' = "flush"
      PROVE  IF cardq' = <<>> THEN card' = WantedCard \/ errors' # {}
                              ELSE cardq'[Len(cardq')] = WantedCard
  <2>1. cardq[Len(cardq)] = WantedCard
    BY <1>1, <1>5 DEF CardInv
  <2>2. CASE cardq' = <<>>
    <3>1. Len(cardq) = 1
      BY <1>4, <2>2
    <3>2. QED
      BY <1>1, <1>4, <2>1, <2>2, <3>1
  <2>3. CASE cardq' # <<>>
    <3>1. Len(cardq') \in 1 .. Len(cardq) - 1 /\ Len(cardq') + 1 = Len(cardq)
      BY <1>4, <2>3
    <3>2. cardq'[Len(cardq')] = cardq[Len(cardq)]
      BY <1>4, <3>1
    <3>3. QED
      BY <2>1, <2>3, <3>2
  <2>4. QED
    BY <2>2, <2>3
<1>6. ~(cardConfirmed' /\ Started')
  BY <1>2 DEF Started
<1>7. QED
  BY <1>3, <1>5, <1>6 DEF CardInv

LEMMA CardStep ==
  ASSUME TypeInv, CardInv, [Next]_vars
  PROVE  CardInv'
<1> USE DEF brokerVars, producerVars, consumerVars, configVars
<1>1. ASSUME ~Started', pc' # "flush" PROVE CardInv'
  BY <1>1 DEF CardInv
<1>2. ASSUME pc' # "flush", cardConfirmed' => cardConfirmed /\ Started,
             WantedCard' = WantedCard, UNCHANGED <<card, cardq>>
      PROVE  CardInv'
  BY <1>2 DEF CardInv
<1>3. ASSUME UNCHANGED <<active, settings>> PROVE WantedCard' = WantedCard
  BY <1>3 DEF WantedCard
<1>4. CASE Boot \/ Start \/ StartRefused \/ Crash \/ StartRaises \/ ReloadWithCard
  <2>1. ~Started' /\ pc' # "flush"
    BY <1>4 DEF Boot, Start, StartRefused, Crash, StartRaises, ProcessEnds, ReloadWithCard, Started
  <2>2. QED
    BY <1>1, <2>1
<1>5. CASE StepBegin \/ PollReturns \/ ReloadKeeps \/ Handle \/ CommitUndelivered \/ CommitSucceeds
           \/ CommitFails \/ Rebalance \/ \E p \in Partitions : Fetch(p)
  <2>1. pc' # "flush" /\ Started /\ UNCHANGED <<active, settings, card, cardq, cardConfirmed>>
    BY <1>5, StartedReload DEF StepBegin, PollReturns, ReloadKeeps, Handle, CommitUndelivered,
         CommitSucceeds, CommitFails, Rebalance, Fetch, Started, busVars, runtimeVars, loopVars
  <2>2. QED
    BY <1>2, <1>3, <2>1
<1>6. CASE ReloadWithoutCard
  <2>1. /\ pc' # "flush" /\ Started /\ UNCHANGED <<card, cardq, cardConfirmed>>
        /\ active' = active /\ (active => settings' = settings)
    BY <1>6, StartedReload DEF ReloadWithoutCard, Accept, Started
  <2>2. WantedCard' = WantedCard
    BY <2>1 DEF WantedCard
  <2>3. QED
    BY <1>2, <2>1, <2>2
<1>7. CASE SyncProduce
  <2>1. /\ pc' = "flush" /\ cardq' = Append(cardq, WantedCard) /\ UNCHANGED <<active, settings>>
    BY <1>7 DEF SyncProduce, ProduceCard
  <2>2. cardq \in Seq(CardValue) /\ WantedCard \in CardValue
    BY DEF TypeInv, TypeOK, BusTypeOK, WantedCard, CardValue
  <2>3. cardq' # <<>> /\ cardq'[Len(cardq')] = WantedCard
    BY <2>1, <2>2
  <2>4. QED
    BY <1>3, <2>1, <2>3 DEF CardInv, Started
<1>8. CASE SyncFlush
  <2>1. /\ pc = "flush" /\ pc' # "flush" /\ UNCHANGED <<active, settings, card, cardq>>
        /\ \/ Delivered
           \/ cardConfirmed' = FALSE
    BY <1>8, StartedReload DEF SyncFlush, Return
  <2>2. Delivered => card = WantedCard /\ cardq = <<>>
    BY <2>1 DEF CardInv, Delivered
  <2>3. QED
    BY <1>3, <2>1, <2>2 DEF CardInv
<1>9. CASE SyncRaises
  <2>1. cardConfirmed' = FALSE /\ pc' # "flush"
    BY <1>9 DEF SyncRaises
  <2>2. QED
    BY <2>1 DEF CardInv
<1>10. CASE Broker
  <2>1. UNCHANGED <<pc, cardConfirmed, active, settings>> /\ BrokerNext
    BY <1>10 DEF Broker, runtimeVars, loopVars
  <2>2. CASE DeliverCard \/ FailCard
    BY <2>1, <2>2, CardDelivered
  <2>3. CASE ~(DeliverCard \/ FailCard)
    <3>1. UNCHANGED <<card, cardq>> /\ (errors # {} => errors' # {})
      BY <2>1, <2>3 DEF BrokerNext, Produce, PeerCommits, Persist, Acknowledge, FailDelivery, LoseGroup
    <3>2. QED
      BY <1>3, <2>1, <3>1 DEF CardInv, Started
  <2>4. QED
    BY <2>2, <2>3
<1>11. CASE OperatorEdits \/ UNCHANGED vars
  <2>1. UNCHANGED <<pc, cardConfirmed, active, settings, card, cardq, errors>>
    BY <1>11 DEF OperatorEdits, vars, busVars, runtimeVars, loopVars
  <2>2. QED
    BY <1>3, <2>1 DEF CardInv, Started
<1>12. QED
  BY <1>4, <1>5, <1>6, <1>7, <1>8, <1>9, <1>10, <1>11 DEF Next, Process, Consumer

LEMMA CardInit == Init => CardInv
  BY DEF Init, CardInv, Started

\* A confirmed card is the one on the topic, with no older write under way,
\* even after failed deliveries, retries and reloads.
THEOREM CardSafety == Spec => []ConfirmedCardIsOnTopic
<1>1. TypeInv /\ CardInv /\ [Next]_vars => TypeInv' /\ CardInv'
  BY TypeStep, CardStep
<1>2. CardInv => ConfirmedCardIsOnTopic
  BY DEF CardInv, Started, ConfirmedCardIsOnTopic
<1>3. QED
  BY <1>1, <1>2, TypeInit, CardInit, PTL DEF Spec
=============================================================================
