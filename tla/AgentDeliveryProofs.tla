------------------------ MODULE AgentDeliveryProofs -------------------------
(***************************************************************************)
(* The delivery guarantee of AgentRuntime: NoSkippedOutput and             *)
(* CommittedNeverRegresses, from the inductive invariant DeliveryInv.      *)
(*                                                                         *)
(* The steps fall into five groups, one lemma each: those that leave       *)
(* positions, commits and the batch alone (Quiet), the end of the process, *)
(* those that rewind the batch, those that move a commit, and those that   *)
(* move the consumer (rebalance, fetch) or the log.                        *)
(*                                                                         *)
(* Two more results build on it: when FailedInputNotPassed does hold, and  *)
(* NoNeedlessReprocessing without faults.                                  *)
(* The end shows that the runtime implements AtLeastOnce.                  *)
(***************************************************************************)
EXTENDS AgentRuntimeProofs

IInv == TypeOK /\ DeliveryInv

LEMMA IInvTypeInv == IInv => TypeInv
  BY DEF IInv, DeliveryInv, TypeInv

-----------------------------------------------------------------------------
(* Facts about single records *)

\* Runs of handlers and persisted outputs only accumulate, so a record once
\* handled to completion stays so.
LEMMA CompleteStays ==
  ASSUME attempts \subseteq attempts', outputs \subseteq outputs',
         NEW r, Complete(r)
  PROVE  Complete(r)'
  BY DEF Complete

\* The head of the batch, once the flush has delivered everything, is complete.
LEMMA HeadComplete ==
  ASSUME IInv, pc = "commit", Delivered
  PROVE  Complete(Head(batch))
  BY DEF IInv, DeliveryInv, OutputsAccountedFor, Delivered, Complete

LEMMA HeadFirst ==
  ASSUME IInv, batch # <<>>
  PROVE  /\ Head(batch) \in Inbound
         /\ 1 \in DOMAIN batch /\ Head(batch) = batch[1]
         /\ Head(batch).offset < position[Head(batch).partition]
         /\ \A i \in DOMAIN batch : i # 1 /\ batch[i].partition = Head(batch).partition =>
              Head(batch).offset < batch[i].offset
<1>1. Head(batch) \in Inbound /\ 1 \in DOMAIN batch /\ Head(batch) = batch[1]
  BY DEF IInv, TypeOK
<1>2. Head(batch).offset < position[Head(batch).partition]
  BY <1>1 DEF IInv, DeliveryInv, WithinLog
<1>3. ASSUME NEW i \in DOMAIN batch, i # 1, batch[i].partition = Head(batch).partition
      PROVE  Head(batch).offset < batch[i].offset
  <2>1. 1 < i
    BY <1>3 DEF IInv, TypeOK
  <2>2. QED
    BY <1>1, <1>3, <2>1 DEF IInv, DeliveryInv, BatchInOrder
<1>4. QED
  BY <1>1, <1>2, <1>3

\* Below the first record of a batch, an owner has handled everything.
LEMMA BelowFirstComplete ==
  ASSUME IInv, NEW i \in DOMAIN batch, batch[i].partition \in owned,
         \A h \in 1 .. i - 1 : batch[h].partition # batch[i].partition,
         NEW k \in low[batch[i].partition] .. batch[i].offset - 1,
         Decodable([partition |-> batch[i].partition, offset |-> k])
  PROVE  Complete([partition |-> batch[i].partition, offset |-> k])
<1> DEFINE p == batch[i].partition
<1> DEFINE r == [partition |-> p, offset |-> k]
<1>1. batch[i] \in Inbound /\ p \in Partitions /\ batch[i].offset \in Nat /\ i \in Nat
  <2>1. batch \in Seq(Inbound)
    BY DEF IInv, TypeOK
  <2>2. batch[i] \in Inbound /\ i \in Nat
    BY <2>1
  <2>3. QED
    BY <2>2, BusAssumption DEF Inbound, Offsets
<1>2. position[p] \in Nat /\ low[p] \in Nat /\ batch[i].offset < position[p]
  BY <1>1, BusAssumption DEF IInv, TypeOK, BusTypeOK, DeliveryInv, WithinLog
<1>3. k \in low[p] .. position[p] - 1
  BY <1>1, <1>2
<1>4. Complete(r) \/ \E j \in DOMAIN batch : batch[j] = r
  BY <1>3 DEF IInv, DeliveryInv, NothingDropped
<1>5. ASSUME NEW j \in DOMAIN batch, batch[j] = r
      PROVE  FALSE
  <2>1. batch[j].partition = p /\ batch[j].offset = k /\ j \in Nat /\ k < batch[i].offset
    BY <1>1, <1>2, <1>5 DEF IInv, TypeOK
  <2>2. ~(j < i)
    BY <1>1, <2>1 DEF IInv, TypeOK
  <2>3. j # i
    BY <1>1, <1>2, <2>1
  <2>4. batch[i].offset < batch[j].offset
    BY <1>1, <2>1, <2>2, <2>3 DEF IInv, DeliveryInv, BatchInOrder
  <2>5. QED
    BY <1>1, <1>2, <2>1, <2>4
<1>6. QED
  BY <1>4, <1>5

-----------------------------------------------------------------------------
(* Groups of steps *)

LEMMA QuietStep ==
  ASSUME IInv, TypeInv', OutputsAccountedFor',
         UNCHANGED <<log, committed, position, low, batch>>,
         owned' \subseteq owned, attempts \subseteq attempts', outputs \subseteq outputs'
  PROVE  DeliveryInv'
<1> USE DEF IInv, DeliveryInv
<1>1. WithinLog' /\ BatchInOrder'
  BY DEF WithinLog, BatchInOrder
<1>2. AtMostOneBehind'
  BY DEF AtMostOneBehind
<1>3. NothingDropped'
  BY CompleteStays DEF NothingDropped, Decodable
<1>4. NoSkippedOutput'
  BY CompleteStays DEF NoSkippedOutput, Decodable
<1>5. QED
  BY <1>1, <1>2, <1>3, <1>4 DEF TypeInv

LEMMA EndStep ==
  ASSUME IInv, TypeInv', pc' # "commit", batch' = <<>>, owned' = {},
         UNCHANGED <<log, committed, position, low, attempts, outputs>>
  PROVE  DeliveryInv'
<1>1. WithinLog' /\ BatchInOrder'
  BY DEF WithinLog, BatchInOrder, IInv, DeliveryInv
<1>2. AtMostOneBehind' /\ NothingDropped' /\ OutputsAccountedFor'
  BY DEF AtMostOneBehind, NothingDropped, OutputsAccountedFor
<1>3. NoSkippedOutput'
  BY CompleteStays DEF NoSkippedOutput, Decodable, IInv, DeliveryInv
<1>4. QED
  BY <1>1, <1>2, <1>3 DEF DeliveryInv, TypeInv

\* Where a rewind leaves the consumer: an owned partition of the batch at its
\* first record, no partition further than it was.
LEMMA RewindPosition ==
  ASSUME IInv, Rewind, NEW p \in Partitions
  PROVE  /\ position'[p] <= position[p]
         /\ p \notin PartitionsOf(batch) => position'[p] = position[p]
         /\ p \in owned /\ p \in PartitionsOf(batch) =>
              \E i \in DOMAIN batch : /\ batch[i].partition = p
                                     /\ position'[p] = batch[i].offset
                                     /\ \A h \in 1 .. i - 1 : batch[h].partition # p
<1>1. PICK lost \in SUBSET (assigned \ owned) :
        position' = [q \in Partitions |->
                       IF q \in PartitionsOf(batch) \ lost THEN FirstOffset(batch, q)
                                                           ELSE position[q]]
  BY DEF Rewind
<1>2. position[p] \in Nat
  BY BusAssumption DEF IInv, TypeOK, BusTypeOK
<1>3. CASE p \in PartitionsOf(batch)
  <2>1. PICK i \in DOMAIN batch : /\ batch[i].partition = p
                                 /\ batch[i].offset = FirstOffset(batch, p)
                                 /\ \A h \in 1 .. i - 1 : batch[h].partition # p
    BY <1>3, FirstOffsetType DEF IInv, TypeOK
  <2>2. batch[i].offset < position[p]
    BY <2>1 DEF IInv, DeliveryInv, WithinLog
  <2>3. batch[i].offset \in Nat
    BY <1>3, <2>1, FirstOffsetType, BusAssumption DEF IInv, TypeOK
  <2>4. QED
    BY <1>1, <1>2, <1>3, <2>1, <2>2, <2>3
<1>4. CASE p \notin PartitionsOf(batch)
  BY <1>1, <1>2, <1>4
<1>5. QED
  BY <1>3, <1>4

\* The commit of the head of the batch: nothing below it is left unhandled, and
\* no offset goes back.
CommitsHead ==
  /\ pc = "commit" /\ Delivered
  /\ Head(batch).partition \in owned
  /\ CommitOffset(Head(batch))

LEMMA CommitStep ==
  ASSUME IInv, CommitsHead, UNCHANGED <<log, low, attempts, outputs>>
  PROVE  /\ NoSkippedOutput'
         /\ committed' = [committed EXCEPT ![Head(batch).partition] = Head(batch).offset + 1]
         /\ Head(batch).offset + 1 <= position[Head(batch).partition]
         /\ \A p \in Partitions : committed[p] # None =>
              committed'[p] # None /\ committed'[p] >= committed[p]
<1> DEFINE h == Head(batch)
<1>1. batch # <<>>
  BY DEF CommitsHead, IInv, DeliveryInv, LoopOK
<1>2. /\ h \in Inbound /\ 1 \in DOMAIN batch /\ h = batch[1]
      /\ h.offset < position[h.partition]
  BY <1>1, HeadFirst
<1>3. h.partition \in Partitions /\ h.offset \in Nat /\ position[h.partition] \in Nat
  BY <1>2, BusAssumption DEF Inbound, Offsets, IInv, TypeOK, BusTypeOK
<1>4. committed' = [committed EXCEPT ![h.partition] = h.offset + 1]
  BY DEF CommitsHead, CommitOffset
<1>5. Complete(h)
  BY HeadComplete DEF CommitsHead
<1>6. ASSUME NEW p \in Partitions, committed[p] # None
      PROVE  committed'[p] # None /\ committed'[p] >= committed[p]
  <2>1. committed[p] \in Nat
    BY <1>6 DEF IInv, TypeOK, BusTypeOK
  <2>2. CASE p = h.partition
    <3>1. committed[p] <= h.offset + 1
      BY <1>2, <1>6, <2>2 DEF IInv, DeliveryInv, AtMostOneBehind, CommitsHead
    <3>2. committed'[p] = h.offset + 1
      BY <1>3, <1>4, <2>2 DEF IInv, TypeOK, BusTypeOK
    <3>3. QED
      BY <1>3, <2>1, <3>1, <3>2, BusAssumption
  <2>3. CASE p # h.partition
    BY <1>4, <1>6, <2>1, <2>3 DEF IInv, TypeOK, BusTypeOK
  <2>4. QED
    BY <2>2, <2>3
<1>7. NoSkippedOutput'
  <2>1. SUFFICES ASSUME NEW p \in Partitions, committed'[p] # None,
                        NEW k \in low[p] .. committed'[p] - 1,
                        Decodable([partition |-> p, offset |-> k])
                 PROVE  Complete([partition |-> p, offset |-> k])
    BY DEF NoSkippedOutput, Decodable, Complete
  <2>2. CASE p # h.partition
    <3>1. committed'[p] = committed[p]
      BY <1>4, <2>2 DEF IInv, TypeOK, BusTypeOK
    <3>2. QED
      BY <2>1, <3>1 DEF IInv, DeliveryInv, NoSkippedOutput
  <2>3. CASE p = h.partition
    <3>1. committed'[p] = h.offset + 1 /\ low[p] \in Nat
      BY <1>3, <1>4, <2>3, BusAssumption DEF IInv, TypeOK, BusTypeOK
    <3>2. CASE k = h.offset
      <4>1. [partition |-> p, offset |-> k] = h
        BY <1>2, <2>3, <3>2 DEF Inbound
      <4>2. QED
        BY <1>5, <4>1
    <3>3. CASE k # h.offset
      <4>1. k \in low[p] .. h.offset - 1
        BY <1>3, <2>1, <3>1, <3>3
      <4>2. batch[1].partition = p /\ batch[1].offset = h.offset /\ p \in owned
        BY <1>2, <2>3 DEF CommitsHead
      <4>3. \A j \in 1 .. 1 - 1 : batch[j].partition # batch[1].partition
        OBVIOUS
      <4>4. QED
        BY <1>2, <2>1, <4>1, <4>2, <4>3, BelowFirstComplete
    <3>4. QED
      BY <3>2, <3>3
  <2>4. QED
    BY <2>2, <2>3
<1>8. QED
  BY <1>2, <1>3, <1>4, <1>6, <1>7

\* A rewind, alone or after a commit whose answer was lost.
LEMMA RewindStep ==
  ASSUME IInv, TypeInv', Rewind, pc' # "commit",
         UNCHANGED <<log, low, attempts, outputs, owned>>,
         UNCHANGED committed \/ CommitsHead
  PROVE  DeliveryInv'
<1> DEFINE h == Head(batch)
<1>1. batch' = <<>>
  BY DEF Rewind
<1>2. BatchInOrder' /\ OutputsAccountedFor'
  BY <1>1 DEF BatchInOrder, OutputsAccountedFor
<1>3. NoSkippedOutput'
  BY CommitStep, CompleteStays DEF NoSkippedOutput, Decodable, Complete, IInv, DeliveryInv
<1>4. WithinLog'
  <2>1. ASSUME NEW p \in Partitions
        PROVE  position'[p] <= Len(log[p])
    <3>1. /\ position'[p] <= position[p] /\ position[p] <= Len(log[p])
          /\ position[p] \in Nat /\ position'[p] \in Nat /\ Len(log[p]) \in Nat
      BY RewindPosition, BusAssumption, SMTT(30)
         DEF IInv, DeliveryInv, WithinLog, TypeInv, TypeOK, BusTypeOK
    <3>2. QED
      BY <3>1
  <2>2. ASSUME NEW p \in Partitions, committed'[p] # None
        PROVE  committed'[p] <= Len(log[p])
    <3>1. CASE UNCHANGED committed
      BY <2>2, <3>1 DEF IInv, DeliveryInv, WithinLog
    <3>2. CASE CommitsHead /\ p = h.partition
      <4>1. committed'[p] <= position[p]
        BY <3>2, CommitStep DEF IInv, TypeOK, BusTypeOK
      <4>2. position[p] <= Len(log[p]) /\ position[p] \in Nat /\ Len(log[p]) \in Nat
        BY BusAssumption DEF IInv, DeliveryInv, WithinLog, TypeOK, BusTypeOK
      <4>3. committed'[p] \in Nat
        BY <2>2 DEF TypeInv, TypeOK, BusTypeOK
      <4>4. QED
        BY <4>1, <4>2, <4>3
    <3>3. CASE CommitsHead /\ p # h.partition
      BY <2>2, <3>3, CommitStep DEF IInv, DeliveryInv, WithinLog, TypeOK, BusTypeOK
    <3>4. QED
      BY <3>1, <3>2, <3>3
  <2>3. QED
    BY <1>1, <2>1, <2>2 DEF WithinLog
<1>5. NothingDropped'
  <2>1. SUFFICES ASSUME NEW p \in owned, NEW k \in low[p] .. position'[p] - 1,
                        Decodable([partition |-> p, offset |-> k])
                 PROVE  Complete([partition |-> p, offset |-> k])
    BY DEF NothingDropped, Decodable, Complete
  <2>2. p \in Partitions
    BY DEF IInv, TypeOK, BusTypeOK
  <2>3. CASE p \in PartitionsOf(batch)
    <3>1. PICK i \in DOMAIN batch : /\ batch[i].partition = p
                                   /\ position'[p] = batch[i].offset
                                   /\ \A g \in 1 .. i - 1 : batch[g].partition # p
      BY <2>2, <2>3, RewindPosition
    <3>2. QED
      BY <2>1, <3>1, BelowFirstComplete
  <2>4. CASE p \notin PartitionsOf(batch)
    <3>1. k \in low[p] .. position[p] - 1
      BY <2>1, <2>2, <2>4, RewindPosition
    <3>2. ~\E i \in DOMAIN batch : batch[i] = [partition |-> p, offset |-> k]
      BY <2>4 DEF PartitionsOf
    <3>3. QED
      BY <2>1, <3>1, <3>2 DEF IInv, DeliveryInv, NothingDropped
  <2>5. QED
    BY <2>3, <2>4
<1>6. AtMostOneBehind'
  <2>1. SUFFICES ASSUME NEW p \in owned, committed'[p] # None
                 PROVE  committed'[p] <= position'[p] + 1
    BY <1>1 DEF AtMostOneBehind
  <2>2. p \in Partitions
    BY DEF IInv, TypeOK, BusTypeOK
  <2>3. CASE p \in PartitionsOf(batch)
    <3>1. PICK i \in DOMAIN batch : /\ batch[i].partition = p
                                   /\ position'[p] = batch[i].offset
                                   /\ \A g \in 1 .. i - 1 : batch[g].partition # p
      BY <2>2, <2>3, RewindPosition
    <3>2. CASE committed'[p] = committed[p]
      BY <2>1, <3>1, <3>2 DEF IInv, DeliveryInv, AtMostOneBehind
    <3>3. CASE CommitsHead /\ p = h.partition
      <4>1. batch # <<>> /\ 1 \in DOMAIN batch /\ h = batch[1] /\ h.offset \in Nat
        BY <3>3, HeadFirst, BusAssumption DEF CommitsHead, IInv, DeliveryInv, LoopOK, Inbound, Offsets
      <4>2. i = 1
        BY <3>1, <3>3, <4>1 DEF IInv, TypeOK
      <4>3. committed'[p] = h.offset + 1
        BY <2>2, <3>3, CommitStep DEF IInv, TypeOK, BusTypeOK
      <4>4. QED
        BY <3>1, <4>1, <4>2, <4>3
    <3>4. CASE CommitsHead /\ p # h.partition
      <4>1. committed'[p] = committed[p]
        BY <2>2, <3>4, CommitStep DEF IInv, TypeOK, BusTypeOK
      <4>2. QED
        BY <3>2, <4>1
    <3>5. QED
      BY <3>2, <3>3, <3>4
  <2>4. CASE p \notin PartitionsOf(batch)
    <3>1. position'[p] = position[p]
      BY <2>2, <2>4, RewindPosition
    <3>2. committed'[p] = committed[p]
      <4>1. CASE CommitsHead
        <5>1. h.partition \in PartitionsOf(batch)
          BY <4>1, HeadFirst DEF CommitsHead, IInv, DeliveryInv, LoopOK, PartitionsOf
        <5>2. QED
          BY <2>2, <2>4, <4>1, <5>1, CommitStep DEF IInv, TypeOK, BusTypeOK
      <4>2. QED
        BY <4>1
    <3>3. QED
      BY <2>1, <3>1, <3>2 DEF IInv, DeliveryInv, AtMostOneBehind
  <2>5. QED
    BY <2>3, <2>4
<1>7. QED
  BY <1>2, <1>3, <1>4, <1>5, <1>6 DEF DeliveryInv, TypeInv

LEMMA CommitSucceedsStep ==
  ASSUME IInv, TypeInv', CommitsHead, pc' # "commit", batch' = Tail(batch),
         UNCHANGED <<log, low, position, owned, attempts, outputs>>
  PROVE  DeliveryInv'
<1> DEFINE h == Head(batch)
<1>1. batch # <<>>
  BY DEF CommitsHead, IInv, DeliveryInv, LoopOK
<1>2. /\ h \in Inbound /\ h = batch[1]
      /\ h.offset < position[h.partition]
      /\ \A i \in DOMAIN batch : i # 1 /\ batch[i].partition = h.partition =>
           h.offset < batch[i].offset
  BY <1>1, HeadFirst
<1>3. h.partition \in Partitions /\ h.offset \in Nat
  BY <1>2, BusAssumption DEF Inbound, Offsets
<1>4. /\ committed' = [committed EXCEPT ![h.partition] = h.offset + 1]
      /\ h.offset + 1 <= position[h.partition]
  BY CommitStep
<1>5. \A j \in DOMAIN batch' : /\ j \in Nat
                               /\ j + 1 \in DOMAIN batch
                               /\ batch'[j] = batch[j + 1]
  BY <1>1 DEF IInv, TypeOK
<1>6. \A i \in DOMAIN batch : i # 1 =>
        i \in Nat /\ i - 1 \in DOMAIN batch' /\ batch'[i - 1] = batch[i]
  BY <1>1 DEF IInv, TypeOK
<1>7. WithinLog'
  <2>1. ASSUME NEW p \in Partitions, committed'[p] # None
        PROVE  committed'[p] <= Len(log[p])
    <3>1. CASE p = h.partition
      <4>1. committed'[p] = h.offset + 1
        BY <1>4, <3>1 DEF IInv, TypeOK, BusTypeOK
      <4>2. position[p] <= Len(log[p]) /\ position[p] \in Nat /\ Len(log[p]) \in Nat
        BY BusAssumption DEF IInv, DeliveryInv, WithinLog, TypeOK, BusTypeOK
      <4>3. QED
        BY <1>3, <1>4, <3>1, <4>1, <4>2
    <3>2. CASE p # h.partition
      BY <1>4, <2>1, <3>2 DEF IInv, DeliveryInv, WithinLog, TypeOK, BusTypeOK
    <3>3. QED
      BY <3>1, <3>2
  <2>2. \A j \in DOMAIN batch' : batch'[j].offset < position[batch'[j].partition]
    BY <1>5 DEF IInv, DeliveryInv, WithinLog
  <2>3. QED
    BY <2>1, <2>2 DEF WithinLog, IInv, DeliveryInv
<1>8. BatchInOrder'
  <2>1. SUFFICES ASSUME NEW i \in DOMAIN batch', NEW j \in DOMAIN batch', i < j,
                        batch'[i].partition = batch'[j].partition
                 PROVE  batch'[i].offset < batch'[j].offset
    BY DEF BatchInOrder
  <2>2. i + 1 < j + 1
    BY <1>5, <2>1
  <2>3. batch[i + 1].partition = batch[j + 1].partition
    BY <1>5, <2>1
  <2>4. batch[i + 1].offset < batch[j + 1].offset
    BY <1>5, <2>2, <2>3 DEF IInv, DeliveryInv, BatchInOrder
  <2>5. QED
    BY <1>5, <2>4
<1>9. NothingDropped'
  <2>1. SUFFICES ASSUME NEW p \in owned, NEW k \in low[p] .. position[p] - 1,
                        Decodable([partition |-> p, offset |-> k])
                 PROVE  \/ Complete([partition |-> p, offset |-> k])
                        \/ \E j \in DOMAIN batch' : batch'[j] = [partition |-> p, offset |-> k]
    BY DEF NothingDropped, Decodable, Complete
  <2>2. CASE Complete([partition |-> p, offset |-> k])
    BY <2>2
  <2>3. CASE \E i \in DOMAIN batch : batch[i] = [partition |-> p, offset |-> k]
    <3>1. PICK i \in DOMAIN batch : batch[i] = [partition |-> p, offset |-> k]
      BY <2>3
    <3>2. CASE i = 1
      <4>1. Complete(h)
        BY HeadComplete DEF CommitsHead
      <4>2. QED
        BY <1>2, <3>1, <3>2, <4>1
    <3>3. CASE i # 1
      BY <1>6, <3>1, <3>3
    <3>4. QED
      BY <3>2, <3>3
  <2>4. QED
    BY <2>1, <2>2, <2>3 DEF IInv, DeliveryInv, NothingDropped
<1>10. AtMostOneBehind'
  <2>1. SUFFICES ASSUME NEW p \in owned, committed'[p] # None
                 PROVE  /\ committed'[p] <= position[p] + 1
                        /\ \A j \in DOMAIN batch' :
                             batch'[j].partition = p => committed'[p] <= batch'[j].offset + 1
    BY DEF AtMostOneBehind
  <2>2. p \in Partitions /\ position[p] \in Nat
    BY BusAssumption DEF IInv, TypeOK, BusTypeOK
  <2>3. CASE p = h.partition
    <3>1. committed'[p] = h.offset + 1
      BY <1>4, <2>2, <2>3 DEF IInv, TypeOK, BusTypeOK
    <3>2. ASSUME NEW j \in DOMAIN batch', batch'[j].partition = p
          PROVE  committed'[p] <= batch'[j].offset + 1
      <4>1. j + 1 \in DOMAIN batch /\ j + 1 # 1 /\ batch'[j] = batch[j + 1]
        BY <1>5
      <4>2. h.offset < batch[j + 1].offset
        BY <1>2, <2>3, <3>2, <4>1
      <4>3. batch[j + 1].offset \in Nat
        <5>1. batch \in Seq(Inbound)
          BY DEF IInv, TypeOK
        <5>2. batch[j + 1] \in Inbound
          BY <4>1, <5>1
        <5>3. QED
          BY <5>2, BusAssumption DEF Inbound, Offsets
      <4>4. QED
        BY <1>3, <3>1, <4>1, <4>2, <4>3
    <3>3. QED
      BY <1>3, <1>4, <2>2, <2>3, <3>1, <3>2
  <2>4. CASE p # h.partition
    <3>1. committed'[p] = committed[p]
      BY <1>4, <2>2, <2>4 DEF IInv, TypeOK, BusTypeOK
    <3>2. QED
      BY <1>5, <2>1, <3>1 DEF IInv, DeliveryInv, AtMostOneBehind
  <2>5. QED
    BY <2>3, <2>4
<1>11. QED
  BY <1>7, <1>8, <1>9, <1>10, CommitStep DEF DeliveryInv, TypeInv, OutputsAccountedFor

LEMMA FetchStep ==
  ASSUME IInv, TypeInv', NEW p \in Partitions, Fetch(p)
  PROVE  DeliveryInv'
<1> DEFINE r == NextRecord(p)
<1> DEFINE more == Decodable(r)
<1>1. /\ position[p] \in Nat /\ Len(log[p]) \in Nat /\ position[p] < Len(log[p])
      /\ position' = [position EXCEPT ![p] = @ + 1]
      /\ \A q \in Partitions : position[q] \in Nat
      /\ DOMAIN position = Partitions
  BY BusAssumption DEF Fetch, Fetchable, IInv, TypeOK, BusTypeOK
<1>2. /\ UNCHANGED <<log, committed, low, owned, attempts, outputs>>
      /\ pc' # "commit"
      /\ batch' = IF more THEN Append(batch, r) ELSE batch
  BY DEF Fetch, brokerVars
<1>3. r.partition = p /\ r.offset = position[p]
  BY DEF NextRecord
<1>4. batch \in Seq(Inbound) /\ Len(batch) \in Nat /\ DOMAIN batch = 1 .. Len(batch)
  BY DEF IInv, TypeOK
<1>5. \A i \in DOMAIN batch : i \in DOMAIN batch' /\ batch'[i] = batch[i]
  BY <1>2, <1>4
<1>6. \A i \in DOMAIN batch' : i \notin DOMAIN batch =>
        more /\ i = Len(batch) + 1 /\ batch'[i] = r
  BY <1>2, <1>4
<1>7. more => Len(batch) + 1 \in DOMAIN batch' /\ batch'[Len(batch) + 1] = r
  BY <1>2, <1>4
<1>8. \A i \in DOMAIN batch : /\ batch[i].partition \in Partitions
                              /\ batch[i].offset \in Nat
                              /\ batch[i].offset < position[batch[i].partition]
  <2>1. \A i \in DOMAIN batch : batch[i] \in Inbound
    BY <1>4
  <2>2. QED
    BY <2>1, BusAssumption DEF Inbound, Offsets, IInv, DeliveryInv, WithinLog
<1>9. \A q \in Partitions : position'[q] = IF q = p THEN position[q] + 1 ELSE position[q]
  BY <1>1
<1>10. WithinLog'
  <2>1. \A q \in Partitions : position'[q] <= Len(log[q])
    BY <1>1, <1>9 DEF IInv, DeliveryInv, WithinLog
  <2>2. \A i \in DOMAIN batch' : batch'[i].offset < position'[batch'[i].partition]
    <3>1. ASSUME NEW i \in DOMAIN batch', i \in DOMAIN batch
          PROVE  batch'[i].offset < position'[batch'[i].partition]
      BY <1>1, <1>5, <1>8, <1>9, <3>1
    <3>2. ASSUME NEW i \in DOMAIN batch', i \notin DOMAIN batch
          PROVE  batch'[i].offset < position'[batch'[i].partition]
      BY <1>1, <1>3, <1>6, <1>9, <3>2
    <3>3. QED
      BY <3>1, <3>2
  <2>3. QED
    BY <1>2, <2>1, <2>2 DEF WithinLog, IInv, DeliveryInv
<1>11. BatchInOrder'
  <2>1. SUFFICES ASSUME NEW i \in DOMAIN batch', NEW j \in DOMAIN batch', i < j,
                        batch'[i].partition = batch'[j].partition
                 PROVE  batch'[i].offset < batch'[j].offset
    BY DEF BatchInOrder
  <2>2. i \in DOMAIN batch
    BY <1>4, <1>5, <1>6, <1>2, <2>1
  <2>3. CASE j \in DOMAIN batch
    BY <1>5, <2>1, <2>2, <2>3 DEF IInv, DeliveryInv, BatchInOrder
  <2>4. CASE j \notin DOMAIN batch
    BY <1>3, <1>5, <1>6, <1>8, <2>1, <2>2, <2>4
  <2>5. QED
    BY <2>3, <2>4
<1>12. NothingDropped'
  <2>1. SUFFICES ASSUME NEW q \in owned, NEW k \in low[q] .. position'[q] - 1,
                        Decodable([partition |-> q, offset |-> k])
                 PROVE  \/ Complete([partition |-> q, offset |-> k])
                        \/ \E i \in DOMAIN batch' : batch'[i] = [partition |-> q, offset |-> k]
    BY <1>2, ZenonT(60) DEF NothingDropped, Decodable, Complete
  <2>2. q \in Partitions /\ low[q] \in Nat
    BY BusAssumption DEF IInv, TypeOK, BusTypeOK
  <2>3. CASE q = p /\ k = position[p]
    <3>1. [partition |-> q, offset |-> k] = r
      BY <2>3 DEF NextRecord
    <3>2. QED
      BY <1>7, <2>1, <3>1
  <2>4. CASE ~(q = p /\ k = position[p])
    <3>1. k \in low[q] .. position[q] - 1
      BY <1>1, <1>9, <2>1, <2>2, <2>4
    <3>2. \/ Complete([partition |-> q, offset |-> k])
          \/ \E i \in DOMAIN batch : batch[i] = [partition |-> q, offset |-> k]
      BY <2>1, <3>1 DEF IInv, DeliveryInv, NothingDropped
    <3>3. QED
      BY <1>5, <3>2
  <2>5. QED
    BY <2>3, <2>4
<1>13. AtMostOneBehind'
  <2>1. SUFFICES ASSUME NEW q \in owned, committed[q] # None
                 PROVE  /\ committed[q] <= position'[q] + 1
                        /\ \A i \in DOMAIN batch' :
                             batch'[i].partition = q => committed[q] <= batch'[i].offset + 1
    BY <1>2 DEF AtMostOneBehind
  <2>2. q \in Partitions /\ committed[q] \in Nat /\ position[q] \in Nat
        /\ committed[q] <= position[q] + 1
    BY <1>1, <2>1 DEF IInv, TypeOK, BusTypeOK, DeliveryInv, AtMostOneBehind
  <2>3. committed[q] <= position'[q] + 1
    BY <1>9, <2>2
  <2>4. ASSUME NEW i \in DOMAIN batch', batch'[i].partition = q
        PROVE  committed[q] <= batch'[i].offset + 1
    <3>1. CASE i \in DOMAIN batch
      BY <1>5, <2>1, <2>4, <3>1 DEF IInv, DeliveryInv, AtMostOneBehind
    <3>2. CASE i \notin DOMAIN batch
      BY <1>3, <1>6, <2>2, <2>4, <3>2
    <3>3. QED
      BY <3>1, <3>2
  <2>5. QED
    BY <2>3, <2>4
<1>14. NoSkippedOutput' /\ OutputsAccountedFor'
  BY <1>2 DEF NoSkippedOutput, OutputsAccountedFor, Decodable, Complete, IInv, DeliveryInv
<1>15. QED
  BY <1>10, <1>11, <1>12, <1>13, <1>14 DEF DeliveryInv, TypeInv

\* A partition newly assigned starts at its committed offset, below which
\* everything is handled, or, uncommitted, at a new low.
LEMMA RebalanceStep ==
  ASSUME IInv, TypeInv', Rebalance
  PROVE  DeliveryInv'
<1>1. PICK S \in SUBSET Partitions : OnAssign(S)
  BY DEF Rebalance
<1>2. PICK f \in [S -> 0 .. MaxLog] :
        /\ \A p \in S : IF committed[p] = None THEN f[p] \in FreshPositions(p)
                                               ELSE f[p] = committed[p]
        /\ owned' = S
        /\ position' = [p \in Partitions |-> IF p \in S THEN f[p] ELSE position[p]]
        /\ low' = [p \in Partitions |->
                     IF p \in S /\ committed[p] = None THEN f[p] ELSE low[p]]
  BY <1>1 DEF OnAssign, Assign
<1>3. /\ batch' = <<>> /\ pc' # "commit"
      /\ UNCHANGED <<log, committed, attempts, outputs>>
  BY DEF Rebalance, brokerVars, runtimeVars, loopVars
<1>4. ASSUME NEW p \in Partitions
      PROVE  position'[p] <= Len(log[p])
  <2>1. Len(log[p]) \in Nat /\ position[p] <= Len(log[p])
    BY DEF IInv, TypeOK, BusTypeOK, DeliveryInv, WithinLog
  <2>2. FreshPositions(p) \subseteq 0 .. Len(log[p])
    BY <2>1, BusAssumption DEF FreshPositions
  <2>3. CASE p \in S /\ committed[p] = None
    <3>1. f[p] \in 0 .. Len(log[p])
      BY <1>2, <2>2, <2>3
    <3>2. QED
      BY <1>2, <2>1, <2>3, <3>1
  <2>4. CASE p \in S /\ committed[p] # None
    BY <1>2, <2>4 DEF IInv, DeliveryInv, WithinLog
  <2>5. CASE p \notin S
    BY <1>2, <2>1, <2>5
  <2>6. QED
    BY <2>3, <2>4, <2>5
<1>5. WithinLog' /\ BatchInOrder' /\ OutputsAccountedFor'
  BY <1>3, <1>4 DEF WithinLog, BatchInOrder, OutputsAccountedFor, IInv, DeliveryInv
<1>6. NoSkippedOutput'
  <2>1. \A p \in Partitions : committed[p] # None => low'[p] = low[p]
    BY <1>2
  <2>2. QED
    BY <1>3, <2>1 DEF NoSkippedOutput, Decodable, Complete, IInv, DeliveryInv
<1>7. NothingDropped'
  <2>1. SUFFICES ASSUME NEW p \in S, NEW k \in low'[p] .. position'[p] - 1,
                        Decodable([partition |-> p, offset |-> k])
                 PROVE  Complete([partition |-> p, offset |-> k])
    BY <1>2, <1>3, ZenonT(60) DEF NothingDropped, Decodable, Complete
  <2>2. CASE committed[p] = None
    <3>1. low'[p] = f[p] /\ position'[p] = f[p] /\ f[p] \in Nat
      BY <1>2, <2>2, BusAssumption
    <3>2. QED
      BY <2>1, <3>1
  <2>3. CASE committed[p] # None
    BY <1>2, <2>1, <2>3 DEF IInv, DeliveryInv, NoSkippedOutput
  <2>4. QED
    BY <2>2, <2>3
<1>8. AtMostOneBehind'
  <2>1. SUFFICES ASSUME NEW p \in S, committed[p] # None
                 PROVE  committed[p] <= position'[p] + 1
    BY <1>2, <1>3 DEF AtMostOneBehind
  <2>2. position'[p] = committed[p] /\ committed[p] \in Nat
    BY <1>2, <2>1 DEF IInv, TypeOK, BusTypeOK
  <2>3. QED
    BY <2>2
<1>9. QED
  BY <1>5, <1>6, <1>7, <1>8 DEF DeliveryInv, TypeInv

\* A new record lies above every position and every commit.
LEMMA ProduceStep ==
  ASSUME IInv, TypeInv', NEW p \in Partitions, Produce(p), UNCHANGED <<pc, batch>>
  PROVE  DeliveryInv'
<1>1. UNCHANGED <<committed, outputs, position, owned, low, attempts, inflight, errors>>
  BY DEF Produce, producerVars, consumerVars
<1>2. PICK good \in BOOLEAN : log' = [log EXCEPT ![p] = Append(@, good)]
  BY DEF Produce
<1>3. \A q \in Partitions :
        /\ Len(log[q]) \in Nat /\ Len(log'[q]) \in Nat /\ Len(log[q]) <= Len(log'[q])
        /\ \A k \in 1 .. Len(log[q]) : log'[q][k] = log[q][k]
  <2>1. SUFFICES ASSUME NEW q \in Partitions
                 PROVE  /\ Len(log[q]) \in Nat /\ Len(log'[q]) \in Nat
                        /\ Len(log[q]) <= Len(log'[q])
                        /\ \A k \in 1 .. Len(log[q]) : log'[q][k] = log[q][k]
    OBVIOUS
  <2>2. log[q] \in Seq(BOOLEAN) /\ DOMAIN log = Partitions
    BY DEF IInv, TypeOK, BusTypeOK
  <2>3. CASE q = p
    <3>1. log'[q] = Append(log[q], good)
      BY <1>2, <2>2, <2>3
    <3>2. QED
      BY <2>2, <3>1
  <2>4. CASE q # p
    <3>1. log'[q] = log[q]
      BY <1>2, <2>2, <2>4
    <3>2. QED
      BY <2>2, <3>1
  <2>5. QED
    BY <2>3, <2>4
<1>4. ASSUME NEW q \in Partitions, NEW k \in Nat, k < Len(log[q])
      PROVE  Decodable([partition |-> q, offset |-> k])'
               <=> Decodable([partition |-> q, offset |-> k])
  <2>1. k + 1 \in 1 .. Len(log[q])
    BY <1>3, <1>4
  <2>2. QED
    BY <1>3, <2>1 DEF Decodable
<1>5. \A q \in Partitions : /\ low[q] \in Nat /\ position[q] \in Nat
                            /\ committed[q] # None => committed[q] \in Nat
                            /\ position[q] <= Len(log[q])
                            /\ committed[q] # None => committed[q] <= Len(log[q])
  BY BusAssumption DEF IInv, TypeOK, BusTypeOK, DeliveryInv, WithinLog
<1>6. WithinLog'
  BY <1>1, <1>3, <1>5 DEF WithinLog, IInv, DeliveryInv
<1>7. BatchInOrder' /\ OutputsAccountedFor' /\ AtMostOneBehind'
  BY <1>1 DEF BatchInOrder, OutputsAccountedFor, AtMostOneBehind, IInv, DeliveryInv
<1>8. NoSkippedOutput'
  <2>1. SUFFICES ASSUME NEW q \in Partitions, committed[q] # None,
                        NEW k \in low[q] .. committed[q] - 1,
                        Decodable([partition |-> q, offset |-> k])'
                 PROVE  Complete([partition |-> q, offset |-> k])
    BY <1>1 DEF NoSkippedOutput, Complete
  <2>2. k \in Nat /\ k < Len(log[q])
    BY <1>3, <1>5, <2>1
  <2>3. QED
    BY <1>4, <2>1, <2>2 DEF IInv, DeliveryInv, NoSkippedOutput
<1>9. NothingDropped'
  <2>1. SUFFICES ASSUME NEW q \in owned, NEW k \in low[q] .. position[q] - 1,
                        Decodable([partition |-> q, offset |-> k])'
                 PROVE  \/ Complete([partition |-> q, offset |-> k])
                        \/ \E i \in DOMAIN batch : batch[i] = [partition |-> q, offset |-> k]
    BY <1>1 DEF NothingDropped, Complete
  <2>2. q \in Partitions
    BY DEF IInv, TypeOK, BusTypeOK
  <2>3. k \in Nat /\ k < Len(log[q])
    BY <1>3, <1>5, <2>1, <2>2
  <2>4. QED
    BY <1>4, <2>1, <2>2, <2>3 DEF IInv, DeliveryInv, NothingDropped
<1>10. QED
  BY <1>6, <1>7, <1>8, <1>9 DEF DeliveryInv, TypeInv

LEMMA PeerCommitsStep ==
  ASSUME IInv, TypeInv', NEW p \in Partitions, PeerCommits(p), UNCHANGED <<pc, batch>>
  PROVE  /\ DeliveryInv'
         /\ committed' = [committed EXCEPT ![p] = @ + 1]
<1> DEFINE r == [partition |-> p, offset |-> committed[p]]
<1>1. /\ UNCHANGED <<log, outputs, position, owned, low, inflight, errors>>
      /\ attempts' = IF Decodable(r) THEN attempts \cup {<<r, {}>>} ELSE attempts
      /\ attempts \subseteq attempts'
      /\ p \notin owned
      /\ committed[p] # None /\ committed[p] < Len(log[p])
      /\ committed' = [committed EXCEPT ![p] = committed[p] + 1]
  BY DEF PeerCommits, CommitOffset, producerVars, consumerVars
<1>2. committed[p] \in Nat /\ Len(log[p]) \in Nat /\ low[p] \in Nat
  BY <1>1, BusAssumption DEF IInv, TypeOK, BusTypeOK
<1>3. \A q \in Partitions : committed'[q] = IF q = p THEN committed[p] + 1 ELSE committed[q]
  BY <1>1 DEF IInv, TypeOK, BusTypeOK
<1>4. WithinLog'
  BY <1>1, <1>2, <1>3 DEF WithinLog, IInv, DeliveryInv
<1>5. BatchInOrder' /\ OutputsAccountedFor'
  BY <1>1 DEF BatchInOrder, OutputsAccountedFor, IInv, DeliveryInv
<1>6. AtMostOneBehind'
  <2>1. \A q \in owned : q \in Partitions /\ committed'[q] = committed[q]
    BY <1>1, <1>3 DEF IInv, TypeOK, BusTypeOK
  <2>2. QED
    BY <1>1, <2>1 DEF AtMostOneBehind, IInv, DeliveryInv
<1>7. NothingDropped'
  <2>1. outputs \subseteq outputs'
    BY <1>1
  <2>2. QED
    BY <1>1, <2>1, CompleteStays DEF NothingDropped, Decodable, IInv, DeliveryInv
<1>8. NoSkippedOutput'
  <2>1. SUFFICES ASSUME NEW q \in Partitions, committed'[q] # None,
                        NEW k \in low[q] .. committed'[q] - 1,
                        Decodable([partition |-> q, offset |-> k])
                 PROVE  Complete([partition |-> q, offset |-> k])'
    BY <1>1 DEF NoSkippedOutput, Decodable
  <2>2. CASE q = p /\ k = committed[p]
    <3>1. <<r, {}>> \in attempts'
      BY <1>1, <2>1, <2>2
    <3>2. QED
      BY <2>2, <3>1 DEF Complete
  <2>3. CASE ~(q = p /\ k = committed[p])
    <3>1. committed[q] # None /\ k \in low[q] .. committed[q] - 1
      BY <1>1, <1>2, <1>3, <2>1, <2>3
    <3>2. Complete([partition |-> q, offset |-> k])
      BY <2>1, <3>1 DEF IInv, DeliveryInv, NoSkippedOutput
    <3>3. QED
      BY <1>1, <3>2 DEF Complete
  <2>4. QED
    BY <2>2, <2>3
<1>9. QED
  BY <1>1, <1>4, <1>5, <1>6, <1>7, <1>8 DEF DeliveryInv, TypeInv

-----------------------------------------------------------------------------
(* The theorems *)

LEMMA DeliveryInit == Init => IInv
<1> SUFFICES ASSUME Init PROVE IInv
  OBVIOUS
<1>1. TypeInv
  BY TypeInit
<1>2. /\ pc = "down" /\ batch = <<>> /\ owned = {}
      /\ log = [p \in Partitions |-> <<>>] /\ position = [p \in Partitions |-> 0]
      /\ low = [p \in Partitions |-> 0]
      /\ \A p \in Partitions : committed[p] = None \/ committed[p] = 0
  BY DEF Init, BusInit
<1>3. WithinLog
  <2>1. \A p \in Partitions : Len(log[p]) = 0 /\ position[p] = 0
    BY <1>2
  <2>2. QED
    BY <1>2, <2>1 DEF WithinLog
<1>4. NoSkippedOutput
  <2>1. \A p \in Partitions : committed[p] # None => low[p] .. committed[p] - 1 = {}
    BY <1>2
  <2>2. QED
    BY <2>1 DEF NoSkippedOutput
<1>5. BatchInOrder /\ NothingDropped /\ OutputsAccountedFor /\ AtMostOneBehind
  BY <1>2 DEF BatchInOrder, NothingDropped, OutputsAccountedFor, AtMostOneBehind
<1>6. QED
  BY <1>1, <1>3, <1>4, <1>5 DEF IInv, DeliveryInv, TypeInv

\* What follows a reload: nothing, or the rewind of the batch.
LEMMA AfterReloadStep ==
  ASSUME IInv, TypeInv', AfterReload,
         UNCHANGED <<log, committed, low, attempts, outputs, owned>>
  PROVE  DeliveryInv'
<1>1. pc' # "commit"
  BY DEF AfterReload
<1>2. OutputsAccountedFor'
  BY <1>1 DEF OutputsAccountedFor
<1>3. CASE UNCHANGED <<batch, position>>
  BY <1>2, <1>3, QuietStep
<1>4. CASE Rewind
  BY <1>1, <1>4, RewindStep
<1>5. QED
  BY <1>3, <1>4 DEF AfterReload

LEMMA ProcessDelivery ==
  ASSUME IInv, TypeInv', Process
  PROVE  DeliveryInv'
<1> USE DEF brokerVars, producerVars, consumerVars, busVars, configVars
<1>1. CASE Boot \/ Start \/ StartRefused \/ StepBegin \/ PollReturns \/ SyncProduce
  <2>1. /\ pc' # "commit"
        /\ UNCHANGED <<log, committed, position, low, batch, owned, attempts, outputs>>
    BY <1>1 DEF Boot, Start, StartRefused, StepBegin, PollReturns, SyncProduce
  <2>2. OutputsAccountedFor'
    BY <2>1 DEF OutputsAccountedFor
  <2>3. QED
    BY <2>1, <2>2, QuietStep
<1>2. CASE ReloadKeeps \/ ReloadWithoutCard
  <2>1. AfterReload /\ UNCHANGED <<log, committed, low, attempts, outputs, owned>>
    BY <1>2 DEF ReloadKeeps, ReloadWithoutCard, Accept
  <2>2. QED
    BY <2>1, AfterReloadStep
<1>3. CASE ReloadWithCard
  <2>1. /\ pc' # "commit"
        /\ UNCHANGED <<log, committed, position, low, batch, owned, attempts, outputs>>
    BY <1>3 DEF ReloadWithCard, Accept
  <2>2. OutputsAccountedFor'
    BY <2>1 DEF OutputsAccountedFor
  <2>3. QED
    BY <2>1, <2>2, QuietStep
<1>4. CASE Handle
  <2>1. PICK outs : /\ inflight' = inflight \cup outs
                    /\ attempts' = attempts \cup {<<Head(batch), outs>>}
    BY <1>4 DEF Handle
  <2>2. UNCHANGED <<log, committed, position, low, batch, owned, outputs>>
    BY <1>4 DEF Handle
  <2>3. OutputsAccountedFor'
    <3>1. /\ <<Head(batch), outs>> \in attempts' /\ <<Head(batch), outs>>[1] = Head(batch)'
          /\ <<Head(batch), outs>>[2] \subseteq outputs' \cup inflight'
      BY <2>1, <2>2
    <3>2. QED
      BY <3>1 DEF OutputsAccountedFor
  <2>4. attempts \subseteq attempts'
    BY <2>1
  <2>5. QED
    BY <2>2, <2>3, <2>4, QuietStep
<1>5. CASE CommitUndelivered
  <2>1. /\ Rewind /\ pc' # "commit"
        /\ UNCHANGED <<log, committed, low, attempts, outputs, owned>>
    BY <1>5 DEF CommitUndelivered
  <2>2. QED
    BY <2>1, RewindStep
<1>6. CASE CommitSucceeds
  <2>1. CommitsHead /\ batch' = Tail(batch) /\ pc' # "commit"
    BY <1>6 DEF CommitSucceeds, CommitsHead
  <2>2. UNCHANGED <<log, low, position, owned, attempts, outputs>>
    BY <1>6 DEF CommitSucceeds
  <2>3. QED
    BY <2>1, <2>2, CommitSucceedsStep
<1>7. CASE CommitFails
  <2>1. Rewind /\ pc' # "commit" /\ UNCHANGED <<log, low, attempts, outputs, owned>>
    BY <1>7 DEF CommitFails
  <2>2. UNCHANGED committed \/ CommitsHead
    BY <1>7 DEF CommitFails, CommitsHead
  <2>3. QED
    BY <2>1, <2>2, RewindStep
<1>8. CASE SyncFlush
  <2>1. /\ Return /\ pc' # "commit"
        /\ UNCHANGED <<log, committed, low, attempts, outputs, owned>>
    BY <1>8 DEF SyncFlush, Return, AfterReload
  <2>2. OutputsAccountedFor'
    BY <2>1 DEF OutputsAccountedFor
  <2>3. CASE UNCHANGED <<batch, position>>
    BY <2>1, <2>2, <2>3, QuietStep
  <2>4. CASE AfterReload
    BY <2>1, <2>4, AfterReloadStep
  <2>5. QED
    BY <2>1, <2>3, <2>4 DEF Return
<1>9. CASE SyncRaises
  <2>1. /\ Rewind /\ pc' # "commit"
        /\ UNCHANGED <<log, committed, low, attempts, outputs, owned>>
    BY <1>9 DEF SyncRaises
  <2>2. QED
    BY <2>1, RewindStep
<1>10. CASE StartRaises
  <2>1. /\ ProcessEnds
        /\ UNCHANGED <<log, committed, position, low, attempts, outputs>>
    BY <1>10 DEF StartRaises
  <2>2. QED
    BY <2>1, EndStep DEF ProcessEnds
<1>11. QED
  BY <1>1, <1>2, <1>3, <1>4, <1>5, <1>6, <1>7, <1>8, <1>9, <1>10 DEF Process

LEMMA BrokerDelivery ==
  ASSUME IInv, TypeInv', Broker
  PROVE  DeliveryInv'
<1> USE DEF brokerVars, producerVars, consumerVars
<1>1. UNCHANGED <<pc, batch>> /\ BrokerNext
  BY DEF Broker, runtimeVars, loopVars
<1>2. CASE \E p \in Partitions : Produce(p)
  BY <1>1, <1>2, ProduceStep
<1>3. CASE \E p \in Partitions : PeerCommits(p)
  BY <1>1, <1>3, PeerCommitsStep
<1>4. CASE \/ \E o \in inflight : Persist(o) \/ Acknowledge(o) \/ FailDelivery(o)
           \/ DeliverCard \/ FailCard \/ LoseGroup
  <2>1. /\ UNCHANGED <<log, committed, position, low, attempts>>
        /\ owned' \subseteq owned /\ outputs \subseteq outputs'
        /\ inflight \cup outputs \subseteq inflight' \cup outputs' \/ errors' # {}
        /\ errors # {} => errors' # {}
    BY <1>4 DEF Persist, Acknowledge, FailDelivery, DeliverCard, FailCard, LoseGroup
  <2>2. OutputsAccountedFor'
    BY <1>1, <2>1 DEF OutputsAccountedFor, IInv, DeliveryInv
  <2>3. QED
    BY <1>1, <2>1, <2>2, QuietStep
<1>5. QED
  BY <1>1, <1>2, <1>3, <1>4 DEF BrokerNext

LEMMA DeliveryStep == IInv /\ [Next]_vars => IInv'
<1> SUFFICES ASSUME IInv, [Next]_vars PROVE IInv'
  OBVIOUS
<1>1. TypeInv'
  BY IInvTypeInv, TypeStep
<1>2. CASE Process
  BY <1>1, <1>2, ProcessDelivery DEF IInv, TypeInv
<1>3. CASE Consumer
  BY <1>1, <1>3, RebalanceStep, FetchStep DEF Consumer, IInv, TypeInv
<1>4. CASE Broker
  BY <1>1, <1>4, BrokerDelivery DEF IInv, TypeInv
<1>5. CASE Crash
  <2>1. /\ ProcessEnds
        /\ UNCHANGED <<log, committed, position, low, attempts, outputs>>
    BY <1>5 DEF Crash, brokerVars
  <2>2. DeliveryInv'
    BY <1>1, <2>1, EndStep DEF ProcessEnds
  <2>3. QED
    BY <1>1, <2>2 DEF IInv, TypeInv
<1>6. CASE OperatorEdits \/ UNCHANGED vars
  <2>1. UNCHANGED <<busVars, loopVars>>
    BY <1>6 DEF OperatorEdits, vars, runtimeVars
  <2>2. UNCHANGED <<log, committed, position, low, batch, owned, attempts, outputs, pc,
                    inflight, errors>>
    BY <2>1 DEF busVars, loopVars, brokerVars, producerVars, consumerVars
  <2>3. OutputsAccountedFor'
    BY <2>2 DEF OutputsAccountedFor, IInv, DeliveryInv
  <2>4. DeliveryInv'
    BY <1>1, <2>2, <2>3, QuietStep
  <2>5. QED
    BY <1>1, <2>4 DEF IInv, TypeInv
<1>7. QED
  BY <1>2, <1>3, <1>4, <1>5, <1>6 DEF Next

\* At-least-once delivery for every instance: in every reachable state, below
\* the committed offset every record from the group's start on was handled with
\* all its outputs on their topics, or does not decode.
THEOREM DeliverySafety == Spec => [](DeliveryInv /\ NoSkippedOutput)
<1>1. IInv => DeliveryInv /\ NoSkippedOutput
  BY DEF IInv, DeliveryInv
<1>2. QED
  BY <1>1, DeliveryInit, DeliveryStep, PTL DEF Spec

\* A step that moves a partition's committed offset moves it up.
LEMMA CommitsOnlyMoveUp ==
  ASSUME IInv, [Next]_vars, NEW p \in Partitions, committed[p] # None
  PROVE  committed'[p] # None /\ committed'[p] >= committed[p]
<1> USE DEF brokerVars, producerVars, consumerVars, busVars, runtimeVars, loopVars
<1>1. committed[p] \in Nat
  BY DEF IInv, TypeOK, BusTypeOK
<1>2. CASE UNCHANGED committed
  BY <1>1, <1>2
<1>3. CASE CommitsHead /\ UNCHANGED <<log, low, attempts, outputs>>
  BY <1>3, CommitStep
<1>4. CASE \E q \in Partitions : PeerCommits(q) /\ UNCHANGED <<pc, batch>>
  <2>1. PICK q \in Partitions : PeerCommits(q)
    BY <1>4
  <2>2. committed' = [committed EXCEPT ![q] = committed[q] + 1] /\ committed[q] # None
    BY <2>1 DEF PeerCommits, CommitOffset
  <2>3. committed[q] \in Nat /\ None \notin Nat
    BY <2>2, BusAssumption DEF IInv, TypeOK, BusTypeOK
  <2>4. committed'[p] = IF p = q THEN committed[q] + 1 ELSE committed[p]
    BY <2>2 DEF IInv, TypeOK, BusTypeOK
  <2>5. QED
    BY <1>1, <2>3, <2>4
<1>5. CASE CommitSucceeds \/ CommitFails
  BY <1>2, <1>3, <1>5 DEF CommitSucceeds, CommitFails, CommitsHead
<1>6. CASE Broker
  BY <1>2, <1>4, <1>6 DEF Broker, BrokerNext, Produce, Persist, Acknowledge, FailDelivery,
       DeliverCard, FailCard, LoseGroup
<1>7. CASE Boot \/ Start \/ StartRefused \/ StepBegin \/ PollReturns \/ SyncProduce
           \/ SyncFlush \/ SyncRaises \/ StartRaises \/ Crash
  BY <1>2, <1>7 DEF Boot, Start, StartRefused, StepBegin, PollReturns, SyncProduce,
       SyncFlush, SyncRaises, StartRaises, Crash
<1>8. CASE ReloadKeeps \/ ReloadWithCard \/ ReloadWithoutCard \/ Handle \/ CommitUndelivered
  BY <1>2, <1>8 DEF ReloadKeeps, ReloadWithCard, ReloadWithoutCard, Accept, Handle,
       CommitUndelivered
<1>9. CASE Consumer \/ OperatorEdits \/ UNCHANGED vars
  BY <1>2, <1>9 DEF Consumer, Rebalance, Fetch, OperatorEdits, vars
<1>10. QED
  BY <1>5, <1>6, <1>7, <1>8, <1>9 DEF Next, Process

\* No commit, of this agent or of another replica, before or after a rebalance
\* or a crash, takes an offset back.
THEOREM CommitMonotone == Spec => CommittedNeverRegresses
<1>1. IInv /\ [Next]_vars =>
        [\A p \in Partitions :
           committed[p] # None => committed'[p] # None /\ committed'[p] >= committed[p]]_vars
  BY CommitsOnlyMoveUp
<1>2. QED
  BY <1>1, DeliveryInit, DeliveryStep, PTL DEF Spec, CommittedNeverRegresses

-----------------------------------------------------------------------------
(* A failed input is not passed *)

\* A record that the log holds and that decodes.
OnLog(r) == r.offset < Len(log[r.partition]) /\ Decodable(r)

\* Only such records are fetched, and only such records are handled.
DecodesInv ==
  /\ \A i \in DOMAIN batch : OnLog(batch[i])
  /\ \A a \in attempts : OnLog(a[1])

\* No assignment takes the group past records: it has an offset to go on from, or
\* starts at the beginning, however often it starts again without one.
Anchored == \A p \in Partitions : committed[p] # None \/ StartPosition = "earliest"

\* Then it never starts above a record.
LowAtZero == \A p \in Partitions : low[p] = 0

HandledInv == IInv /\ DecodesInv /\ Anchored /\ LowAtZero

LEMMA OnLogStays ==
  ASSUME TypeInv, NEW r \in Inbound, OnLog(r),
         UNCHANGED log \/ \E p \in Partitions : Produce(p)
  PROVE  OnLog(r)'
<1>1. /\ log \in [Partitions -> Seq(BOOLEAN)]
      /\ r.partition \in Partitions /\ r.offset \in Nat
  BY BusAssumption DEF TypeInv, TypeOK, BusTypeOK, Inbound, Offsets
<1>2. CASE UNCHANGED log
  BY <1>2 DEF OnLog, Decodable
<1>3. ASSUME NEW p \in Partitions, Produce(p) PROVE OnLog(r)'
  <2>1. PICK good \in BOOLEAN : log' = [log EXCEPT ![p] = Append(@, good)]
    BY <1>3 DEF Produce
  <2>2. log'[r.partition] = IF p = r.partition THEN Append(log[p], good) ELSE log[r.partition]
    BY <1>1, <2>1
  <2>3. /\ r.offset < Len(log[r.partition]) => r.offset < Len(log'[r.partition])
        /\ r.offset < Len(log[r.partition]) =>
             log'[r.partition][r.offset + 1] = log[r.partition][r.offset + 1]
    BY <1>1, <2>2
  <2>4. QED
    BY <2>3 DEF OnLog, Decodable
<1>4. QED
  BY <1>2, <1>3

\* A step that fetches nothing and runs no handler.
LEMMA DecodesQuiet ==
  ASSUME TypeInv, DecodesInv, batch' = <<>> \/ UNCHANGED batch, UNCHANGED attempts,
         UNCHANGED log \/ \E p \in Partitions : Produce(p)
  PROVE  DecodesInv'
<1>1. /\ \A i \in DOMAIN batch : batch[i] \in Inbound
      /\ \A a \in attempts : a[1] \in Inbound
  BY DEF TypeInv, TypeOK, BusTypeOK
<1>2. \A r \in Inbound : OnLog(r) => OnLog(r)'
  BY OnLogStays
<1>3. \A i \in DOMAIN batch' : i \in DOMAIN batch /\ batch'[i] = batch[i]
  OBVIOUS
<1>4. \A i \in DOMAIN batch' : OnLog(batch[i]) /\ batch[i] \in Inbound
  BY <1>1, <1>3 DEF DecodesInv
<1>5. (\A i \in DOMAIN batch : OnLog(batch[i]))'
  BY <1>2, <1>3, <1>4 DEF OnLog, Decodable
<1>6. (\A a \in attempts : OnLog(a[1]))'
  BY <1>1, <1>2 DEF DecodesInv, OnLog, Decodable
<1>7. QED
  BY <1>5, <1>6 DEF DecodesInv

LEMMA DecodesFetch ==
  ASSUME TypeInv, DecodesInv, NEW p \in Partitions, Fetch(p)
  PROVE  DecodesInv'
<1> DEFINE r == NextRecord(p)
<1>1. UNCHANGED <<log, attempts>> /\ batch \in Seq(Inbound)
  BY DEF Fetch, brokerVars, TypeInv, TypeOK
<1>2. CASE UNCHANGED batch
  BY <1>1, <1>2, DecodesQuiet
<1>3. CASE Decodable(r) /\ batch' = Append(batch, r)
  <2>1. OnLog(r)
    BY <1>3 DEF Fetch, Fetchable, OnLog, NextRecord
  <2>2. r \in Inbound
    BY <2>1, BusAssumption DEF NextRecord, Inbound, Offsets, OnLog, Fetch, Fetchable, TypeInv, TypeOK, BusTypeOK
  <2>3. \A i \in DOMAIN batch' : batch'[i] = r \/ (i \in DOMAIN batch /\ batch'[i] = batch[i])
    BY <1>1, <1>3, <2>2
  <2>4. QED
    BY <1>1, <2>1, <2>3 DEF DecodesInv, OnLog, Decodable
<1>4. QED
  BY <1>2, <1>3 DEF Fetch

LEMMA DecodesStep ==
  ASSUME IInv, DecodesInv, [Next]_vars
  PROVE  DecodesInv'
<1> USE DEF brokerVars, producerVars, consumerVars, busVars, runtimeVars, loopVars
<1>1. TypeInv
  BY IInvTypeInv
<1>2. CASE Handle
  <2>1. PICK outs : attempts' = attempts \cup {<<Head(batch), outs>>}
    BY <1>2 DEF Handle
  <2>2. UNCHANGED <<log, batch>> /\ batch # <<>>
    BY <1>1, <1>2 DEF Handle, TypeInv, LoopOK
  <2>3. OnLog(Head(batch))
    BY <2>2, HeadFirst DEF DecodesInv
  <2>4. \A a \in attempts' : OnLog(a[1])
    BY <2>1, <2>3 DEF DecodesInv
  <2>5. QED
    BY <2>2, <2>4 DEF DecodesInv, OnLog, Decodable
<1>3. CASE CommitSucceeds
  <2>1. batch' = Tail(batch) /\ UNCHANGED <<log, attempts>>
    BY <1>3 DEF CommitSucceeds
  <2>2. batch \in Seq(Inbound) /\ batch # <<>>
    BY <1>1, <1>3 DEF CommitSucceeds, TypeInv, TypeOK, LoopOK
  <2>3. \A i \in DOMAIN batch' : i + 1 \in DOMAIN batch /\ batch'[i] = batch[i + 1]
    BY <2>1, <2>2
  <2>4. QED
    BY <2>1, <2>3 DEF DecodesInv, OnLog, Decodable
<1>4. CASE Consumer
  BY <1>1, <1>4, DecodesFetch, DecodesQuiet DEF Consumer, Rebalance
<1>5. CASE Broker
  <2>1. UNCHANGED batch
    BY <1>5 DEF Broker
  <2>2. CASE \E p \in Partitions : PeerCommits(p)
    <3>1. PICK p \in Partitions : PeerCommits(p)
      BY <2>2
    <3>2. DEFINE r == [partition |-> p, offset |-> committed[p]]
    <3>3. /\ UNCHANGED log /\ r.offset < Len(log[p])
          /\ attempts' = IF Decodable(r) THEN attempts \cup {<<r, {}>>} ELSE attempts
      BY <3>1 DEF PeerCommits
    <3>4. \A a \in attempts' : OnLog(a[1])
      <4>1. Decodable(r) => OnLog(r)
        BY <3>3 DEF OnLog
      <4>2. QED
        BY <3>3, <4>1 DEF DecodesInv
    <3>5. QED
      BY <2>1, <3>3, <3>4 DEF DecodesInv, OnLog, Decodable
  <2>3. CASE ~ \E p \in Partitions : PeerCommits(p)
    <3>1. UNCHANGED attempts /\ (UNCHANGED log \/ \E p \in Partitions : Produce(p))
      BY <1>5, <2>3 DEF Broker, BrokerNext, Produce, Persist, Acknowledge, FailDelivery,
           DeliverCard, FailCard, LoseGroup
    <3>2. QED
      BY <1>1, <2>1, <3>1, DecodesQuiet
  <2>4. QED
    BY <2>2, <2>3
<1>6. CASE Boot \/ Start \/ StartRefused \/ StepBegin \/ PollReturns \/ SyncProduce
           \/ CommitUndelivered \/ CommitFails \/ SyncRaises \/ StartRaises \/ Crash
           \/ OperatorEdits \/ UNCHANGED vars
  <2>1. UNCHANGED <<log, attempts>> /\ (batch' = <<>> \/ UNCHANGED batch)
    BY <1>6 DEF Boot, Start, StartRefused, StepBegin, PollReturns, SyncProduce,
         CommitUndelivered, CommitFails, SyncRaises, StartRaises, Crash, ProcessEnds, Rewind,
         OperatorEdits, vars
  <2>2. QED
    BY <1>1, <2>1, DecodesQuiet
<1>7. CASE ReloadKeeps \/ ReloadWithCard \/ ReloadWithoutCard \/ SyncFlush
  <2>1. UNCHANGED <<log, attempts>> /\ (batch' = <<>> \/ UNCHANGED batch)
    BY <1>7 DEF ReloadKeeps, ReloadWithCard, ReloadWithoutCard, Accept, SyncFlush, Return,
         AfterReload, Rewind
  <2>2. QED
    BY <1>1, <2>1, DecodesQuiet
<1>8. QED
  BY <1>2, <1>3, <1>4, <1>5, <1>6, <1>7 DEF Next, Process

\* A commit is never undone.
LEMMA AnchoredStep ==
  ASSUME IInv, Anchored, [Next]_vars
  PROVE  Anchored'
  BY CommitsOnlyMoveUp DEF Anchored

LEMMA LowStep ==
  ASSUME TypeInv, Anchored, LowAtZero, [Next]_vars
  PROVE  LowAtZero'
<1> USE DEF brokerVars, producerVars, consumerVars, busVars, runtimeVars, loopVars
<1>1. CASE UNCHANGED low
  BY <1>1 DEF LowAtZero
<1>2. CASE Rebalance
  <2>1. PICK S \in SUBSET Partitions : Assign(S)
    BY <1>2 DEF Rebalance, OnAssign
  <2>2. PICK f \in [S -> 0 .. MaxLog] :
          /\ \A p \in S : IF committed[p] = None THEN f[p] \in FreshPositions(p)
                                                 ELSE f[p] = committed[p]
          /\ low' = [p \in Partitions |->
                       IF p \in S /\ committed[p] = None THEN f[p] ELSE low[p]]
    BY <2>1 DEF Assign
  <2>3. \A p \in S : committed[p] = None => f[p] = 0
    BY <2>2 DEF FreshPositions, Anchored
  <2>4. QED
    BY <2>2, <2>3 DEF LowAtZero
<1>3. CASE \E p \in Partitions : Fetch(p)
  BY <1>1, <1>3 DEF Fetch
<1>4. CASE Broker
  BY <1>1, <1>4 DEF Broker, BrokerNext, Produce, PeerCommits, Persist, Acknowledge,
       FailDelivery, DeliverCard, FailCard, LoseGroup
<1>5. CASE Boot \/ Start \/ StartRefused \/ StepBegin \/ PollReturns \/ SyncProduce
           \/ SyncFlush \/ SyncRaises \/ StartRaises \/ Crash
  BY <1>1, <1>5 DEF Boot, Start, StartRefused, StepBegin, PollReturns, SyncProduce,
       SyncFlush, SyncRaises, StartRaises, Crash
<1>6. CASE ReloadKeeps \/ ReloadWithCard \/ ReloadWithoutCard \/ Handle
           \/ CommitUndelivered \/ CommitSucceeds \/ CommitFails
  BY <1>1, <1>6 DEF ReloadKeeps, ReloadWithCard, ReloadWithoutCard, Accept, Handle,
       CommitUndelivered, CommitSucceeds, CommitFails
<1>7. CASE OperatorEdits \/ UNCHANGED vars
  BY <1>1, <1>7 DEF OperatorEdits, vars
<1>8. QED
  BY <1>2, <1>3, <1>4, <1>5, <1>6, <1>7 DEF Next, Process, Consumer

\* With nothing below the group's start, a record that was handled and lies
\* below the committed offset is one NoSkippedOutput speaks of.
LEMMA HandledNotPassed == HandledInv => FailedInputNotPassed
<1> SUFFICES ASSUME HandledInv, NEW a \in attempts,
                    committed[a[1].partition] # None,
                    committed[a[1].partition] > a[1].offset
             PROVE  Complete(a[1])
  BY DEF FailedInputNotPassed
<1> DEFINE p == a[1].partition
<1> DEFINE k == a[1].offset
<1>1. /\ a[1] \in Inbound /\ p \in Partitions /\ k \in Nat
      /\ committed[p] \in Nat
  BY BusAssumption DEF HandledInv, IInv, TypeOK, BusTypeOK, Inbound, Offsets
<1>2. k \in low[p] .. committed[p] - 1
  BY <1>1 DEF HandledInv, LowAtZero
<1>3. a[1] = [partition |-> p, offset |-> k]
  BY <1>1 DEF Inbound
<1>4. Decodable(a[1])
  BY DEF HandledInv, DecodesInv, OnLog
<1>5. QED
  BY <1>1, <1>2, <1>3, <1>4 DEF HandledInv, IInv, DeliveryInv, NoSkippedOutput

\* DeliveryFailed's contract for a group that has committed in every partition,
\* under any start position, or starts at the beginning: whatever raised, crashed,
\* rebalanced or was retried, an input whose outputs were not all delivered is
\* not below the committed offset.  So the first commit is all that it takes.
THEOREM FailedInputSafety == Spec /\ Anchored => []FailedInputNotPassed
<1>1. Init /\ Anchored => HandledInv
  <2>1. Init => DecodesInv /\ LowAtZero
    BY DEF Init, BusInit, DecodesInv, LowAtZero
  <2>2. QED
    BY <2>1, DeliveryInit DEF HandledInv
<1>2. HandledInv /\ [Next]_vars => HandledInv'
  <2>1. SUFFICES ASSUME HandledInv, [Next]_vars PROVE HandledInv'
    OBVIOUS
  <2>2. TypeInv
    BY <2>1, IInvTypeInv DEF HandledInv
  <2>3. DecodesInv' /\ Anchored' /\ LowAtZero'
    BY <2>1, <2>2, DecodesStep, AnchoredStep, LowStep DEF HandledInv
  <2>4. QED
    BY <2>1, <2>3, DeliveryStep DEF HandledInv
<1>3. QED
  BY <1>1, <1>2, HandledNotPassed, PTL DEF Spec

-----------------------------------------------------------------------------
(* Without a fault, nothing is handled twice *)

\* A member no fault has hit owns what it consumes.
OwnsBatch ==
  /\ owned = assigned /\ errors = {}
  /\ \A i \in DOMAIN batch : batch[i].partition \in owned

\* A handled record is behind the consumer that owns its partition and before
\* what its batch still holds, but for the one about to be committed; in a
\* partition of another member it is committed.
Behind(r) ==
  IF r.partition \in owned
    THEN /\ r.offset < position[r.partition]
         /\ \A i \in DOMAIN batch : batch[i].partition = r.partition =>
              \/ r.offset < batch[i].offset
              \/ i = 1 /\ pc = "commit" /\ r.offset = batch[i].offset
    ELSE committed[r.partition] # None /\ r.offset < committed[r.partition]

HandledOnce == faults = 0 => OwnsBatch /\ \A a \in attempts : Behind(a[1])

LEMMA FaultIsCounted ==
  ASSUME TypeInv, Fault
  PROVE  faults' # 0
  BY DEF Fault, TypeInv, TypeOK, BusTypeOK

\* A run that ends without a fault had none before.
LEMMA NoFaultBefore ==
  ASSUME TypeInv, [Next]_vars, faults' = 0
  PROVE  faults = 0
<1> USE FaultIsCounted DEF busVars, runtimeVars, loopVars
<1>1. CASE Boot \/ Start \/ StartRefused \/ StepBegin \/ PollReturns \/ SyncProduce
           \/ SyncFlush \/ SyncRaises \/ StartRaises \/ Crash
  BY <1>1 DEF Boot, Start, StartRefused, StepBegin, PollReturns, SyncProduce,
       SyncFlush, DeliveryFailed, SyncRaises, StartRaises, Crash
<1>2. CASE ReloadKeeps \/ ReloadWithCard \/ ReloadWithoutCard \/ Handle
           \/ CommitUndelivered \/ CommitSucceeds \/ CommitFails
  BY <1>2 DEF ReloadKeeps, ReloadWithCard, ReloadWithoutCard, Accept, Handle,
       CommitUndelivered, DeliveryFailed, CommitSucceeds, CommitFails
<1>3. CASE Broker
  BY <1>3 DEF Broker, BrokerNext, Produce, PeerCommits, Persist, Acknowledge, FailDelivery,
       DeliverCard, FailCard, LoseGroup
<1>4. CASE Consumer \/ OperatorEdits \/ UNCHANGED vars
  BY <1>4 DEF Consumer, Rebalance, Fetch, OperatorEdits, vars
<1>5. QED
  BY <1>1, <1>2, <1>3, <1>4 DEF Next, Process

\* A step that leaves the consumer and the runs of handlers alone.
LEMMA OnceQuiet ==
  ASSUME OwnsBatch, \A a \in attempts : Behind(a[1]),
         UNCHANGED <<assigned, owned, errors, position, committed, attempts, batch>>,
         pc = "commit" => pc' = "commit"
  PROVE  OwnsBatch' /\ (\A a \in attempts : Behind(a[1]))'
  BY DEF OwnsBatch, Behind

\* A rewind gives back only records that were not handled.
LEMMA OnceRewind ==
  ASSUME IInv, OwnsBatch, \A a \in attempts : Behind(a[1]), Rewind, pc # "commit",
         UNCHANGED <<assigned, owned, errors, committed, attempts>>
  PROVE  OwnsBatch' /\ (\A a \in attempts : Behind(a[1]))'
<1>1. batch' = <<>>
  BY DEF Rewind
<1>2. SUFFICES ASSUME NEW a \in attempts PROVE Behind(a[1])'
  BY <1>1 DEF OwnsBatch
<1>3. a[1].partition \in Partitions /\ Behind(a[1])
  BY DEF IInv, TypeOK, BusTypeOK, Inbound
<1>4. CASE a[1].partition \in owned
  <2>1. a[1].offset < position'[a[1].partition]
    <3>1. CASE a[1].partition \in PartitionsOf(batch)
      <4>1. PICK i \in DOMAIN batch : /\ batch[i].partition = a[1].partition
                                     /\ position'[a[1].partition] = batch[i].offset
        BY <1>3, <1>4, <3>1, RewindPosition
      <4>2. QED
        BY <1>3, <1>4, <4>1 DEF Behind
    <3>2. CASE a[1].partition \notin PartitionsOf(batch)
      BY <1>3, <1>4, <3>2, RewindPosition DEF Behind
    <3>3. QED
      BY <3>1, <3>2
  <2>2. QED
    BY <1>1, <1>4, <2>1 DEF Behind
<1>5. CASE a[1].partition \notin owned
  BY <1>3, <1>5 DEF Behind
<1>6. QED
  BY <1>4, <1>5

LEMMA OnceAfterReload ==
  ASSUME IInv, OwnsBatch, \A a \in attempts : Behind(a[1]), AfterReload, pc # "commit",
         UNCHANGED <<assigned, owned, errors, committed, attempts>>
  PROVE  OwnsBatch' /\ (\A a \in attempts : Behind(a[1]))'
  BY OnceQuiet, OnceRewind DEF AfterReload

LEMMA OnceHandle ==
  ASSUME IInv, OwnsBatch, \A a \in attempts : Behind(a[1]), Handle
  PROVE  OwnsBatch' /\ (\A a \in attempts : Behind(a[1]))'
<1> DEFINE h == Head(batch)
<1>1. PICK outs : attempts' = attempts \cup {<<h, outs>>}
  BY DEF Handle
<1>2. /\ UNCHANGED <<assigned, owned, errors, position, committed, batch>>
      /\ batch # <<>> /\ pc # "commit" /\ pc' = "commit"
  BY DEF Handle, brokerVars, consumerVars, IInv, DeliveryInv, LoopOK
<1>3. /\ h \in Inbound /\ 1 \in DOMAIN batch /\ h = batch[1]
      /\ h.offset < position[h.partition]
      /\ \A i \in DOMAIN batch : i # 1 /\ batch[i].partition = h.partition =>
           h.offset < batch[i].offset
  BY <1>2, HeadFirst
<1>4. h.partition \in owned
  BY <1>3 DEF OwnsBatch
<1>5. SUFFICES ASSUME NEW a \in attempts' PROVE Behind(a[1])'
  BY <1>2 DEF OwnsBatch
<1>6. CASE a \in attempts
  BY <1>2, <1>6 DEF Behind
<1>7. CASE a[1] = h
  BY <1>2, <1>3, <1>4, <1>7 DEF Behind
<1>8. QED
  BY <1>1, <1>6, <1>7

LEMMA OnceCommit ==
  ASSUME IInv, OwnsBatch, \A a \in attempts : Behind(a[1]), CommitSucceeds
  PROVE  OwnsBatch' /\ (\A a \in attempts : Behind(a[1]))'
<1> DEFINE h == Head(batch)
<1>1. /\ UNCHANGED <<assigned, owned, errors, position, attempts>>
      /\ batch' = Tail(batch) /\ CommitOffset(h) /\ h.partition \in owned
  BY DEF CommitSucceeds, producerVars, consumerVars
<1>2. batch \in Seq(Inbound) /\ batch # <<>>
  BY DEF CommitSucceeds, IInv, TypeOK, DeliveryInv, LoopOK
<1>3. \A i \in DOMAIN batch' : /\ i + 1 \in DOMAIN batch /\ i + 1 # 1
                               /\ batch'[i] = batch[i + 1]
  BY <1>1, <1>2
<1>4. OwnsBatch'
  BY <1>1, <1>3 DEF OwnsBatch
<1>5. SUFFICES ASSUME NEW a \in attempts PROVE Behind(a[1])'
  BY <1>1, <1>4
<1>6. a[1].partition \in Partitions /\ Behind(a[1])
  BY DEF IInv, TypeOK, BusTypeOK, Inbound
<1>7. CASE a[1].partition \in owned
  BY <1>1, <1>3, <1>6, <1>7 DEF Behind
<1>8. CASE a[1].partition \notin owned
  <2>1. committed'[a[1].partition] = committed[a[1].partition]
    BY <1>1, <1>6, <1>8 DEF CommitOffset, IInv, TypeOK, BusTypeOK
  <2>2. QED
    BY <1>1, <1>6, <1>8, <2>1 DEF Behind
<1>9. QED
  BY <1>7, <1>8

LEMMA OnceRebalance ==
  ASSUME IInv, OwnsBatch, \A a \in attempts : Behind(a[1]), Rebalance
  PROVE  OwnsBatch' /\ (\A a \in attempts : Behind(a[1]))'
<1>1. PICK S \in SUBSET Partitions : OnAssign(S)
  BY DEF Rebalance
<1>2. PICK f \in [S -> 0 .. MaxLog] :
        /\ \A p \in S : IF committed[p] = None THEN f[p] \in FreshPositions(p)
                                               ELSE f[p] = committed[p]
        /\ assigned' = S /\ owned' = S
        /\ position' = [p \in Partitions |-> IF p \in S THEN f[p] ELSE position[p]]
  BY <1>1 DEF OnAssign, Assign
<1>3. /\ batch' = <<>> /\ owned = {}
      /\ UNCHANGED <<errors, committed, attempts>>
  BY DEF Rebalance, brokerVars, producerVars, runtimeVars, loopVars
<1>4. SUFFICES ASSUME NEW a \in attempts PROVE Behind(a[1])'
  BY <1>2, <1>3 DEF OwnsBatch
<1>5. /\ a[1].partition \in Partitions
      /\ committed[a[1].partition] # None /\ a[1].offset < committed[a[1].partition]
  BY <1>3 DEF Behind, IInv, TypeOK, BusTypeOK, Inbound
<1>6. CASE a[1].partition \in S
  <2>1. position'[a[1].partition] = committed[a[1].partition]
    BY <1>2, <1>5, <1>6
  <2>2. QED
    BY <1>2, <1>3, <1>5, <1>6, <2>1 DEF Behind
<1>7. CASE a[1].partition \notin S
  BY <1>2, <1>3, <1>5, <1>7 DEF Behind
<1>8. QED
  BY <1>6, <1>7

LEMMA OnceFetch ==
  ASSUME IInv, OwnsBatch, \A a \in attempts : Behind(a[1]), NEW p \in Partitions, Fetch(p)
  PROVE  OwnsBatch' /\ (\A a \in attempts : Behind(a[1]))'
<1> DEFINE r == NextRecord(p)
<1>1. /\ UNCHANGED <<assigned, owned, errors, committed, attempts, pc>> /\ pc # "commit"
      /\ position' = [position EXCEPT ![p] = @ + 1]
      /\ UNCHANGED batch \/ batch' = Append(batch, r)
  BY DEF Fetch, brokerVars, producerVars
<1>2. p \in owned
  BY DEF Fetch, Fetchable, OwnsBatch
<1>3. batch \in Seq(Inbound) /\ \A q \in Partitions : position[q] \in Nat
  BY BusAssumption DEF IInv, TypeOK, BusTypeOK
<1>4. \A i \in DOMAIN batch' : \/ i \in DOMAIN batch /\ batch'[i] = batch[i]
                               \/ batch'[i] = r
  BY <1>1, <1>3
<1>5. r.partition = p /\ r.offset = position[p]
  BY DEF NextRecord
<1>6. OwnsBatch'
  BY <1>1, <1>2, <1>4, <1>5 DEF OwnsBatch
<1>7. SUFFICES ASSUME NEW a \in attempts PROVE Behind(a[1])'
  BY <1>1, <1>6
<1>8. a[1].partition \in Partitions /\ a[1].offset \in Nat /\ Behind(a[1])
  BY BusAssumption DEF IInv, TypeOK, BusTypeOK, Inbound, Offsets
<1>9. CASE a[1].partition \in owned
  <2>1. a[1].offset < position'[a[1].partition]
    BY <1>1, <1>3, <1>8, <1>9 DEF Behind, IInv, TypeOK, BusTypeOK
  <2>2. ASSUME NEW i \in DOMAIN batch', batch'[i].partition = a[1].partition
        PROVE  a[1].offset < batch'[i].offset
    <3>1. CASE i \in DOMAIN batch /\ batch'[i] = batch[i]
      BY <1>1, <1>8, <1>9, <2>2, <3>1 DEF Behind
    <3>2. CASE batch'[i] = r
      BY <1>5, <1>8, <1>9, <2>2, <3>2 DEF Behind
    <3>3. QED
      BY <1>4, <3>1, <3>2
  <2>3. QED
    BY <1>1, <1>9, <2>1, <2>2 DEF Behind
<1>10. CASE a[1].partition \notin owned
  BY <1>1, <1>8, <1>10 DEF Behind
<1>11. QED
  BY <1>9, <1>10

LEMMA OncePeer ==
  ASSUME IInv, OwnsBatch, \A a \in attempts : Behind(a[1]),
         NEW p \in Partitions, PeerCommits(p), UNCHANGED <<pc, batch>>
  PROVE  OwnsBatch' /\ (\A a \in attempts : Behind(a[1]))'
<1> DEFINE r == [partition |-> p, offset |-> committed[p]]
<1>1. /\ UNCHANGED <<assigned, owned, errors, position>>
      /\ p \notin owned /\ committed[p] # None /\ committed' = [committed EXCEPT ![p] = committed[p] + 1]
      /\ \A a \in attempts' : a \in attempts \/ a[1] = r
  BY DEF PeerCommits, CommitOffset, producerVars, consumerVars
<1>2. committed[p] \in Nat /\ committed'[p] = committed[p] + 1 /\ None \notin Nat
  BY <1>1, BusAssumption DEF IInv, TypeOK, BusTypeOK
<1>3. \A q \in Partitions : q # p => committed'[q] = committed[q]
  BY <1>1 DEF IInv, TypeOK, BusTypeOK
<1>4. SUFFICES ASSUME NEW a \in attempts' PROVE Behind(a[1])'
  BY <1>1 DEF OwnsBatch
<1>5. CASE a[1] = r
  BY <1>1, <1>2, <1>5 DEF Behind
<1>6. CASE a \in attempts
  <2>1. a[1].partition \in Partitions /\ a[1].offset \in Nat /\ Behind(a[1])
    BY <1>6, BusAssumption DEF IInv, TypeOK, BusTypeOK, Inbound, Offsets
  <2>2. CASE a[1].partition = p
    BY <1>1, <1>2, <2>1, <2>2 DEF Behind
  <2>3. CASE a[1].partition # p
    BY <1>1, <1>3, <2>1, <2>3 DEF Behind
  <2>4. QED
    BY <2>2, <2>3
<1>7. QED
  BY <1>1, <1>5, <1>6

LEMMA OnceStep ==
  ASSUME IInv, HandledOnce, [Next]_vars
  PROVE  HandledOnce'
<1> USE DEF brokerVars, producerVars, consumerVars, busVars, runtimeVars, loopVars
<1>1. SUFFICES ASSUME faults' = 0
               PROVE  OwnsBatch' /\ (\A a \in attempts : Behind(a[1]))'
  BY DEF HandledOnce
<1>2. TypeInv
  BY IInvTypeInv
<1>3. OwnsBatch /\ \A a \in attempts : Behind(a[1])
  BY <1>1, <1>2, NoFaultBefore DEF HandledOnce
<1>4. ~Fault
  BY <1>1, <1>2, FaultIsCounted
<1>5. ~DeliveryFailed
  BY <1>3, <1>4 DEF DeliveryFailed, OwnsBatch
<1>6. CASE Boot \/ Start \/ StartRefused \/ StepBegin \/ PollReturns \/ SyncProduce
           \/ OperatorEdits \/ UNCHANGED vars
  <2>1. /\ UNCHANGED <<assigned, owned, errors, position, committed, attempts, batch>>
        /\ pc = "commit" => pc' = "commit"
    BY <1>6 DEF Boot, Start, StartRefused, StepBegin, PollReturns, SyncProduce, OperatorEdits, vars
  <2>2. QED
    BY <1>3, <2>1, OnceQuiet
<1>7. CASE ReloadWithCard
  <2>1. /\ UNCHANGED <<assigned, owned, errors, position, committed, attempts, batch>>
        /\ pc # "commit"
    BY <1>7 DEF ReloadWithCard, Accept
  <2>2. QED
    BY <1>3, <2>1, OnceQuiet
<1>8. CASE ReloadKeeps \/ ReloadWithoutCard
  <2>1. /\ AfterReload /\ pc # "commit"
        /\ UNCHANGED <<assigned, owned, errors, committed, attempts>>
    BY <1>8 DEF ReloadKeeps, ReloadWithoutCard, Accept
  <2>2. QED
    BY <1>3, <2>1, OnceAfterReload
<1>9. CASE SyncFlush
  <2>1. /\ Return /\ pc # "commit"
        /\ UNCHANGED <<assigned, owned, errors, committed, attempts>>
    BY <1>5, <1>9 DEF SyncFlush
  <2>2. CASE UNCHANGED <<batch, position>>
    BY <1>3, <2>1, <2>2, OnceQuiet
  <2>3. CASE AfterReload
    BY <1>3, <2>1, <2>3, OnceAfterReload
  <2>4. QED
    BY <2>1, <2>2, <2>3 DEF Return
<1>10. CASE Handle
  BY <1>3, <1>10, OnceHandle
<1>11. CASE CommitSucceeds
  BY <1>3, <1>11, OnceCommit
<1>12. CASE CommitUndelivered \/ SyncRaises \/ StartRaises \/ Crash
  BY <1>4, <1>5, <1>12 DEF CommitUndelivered, SyncRaises, StartRaises, Crash
<1>13. CASE CommitFails
  <2>1. Head(batch).partition \in owned
    <3>1. batch # <<>>
      BY <1>2, <1>13 DEF CommitFails, TypeInv, LoopOK
    <3>2. QED
      BY <1>3, <3>1, HeadFirst DEF OwnsBatch
  <2>2. QED
    BY <1>4, <1>13, <2>1 DEF CommitFails
<1>14. CASE Consumer
  BY <1>3, <1>14, OnceRebalance, OnceFetch DEF Consumer
<1>15. CASE Broker
  <2>1. UNCHANGED <<pc, batch>>
    BY <1>15 DEF Broker
  <2>2. CASE \E p \in Partitions : PeerCommits(p)
    BY <1>3, <2>1, <2>2, OncePeer
  <2>3. CASE \/ \E p \in Partitions : Produce(p)
             \/ \E o \in inflight : Persist(o) \/ Acknowledge(o)
             \/ DeliverCard
    <3>1. UNCHANGED <<assigned, owned, errors, position, committed, attempts>>
      BY <2>3 DEF Produce, Persist, Acknowledge, DeliverCard
    <3>2. QED
      BY <1>3, <2>1, <3>1, OnceQuiet
  <2>4. CASE (\E o \in inflight : FailDelivery(o)) \/ FailCard \/ LoseGroup
    BY <1>4, <2>4 DEF FailDelivery, FailCard, LoseGroup
  <2>5. QED
    BY <1>15, <2>2, <2>3, <2>4 DEF Broker, BrokerNext
<1>16. QED
  BY <1>6, <1>7, <1>8, <1>9, <1>10, <1>11, <1>12, <1>13, <1>14, <1>15 DEF Next, Process

\* While no fault has happened, no handler runs on a record that it, or another
\* replica, has already run on, whatever the operator paused, resumed or edited
\* and however the group divided the partitions.
THEOREM HandledOnceSafety == Spec => NoNeedlessReprocessing
<1>1. Init => IInv /\ HandledOnce
  <2>1. Init => HandledOnce
    BY DEF Init, BusInit, HandledOnce, OwnsBatch
  <2>2. QED
    BY <2>1, DeliveryInit
<1>2. IInv /\ HandledOnce /\ [Next]_vars => IInv' /\ HandledOnce'
  BY DeliveryStep, OnceStep
<1>3. IInv /\ HandledOnce /\ [Next]_vars =>
        [Handle /\ faults = 0 => \A a \in attempts : a[1] # Head(batch)]_vars
  <2>1. SUFFICES ASSUME IInv, HandledOnce, Handle, faults = 0, NEW a \in attempts
                 PROVE  a[1] # Head(batch)
    OBVIOUS
  <2>2. pc # "commit" /\ batch # <<>>
    BY <2>1 DEF Handle, IInv, DeliveryInv, LoopOK
  <2>3. Head(batch) = batch[1] /\ 1 \in DOMAIN batch /\ Head(batch) \in Inbound
    BY <2>1, <2>2, HeadFirst
  <2>4. Behind(a[1]) /\ batch[1].partition \in owned
    BY <2>1, <2>3 DEF HandledOnce, OwnsBatch
  <2>5. batch[1].offset \in Nat
    BY <2>3, BusAssumption DEF Inbound, Offsets
  <2>6. QED
    BY <2>2, <2>3, <2>4, <2>5 DEF Behind
<1>4. QED
  BY <1>1, <1>2, <1>3, PTL DEF Spec, NoNeedlessReprocessing

-----------------------------------------------------------------------------
(* The runtime implements AtLeastOnce *)

Done == {r \in Inbound : Complete(r)}

LEMMA PromiseInit == Init => Promise!Init
<1> SUFFICES ASSUME Init PROVE Promise!Init
  OBVIOUS
<1>1. \A r : ~Complete(r)
  BY DEF Init, BusInit, Complete
<1>2. QED
  BY <1>1 DEF Init, BusInit, Promise!Init

\* Work is never undone.
LEMMA DoneGrows ==
  ASSUME [Next]_vars
  PROVE  Done \subseteq Done'
<1> USE DEF brokerVars, producerVars, consumerVars, busVars, runtimeVars, loopVars, configVars
<1>1. attempts \subseteq attempts' /\ outputs \subseteq outputs'
  <2>1. CASE Process
    BY <2>1 DEF Process, Boot, Start, StartRefused, StepBegin, PollReturns, ReloadKeeps,
         ReloadWithCard, ReloadWithoutCard, Accept, Handle, CommitUndelivered, CommitSucceeds,
         CommitFails, SyncProduce, SyncFlush, SyncRaises, StartRaises
  <2>2. CASE Broker
    BY <2>2 DEF Broker, BrokerNext, Produce, PeerCommits, Persist, Acknowledge, FailDelivery,
         DeliverCard, FailCard, LoseGroup
  <2>3. CASE Consumer \/ OperatorEdits \/ Crash \/ UNCHANGED vars
    BY <2>3 DEF Consumer, Rebalance, Fetch, OperatorEdits, Crash, vars
  <2>4. QED
    BY <2>1, <2>2, <2>3 DEF Next
<1>2. QED
  BY <1>1, CompleteStays DEF Done

\* What lies below a committed offset is handled.
LEMMA HandledBelow ==
  ASSUME IInv', NEW p \in Partitions, committed'[p] # None,
         NEW i \in low'[p] .. committed'[p] - 1
  PROVE  log'[p][i + 1] => [partition |-> p, offset |-> i] \in Done'
<1> DEFINE r == [partition |-> p, offset |-> i]
<1>1. /\ committed'[p] \in Nat /\ low'[p] \in Nat /\ committed'[p] <= Len(log'[p])
      /\ Len(log'[p]) \in Nat /\ Len(log'[p]) <= MaxLog
  BY DEF IInv, TypeOK, BusTypeOK, DeliveryInv, WithinLog
<1>2. r \in Inbound
  BY <1>1, BusAssumption DEF Inbound, Offsets
<1>3. Decodable(r)' => Complete(r)'
  BY DEF IInv, DeliveryInv, NoSkippedOutput
<1>4. QED
  BY <1>2, <1>3 DEF Decodable, Done

\* A step that commits one partition, and moves nothing else of the abstract state.
LEMMA PromiseCommit ==
  ASSUME IInv, IInv', [Next]_vars, NEW p \in Partitions, NEW k \in Nat,
         committed' = [committed EXCEPT ![p] = k], UNCHANGED <<log, low>>
  PROVE  Promise!Next
<1>1. committed'[p] = k /\ k # None
  BY BusAssumption DEF IInv, TypeOK, BusTypeOK
<1>2. k \in 0 .. Len(log[p])
  BY <1>1 DEF IInv, DeliveryInv, WithinLog, TypeOK, BusTypeOK
<1>3. committed[p] # None => k >= committed[p]
  BY <1>1, CommitsOnlyMoveUp
<1>4. \A i \in low[p] .. k - 1 : Promise!Handled(p, i)'
  BY <1>1, HandledBelow DEF Promise!Handled, Done
<1>5. Promise!Commit(p)
  BY <1>2, <1>3, <1>4, DoneGrows DEF Promise!Commit, Done
<1>6. QED
  BY <1>5 DEF Promise!Next

LEMMA PromiseWork ==
  ASSUME [Next]_vars, UNCHANGED <<log, low, committed>>
  PROVE  Promise!Next
  BY DoneGrows DEF Promise!Next, Promise!Work, Done

LEMMA PromiseStart ==
  ASSUME IInv, Rebalance
  PROVE  Promise!Next
<1>1. PICK S \in SUBSET Partitions : OnAssign(S)
  BY DEF Rebalance
<1>2. PICK f \in [S -> 0 .. MaxLog] :
        /\ \A p \in S : committed[p] = None => f[p] \in FreshPositions(p)
        /\ low' = [p \in Partitions |-> IF p \in S /\ committed[p] = None THEN f[p] ELSE low[p]]
  BY <1>1 DEF OnAssign, Assign
<1>3. \A p \in Partitions : FreshPositions(p) \subseteq 0 .. Len(log[p])
  <2>1. SUFFICES ASSUME NEW p \in Partitions PROVE FreshPositions(p) \subseteq 0 .. Len(log[p])
    OBVIOUS
  <2>2. Len(log[p]) \in Nat /\ StartValue[p] \in Nat
    BY BusAssumption DEF IInv, TypeOK, BusTypeOK
  <2>3. QED
    BY <2>2 DEF FreshPositions
<1>4. \A p \in Partitions : low'[p] = low[p] \/ (committed[p] = None /\ low'[p] \in 0 .. Len(log[p]))
  BY <1>2, <1>3
<1>5. DOMAIN low' = Partitions
  BY <1>2
<1>6. UNCHANGED <<log, committed, attempts, outputs>>
  BY DEF Rebalance, brokerVars
<1>7. Done' = Done
  BY <1>6 DEF Done, Complete
<1>8. QED
  BY <1>4, <1>5, <1>6, <1>7 DEF Promise!Next, Promise!StartReading, Done

LEMMA PromiseProduce ==
  ASSUME NEW p \in Partitions, Produce(p)
  PROVE  Promise!Next
<1>1. UNCHANGED <<committed, low, attempts, outputs>>
  BY DEF Produce, consumerVars
<1>2. Done' = Done
  BY <1>1 DEF Done, Complete
<1>3. QED
  BY <1>1, <1>2 DEF Produce, Promise!Next, Promise!Produce, Done

LEMMA PromiseBroker ==
  ASSUME IInv, IInv', [Next]_vars, Broker
  PROVE  Promise!Next
<1>1. CASE \E p \in Partitions : Produce(p)
  BY <1>1, PromiseProduce
<1>2. CASE \E p \in Partitions : PeerCommits(p)
  <2>1. PICK p \in Partitions : PeerCommits(p)
    BY <1>2
  <2>2. /\ committed' = [committed EXCEPT ![p] = committed[p] + 1]
        /\ committed[p] # None /\ UNCHANGED <<log, low>>
    BY <2>1 DEF PeerCommits, CommitOffset, consumerVars
  <2>3. committed[p] + 1 \in Nat
    BY <2>2 DEF IInv, TypeOK, BusTypeOK
  <2>4. QED
    BY <2>2, <2>3, PromiseCommit
<1>3. CASE UNCHANGED <<log, low, committed>>
  BY <1>3, PromiseWork
<1>4. QED
  BY <1>1, <1>2, <1>3 DEF Broker, BrokerNext, Persist, Acknowledge, FailDelivery,
     DeliverCard, FailCard, LoseGroup, brokerVars, producerVars, consumerVars

LEMMA PromiseStep ==
  ASSUME IInv, IInv', [Next]_vars
  PROVE  Promise!Next \/ UNCHANGED <<log, low, committed, Done>>
<1> USE DEF brokerVars, producerVars, consumerVars, busVars, runtimeVars, loopVars, configVars
<1>1. CASE UNCHANGED <<log, low, committed>>
  BY <1>1, PromiseWork
<1>2. CASE CommitSucceeds \/ CommitFails
  <2>1. UNCHANGED <<log, low>> /\ pc = "commit"
    BY <1>2 DEF CommitSucceeds, CommitFails
  <2>2. CASE CommitOffset(Head(batch))
    <3>1. Head(batch) \in Inbound
      BY <2>1, HeadFirst DEF IInv, DeliveryInv, LoopOK
    <3>2. Head(batch).partition \in Partitions /\ Head(batch).offset + 1 \in Nat
      BY <3>1, BusAssumption DEF Inbound, Offsets
    <3>3. QED
      BY <2>1, <2>2, <3>2, PromiseCommit DEF CommitOffset
  <2>3. CASE UNCHANGED committed
    BY <1>1, <2>1, <2>3
  <2>4. QED
    BY <1>2, <2>2, <2>3 DEF CommitSucceeds, CommitFails
<1>3. CASE Process /\ ~(CommitSucceeds \/ CommitFails)
  BY <1>1, <1>3 DEF Process, Boot, Start, StartRefused, StepBegin, PollReturns, ReloadKeeps,
       ReloadWithCard, ReloadWithoutCard, Accept, Handle, CommitUndelivered,
       SyncProduce, SyncFlush, SyncRaises, StartRaises
<1>4. CASE Rebalance
  BY <1>4, PromiseStart
<1>5. CASE Broker
  BY <1>5, PromiseBroker
<1>6. CASE (\E p \in Partitions : Fetch(p)) \/ OperatorEdits \/ Crash \/ UNCHANGED vars
  BY <1>1, <1>6 DEF Fetch, OperatorEdits, Crash, vars
<1>7. QED
  BY <1>2, <1>3, <1>4, <1>5, <1>6 DEF Next, Consumer

\* The runtime on its bus, with crashes, rebalances, other replicas, failed
\* deliveries, lost commits, reloads and pauses, is an at-least-once consumer.
THEOREM Refinement == Spec => ImplementsAtLeastOnce
<1>1. IInv /\ IInv' /\ [Next]_vars => [Promise!Next]_<<log, low, committed, Done>>
  BY PromiseStep
<1>2. QED
  BY <1>1, PromiseInit, DeliveryInit, DeliveryStep, PTL DEF Spec, ImplementsAtLeastOnce, Promise!Spec, Done
=============================================================================
