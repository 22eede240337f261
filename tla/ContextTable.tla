---------------------------- MODULE ContextTable ----------------------------
(***************************************************************************)
(* ContextTable (device-trust-mesh/dtm/mesh/context/table.py): the latest  *)
(* row of every device and customer, the index from customers to devices,  *)
(* a window of risk signals per device, and lookups that wait for a        *)
(* context sequence.  One condition guards it all, so each operator below  *)
(* is one critical section; a lookup holds the lock except while it waits. *)
(*                                                                         *)
(* Of a row only the fields the table looks at are kept: a device's        *)
(* customer and context sequence, and of a customer that it has a row.     *)
(***************************************************************************)
EXTENDS Integers, SequencesExt

CONSTANTS
  Devices, Customers, SignalIds,
  SIGNALS_PER_DEVICE,  \* how many signals a device's window holds
  Callers,             \* worker threads that serve lookups
  Absent,              \* no row; the value of a tombstone
  Nobody,              \* a device without a customer_id
  NoSeq,               \* a device without a context_seq; a lookup without min_seq
  NoTime               \* a signal without an event_time

ASSUME TableAssumption ==
  /\ SIGNALS_PER_DEVICE \in Nat \ {0}
  /\ Nobody \notin Customers
  /\ NoSeq \notin Int /\ NoTime \notin Int

Topics == {"device.context", "customer.context", "device.risk-signals"}

DeviceRow == [customer : Customers \cup {Nobody}, seq : Nat \cup {NoSeq}]

ASSUME AbsentAssumption == Absent \notin DeviceRow

DeviceRecord   == [device : Devices, row : DeviceRow \cup {Absent}]
CustomerRecord == [customer : Customers, row : BOOLEAN]
SignalRecord   == [device : Devices, id : SignalIds, time : Nat \cup {NoTime}]
Signal         == [id : SignalIds, time : Nat]

VARIABLES
  rows,       \* _devices
  index,      \* _devices_by_customer; a customer without an entry has {}
  customers,  \* _customers: the customers that have a row
  signals,    \* _signals
  signalIds,  \* _signal_ids
  offsets,    \* _offsets, -1 before the first
  lookup,     \* per caller: the get_device call it is in
  answer      \* history: per caller, the last result its client returned

tableVars == <<rows, index, customers, signals, signalIds, offsets>>

NoAnswer == [status |-> "none"]
Idle     == [state |-> "idle"]

TableTypeOK ==
  /\ rows \in [Devices -> DeviceRow \cup {Absent}]
  /\ index \in [Customers -> SUBSET Devices]
  /\ customers \subseteq Customers
  /\ signals \in [Devices -> Seq(Signal)]
  /\ signalIds \in [Devices -> SUBSET SignalIds]
  /\ offsets \in [Topics -> Nat \cup {-1}]

NoRows      == [d \in Devices |-> Absent]
NoIndex     == [c \in Customers |-> {}]
NoSignals   == [d \in Devices |-> <<>>]
NoSignalIds == [d \in Devices |-> {}]
NoOffsets   == [t \in Topics |-> -1]

TableInit ==
  /\ rows = NoRows /\ index = NoIndex /\ customers = {}
  /\ signals = NoSignals /\ signalIds = NoSignalIds
  /\ offsets = NoOffsets

\* A new process has a new, empty table.
TableLost ==
  /\ rows' = NoRows /\ index' = NoIndex /\ customers' = {}
  /\ signals' = NoSignals /\ signalIds' = NoSignalIds
  /\ offsets' = NoOffsets

-----------------------------------------------------------------------------
(* apply *)

\* Mutant: a device that changes its customer stays under the old one.
StillIndexed(d) == index

\* The index without device d: it is listed under its row's customer only.
Unindexed(d) ==
  IF rows[d] # Absent /\ rows[d].customer # Nobody
    THEN [index EXCEPT ![rows[d].customer] = @ \ {d}]
    ELSE index

\* Mutant: a row with an older sequence does not replace a newer one.
ApplyDeviceIfNewer(d, row) ==
  /\ IF /\ row # Absent /\ rows[d] # Absent
        /\ row.seq # NoSeq /\ rows[d].seq # NoSeq /\ row.seq < rows[d].seq
       THEN UNCHANGED <<rows, index>>
       ELSE /\ rows' = [rows EXCEPT ![d] = row]
            /\ index' = IF row # Absent /\ row.customer # Nobody
                          THEN [Unindexed(d) EXCEPT ![row.customer] = @ \cup {d}]
                          ELSE Unindexed(d)
  /\ UNCHANGED <<customers, signals, signalIds>>

ApplyDevice(d, row) ==
  /\ rows' = [rows EXCEPT ![d] = row]
  /\ index' = IF row # Absent /\ row.customer # Nobody
                THEN [Unindexed(d) EXCEPT ![row.customer] = @ \cup {d}]
                ELSE Unindexed(d)
  /\ UNCHANGED <<customers, signals, signalIds>>

ApplyCustomer(r) ==
  /\ customers' = IF r.row THEN customers \cup {r.customer} ELSE customers \ {r.customer}
  /\ UNCHANGED <<rows, index, signals, signalIds>>

\* bisect_right on the window, which is in order of event_time.
BisectRight(w, time) == Cardinality({i \in DOMAIN w : w[i].time <= time})

\* Mutant: a full window drops its oldest for any new signal.
InsertedAlways(w, s) ==
  LET position == BisectRight(w, s.time)
  IN IF Len(w) < SIGNALS_PER_DEVICE THEN InsertAt(w, position + 1, s)
     ELSE InsertAt(Tail(w), IF position = 0 THEN 1 ELSE position, s)

\* The window with a new signal: a full one drops its oldest, unless the new
\* signal is older still.
Inserted(w, s) ==
  LET position == BisectRight(w, s.time)
  IN IF Len(w) < SIGNALS_PER_DEVICE THEN InsertAt(w, position + 1, s)
     ELSE IF position = 0 THEN w
     ELSE InsertAt(Tail(w), position, s)

\* A signal id is remembered even when the window has no place for it.
ApplySignal(r) ==
  /\ IF r.id \in signalIds[r.device]
       THEN UNCHANGED <<signals, signalIds>>
       ELSE /\ signalIds' = [signalIds EXCEPT ![r.device] = @ \cup {r.id}]
            /\ signals' = [signals EXCEPT
                             ![r.device] = Inserted(@, [id |-> r.id, time |-> r.time])]
  /\ UNCHANGED <<rows, index, customers>>

\* Mutant: only the first of the waiting lookups is woken.
NotifyOne ==
  IF \A c \in Callers : lookup[c].state # "waiting" THEN lookup' = lookup
  ELSE LET c == CHOOSE c \in Callers : lookup[c].state = "waiting"
       IN lookup' = [lookup EXCEPT ![c].state = "notified"]

\* notify_all: every waiting lookup will re-evaluate its condition.
NotifyAll ==
  lookup' = [c \in Callers |-> IF lookup[c].state = "waiting"
                                 THEN [lookup[c] EXCEPT !.state = "notified"]
                                 ELSE lookup[c]]

\* Mutant: a tombstone returns early, before its offset is recorded.
ApplyReturningEarly(t, offset, r) ==
  /\ CASE t = "device.context"   -> ApplyDevice(r.device, r.row)
       [] t = "customer.context" -> ApplyCustomer(r)
       [] OTHER                  -> ApplySignal(r)
  /\ offsets' = IF t = "device.context" /\ r.row = Absent THEN offsets
                                                         ELSE [offsets EXCEPT ![t] = offset]
  /\ NotifyAll

\* apply() of a record, at its offset, that it accepts.
Apply(t, offset, r) ==
  /\ CASE t = "device.context"   -> ApplyDevice(r.device, r.row)
       [] t = "customer.context" -> ApplyCustomer(r)
       [] OTHER                  -> ApplySignal(r)
  /\ offsets' = [offsets EXCEPT ![t] = offset]
  /\ NotifyAll

-----------------------------------------------------------------------------
(* get_device *)

Satisfies(d, seq) == rows[d] # Absent /\ rows[d].seq # NoSeq /\ rows[d].seq >= seq

Status(d, min) ==
  CASE rows[d] = Absent                        -> IF min = NoSeq THEN "NOT_FOUND" ELSE "STALE"
    [] min # NoSeq /\ ~Satisfies(d, min)       -> "STALE"
    [] rows[d] # Absent /\ (min = NoSeq \/ Satisfies(d, min)) -> "OK"

\* The result is built in the critical section that decided the status.
Result(d, min) ==
  [status |-> Status(d, min), device |-> d, min |-> min, row |-> rows[d], offsets |-> offsets]

-----------------------------------------------------------------------------
(* The other reads, each one critical section *)

\* get_customer: a customer with a row, and the devices listed under it.
GetCustomer(c) ==
  IF c \in customers THEN [status |-> "OK", devices |-> index[c]] ELSE [status |-> "NOT_FOUND"]

\* list_devices, of a customer or, for Nobody, of all.
ListDevices(c) ==
  LET ids == IF c = Nobody THEN {d \in Devices : rows[d] # Absent} ELSE index[c]
  IN {[device |-> d, row |-> rows[d]] : d \in ids}

\* list_risk_signals: newest first.
ListRiskSignals(d, limit) ==
  LET w == signals[d]
  IN [k \in 1 .. (IF limit < Len(w) THEN limit ELSE Len(w)) |-> w[Len(w) + 1 - k]]
=============================================================================
