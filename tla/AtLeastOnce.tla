---------------------------- MODULE AtLeastOnce ----------------------------
(***************************************************************************)
(* What an agent promises about the records it consumes, whichever replica *)
(* handles them and however often: a consumer group goes through its log,  *)
(* and passes a record only when the record's work is done.                *)
(***************************************************************************)
EXTENDS Naturals, Sequences

CONSTANTS Partitions, None

VARIABLES
  log,        \* per partition, whether each record decodes
  low,        \* where the group started to read before its first commit
  committed,  \* the group's committed offset, or None
  done        \* records whose work is done

Handled(p, k) == log[p][k + 1] => [partition |-> p, offset |-> k] \in done

Init ==
  /\ log = [p \in Partitions |-> <<>>]
  /\ low = [p \in Partitions |-> 0]
  /\ committed \in [Partitions -> {None, 0}]
  /\ done = {}

Produce(p) ==
  /\ \E decodes \in BOOLEAN : log' = [log EXCEPT ![p] = Append(@, decodes)]
  /\ UNCHANGED <<low, committed, done>>

\* Work is done in any order, and is never undone.
Work ==
  /\ done \subseteq done'
  /\ UNCHANGED <<log, low, committed>>

\* Only a partition without a committed offset may be read from another place.
StartReading ==
  /\ \A p \in Partitions : low'[p] = low[p] \/ (committed[p] = None /\ low'[p] \in 0 .. Len(log[p]))
  /\ DOMAIN low' = Partitions
  /\ UNCHANGED <<log, committed, done>>

\* The group goes on, over records that are handled.
Commit(p) ==
  /\ \E k \in 0 .. Len(log[p]) :
       /\ committed[p] # None => k >= committed[p]
       /\ committed' = [committed EXCEPT ![p] = k]
       /\ \A i \in low[p] .. k - 1 : Handled(p, i)'
  /\ done \subseteq done'
  /\ UNCHANGED <<log, low>>

Next == \/ Work \/ StartReading
        \/ \E p \in Partitions : Produce(p) \/ Commit(p)

Spec == Init /\ [][Next]_<<log, low, committed, done>>
=============================================================================
