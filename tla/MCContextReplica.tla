-------------------------- MODULE MCContextReplica --------------------------
(***************************************************************************)
(* Stories that one replica lives through, each with few writers: rows     *)
(* that advance while one caller asks; the same for two callers that wait  *)
(* at a time; late signals while nobody asks; topics that stall behind     *)
(* markers. In all but the third, the replica may die or fail to scan.     *)
(***************************************************************************)
EXTENDS ContextReplica

CONSTANTS
  d1, c1, c2, s1, s2, s3,
  Caller   \* the one who asks in a story of one caller

VARIABLE story

Device(d, c, seq) == [device |-> d, row |-> [customer |-> c, seq |-> seq]]
Gone(d)           == [device |-> d, row |-> Absent]
Sig(id, time)     == [device |-> d1, id |-> id, time |-> time]

Topic(devices, custs, sigs) ==
  [t \in Topics |-> CASE t = "device.context"   -> devices
                      [] t = "customer.context" -> custs
                      [] OTHER                  -> sigs]

\* Signals that arrive late, twice, or without a time.
LateSignals ==
  Topic({}, {}, {Sig(id, time) : id \in {s1, s2, s3}, time \in 1 .. 2}
                  \cup {Sig(s1, NoTime), Sig(s2, NoTime)})

\* A device that moves between customers, advances or disappears, among records
\* that cannot be read and markers, and a customer that appears.
Advances ==
  Topic({Device(d1, c1, 1), Device(d1, c2, 2), Gone(d1), Unreadable, Control},
        {[customer |-> c1, row |-> TRUE]}, {})

\* A device whose sequence is cleared, among markers; a topic of markers only.
Stalls ==
  Topic({Device(d1, Nobody, NoSeq), Device(d1, Nobody, 2), Unreadable, Control}, {Control}, {})

Stories == {"serving", "waiting", "late", "stalled"}

WrittenIn(s) ==
  CASE s = "late"    -> LateSignals
    [] s = "stalled" -> Stalls
    [] OTHER         -> Advances

AllRecords == [t \in Topics |-> UNION {WrittenIn(s)[t] : s \in Stories}]

LogBound == CASE story = "late" -> MaxLog [] story = "waiting" -> 1 [] OTHER -> 2

Asking == CASE story = "late" -> {} [] story = "waiting" -> Callers [] OTHER -> {Caller}

Written ==
  \A t \in Topics : log'[t] # log[t] =>
    Last(log'[t]) \in WrittenIn(story)[t] /\ Len(log'[t]) <= LogBound

\* Only writers, callers and faults are held back, and none of them is fair.
Told ==
  /\ Next /\ Written /\ UNCHANGED story
  /\ \A c \in Callers \ Asking : UNCHANGED lookup[c]
  /\ story = "late" => UNCHANGED faults

StoryInit == Init /\ story \in Stories

StorySpec == StoryInit /\ [][Told]_<<vars, story>> /\ Fairness
=============================================================================
