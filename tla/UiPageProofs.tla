---------------------------- MODULE UiPageProofs ----------------------------
(***************************************************************************)
(* What the pages of UiHub end with once everything under way has reached  *)
(* them, for every number of pages, devices, records and polls.            *)
(*                                                                         *)
(* The first part is about lists of deltas, and the list of all that the   *)
(* loop has yet to run; the second about device rows.  The third is about  *)
(* the feed and the flags: what is under way leads, delta by delta, from   *)
(* what the board had to what it has, leads every page there too, and      *)
(* leads back to it whoever has it all already, as a new page does, whose  *)
(* snapshot is ahead of the deltas still to come.                          *)
(***************************************************************************)
EXTENDS UiHubProofs, SequenceTheorems

-----------------------------------------------------------------------------
(* What a list of deltas leaves of a device's row *)

\* The deltas of s that carry a row of device d, the row of the last of them, and
\* what the row is after all of them.
RowDeltas(s, d) == {i \in 1 .. Len(s) : s[i].type = "device" /\ s[i].device = d}
LastRow(s, d) == s[CHOOSE i \in RowDeltas(s, d) : \A j \in RowDeltas(s, d) : j <= i].row
RowAfter(s, d, row) == IF RowDeltas(s, d) = {} THEN row ELSE LastRow(s, d)

LEMMA GreatestNat ==
  ASSUME NEW n \in Nat, NEW S \in SUBSET (1 .. n), S # {}
  PROVE  \E i \in S : \A j \in S : j <= i
<1> DEFINE T == {n - i : i \in S}
<1>1. T \in SUBSET Nat /\ T # {}
  <2>1. \A i \in S : n - i \in Nat
    OBVIOUS
  <2>2. QED
    BY <2>1
<1>2. PICK m \in T : \A k \in T : m <= k
  <2> HIDE DEF T
  <2>1. QED
    BY <1>1, LeastNat
<1>3. PICK i \in S : m = n - i
  BY <1>2
<1>4. \A j \in S : n - i <= n - j
  BY <1>2, <1>3
<1>5. QED
  BY <1>4

LEMMA LastRowIs ==
  ASSUME NEW s \in Seq(Delta), NEW d, NEW i \in RowDeltas(s, d), \A j \in RowDeltas(s, d) : j <= i
  PROVE  LastRow(s, d) = s[i].row
<1>1. \A j \in RowDeltas(s, d) : j \in Nat
  BY DEF RowDeltas
<1>2. \A k \in RowDeltas(s, d) : (\A j \in RowDeltas(s, d) : j <= k) => k = i
  BY <1>1
<1>3. QED
  BY <1>2 DEF LastRow

LEMMA LastRowExists ==
  ASSUME NEW s \in Seq(Delta), NEW d, RowDeltas(s, d) # {}
  PROVE  \E i \in RowDeltas(s, d) : LastRow(s, d) = s[i].row /\ \A j \in RowDeltas(s, d) : j <= i
<1>1. Len(s) \in Nat /\ RowDeltas(s, d) \in SUBSET (1 .. Len(s))
  BY DEF RowDeltas
<1>2. PICK i \in RowDeltas(s, d) : \A j \in RowDeltas(s, d) : j <= i
  BY <1>1, GreatestNat
<1>3. QED
  BY <1>2, LastRowIs

\* Of two lists the second decides, if it has a row of the device.
LEMMA RowJoin ==
  ASSUME NEW s \in Seq(Delta), NEW t \in Seq(Delta), NEW d
  PROVE  /\ RowDeltas(s \o t, d) = {} <=> RowDeltas(s, d) = {} /\ RowDeltas(t, d) = {}
         /\ RowDeltas(t, d) # {} => LastRow(s \o t, d) = LastRow(t, d)
         /\ RowDeltas(t, d) = {} /\ RowDeltas(s, d) # {} => LastRow(s \o t, d) = LastRow(s, d)
<1>1. /\ s \o t \in Seq(Delta) /\ Len(s \o t) = Len(s) + Len(t) /\ Len(s) \in Nat /\ Len(t) \in Nat
      /\ \A i \in 1 .. Len(s) : (s \o t)[i] = s[i]
      /\ \A i \in 1 .. Len(t) : (s \o t)[Len(s) + i] = t[i]
  OBVIOUS
<1> DEFINE u == s \o t
           m == Len(s)
           n == Len(t)
<1>0. u \in Seq(Delta)
  OBVIOUS
<1> HIDE DEF u
<1>2. RowDeltas(s, d) \subseteq RowDeltas(u, d) /\ RowDeltas(s, d) \subseteq 1 .. m
  BY <1>1 DEF RowDeltas, u
<1>3. \A i \in RowDeltas(t, d) : m + i \in RowDeltas(u, d) /\ i \in 1 .. n
  BY <1>1 DEF RowDeltas, u
<1>4. ASSUME NEW i \in RowDeltas(u, d)
      PROVE  i \in RowDeltas(s, d) \/ (i > m /\ i - m \in RowDeltas(t, d)) 
  <2>1. i \in 1 .. m + n /\ u[i].type = "device" /\ u[i].device = d
    BY <1>1 DEF RowDeltas, u
  <2>2. CASE i <= m
    <3>1. i \in 1 .. m /\ u[i] = s[i]
      BY <1>1, <2>1, <2>2 DEF u
    <3>2. QED
      BY <2>1, <3>1 DEF RowDeltas
  <2>3. CASE ~(i <= m)
    <3>1. i - m \in 1 .. n /\ i = m + (i - m) /\ i > m
      BY <1>1, <2>1, <2>3
    <3>2. u[i] = t[i - m]
      BY <1>1, <3>1 DEF u
    <3>3. QED
      BY <2>1, <3>1, <3>2 DEF RowDeltas
  <2>4. QED
    BY <2>2, <2>3
<1>5. RowDeltas(u, d) = {} <=> RowDeltas(s, d) = {} /\ RowDeltas(t, d) = {}
  BY <1>2, <1>3, <1>4
<1>6. ASSUME RowDeltas(t, d) # {} PROVE LastRow(u, d) = LastRow(t, d)
  <2>1. PICK i \in RowDeltas(t, d) : LastRow(t, d) = t[i].row /\ \A j \in RowDeltas(t, d) : j <= i
    BY <1>6, LastRowExists
  <2>2. i \in 1 .. n /\ m + i \in RowDeltas(u, d) /\ u[m + i] = t[i]
    BY <1>1, <1>3 DEF u
  <2>3. \A j \in RowDeltas(t, d) : j \in Int
    BY <1>3
  <2>4. ASSUME NEW j \in RowDeltas(u, d) PROVE j <= m + i
    <3>1. CASE j \in RowDeltas(s, d)
      BY <1>1, <1>2, <2>2, <3>1
    <3>2. CASE j > m /\ j - m \in RowDeltas(t, d)
      <4>1. j - m <= i /\ j - m \in 1 .. n /\ j \in Int
        BY <1>3, <2>1, <3>2 DEF RowDeltas
      <4>2. QED
        BY <1>1, <2>2, <4>1
    <3>3. QED
      BY <1>4, <3>1, <3>2
  <2>5. QED
    <3>1. LastRow(u, d) = u[m + i].row
      BY <1>0, <2>2, <2>4, LastRowIs
    <3>2. QED
      BY <2>1, <2>2, <3>1
<1>7. ASSUME RowDeltas(t, d) = {}, RowDeltas(s, d) # {} PROVE LastRow(u, d) = LastRow(s, d)
  <2>1. PICK i \in RowDeltas(s, d) : LastRow(s, d) = s[i].row /\ \A j \in RowDeltas(s, d) : j <= i
    BY <1>7, LastRowExists
  <2>2. i \in RowDeltas(u, d) /\ u[i] = s[i]
    BY <1>1, <1>2 DEF u
  <2>3. \A j \in RowDeltas(u, d) : j <= i
    BY <1>4, <1>7, <2>1
  <2>4. QED
    <3>1. LastRow(u, d) = u[i].row
      BY <1>0, <2>2, <2>3, LastRowIs
    <3>2. QED
      BY <2>1, <2>2, <3>1
<1>8. QED
  BY <1>5, <1>6, <1>7 DEF u

LEMMA RowAfterJoin ==
  ASSUME NEW s \in Seq(Delta), NEW t \in Seq(Delta), NEW d, NEW row
  PROVE  RowAfter(s \o t, d, row) = RowAfter(t, d, RowAfter(s, d, row))
BY RowJoin DEF RowAfter

LEMMA RowOfOne ==
  ASSUME NEW x \in Delta, NEW d
  PROVE  /\ <<x>> \in Seq(Delta)
         /\ x.type = "device" /\ x.device = d => RowDeltas(<<x>>, d) # {} /\ LastRow(<<x>>, d) = x.row
         /\ ~(x.type = "device" /\ x.device = d) => RowDeltas(<<x>>, d) = {}
<1>1. <<x>> \in Seq(Delta) /\ Len(<<x>>) = 1 /\ <<x>>[1] = x
  OBVIOUS
<1>2. ~(x.type = "device" /\ x.device = d) => RowDeltas(<<x>>, d) = {}
  BY <1>1 DEF RowDeltas
<1>3. ASSUME x.type = "device" /\ x.device = d
      PROVE  RowDeltas(<<x>>, d) # {} /\ LastRow(<<x>>, d) = x.row
  <2>1. 1 \in RowDeltas(<<x>>, d) /\ \A j \in RowDeltas(<<x>>, d) : j <= 1
    BY <1>1, <1>3 DEF RowDeltas
  <2>2. QED
    BY <1>1, <2>1, LastRowIs
<1>4. QED
  BY <1>1, <1>2, <1>3

LEMMA NoRows ==
  ASSUME NEW d
  PROVE  RowDeltas(<<>>, d) = {}
BY DEF RowDeltas

\* What a delta, and a list of them, does to the row of a page.
LEMMA AppliedRow ==
  ASSUME NEW v \in View, NEW x \in Delta, NEW d \in Devices
  PROVE  Applied(v, x).rows[d] = RowAfter(<<x>>, d, v.rows[d])
<1>1. v.rows \in [Devices -> Row \cup {NotListed}]
  BY DEF View
<1>2. CASE x.type = "device"
  <2>1. Applied(v, x) = [v EXCEPT !.rows[x.device] = x.row] /\ x.device \in Devices
    BY <1>2, AppliedFields, DeltaKinds
  <2>2. Applied(v, x).rows[d] = IF x.device = d THEN x.row ELSE v.rows[d]
    BY <1>1, <2>1 DEF View
  <2>3. QED
    BY <1>2, <2>2, RowOfOne DEF RowAfter
<1>3. CASE x.type # "device"
  <2>1. Applied(v, x).rows = v.rows
    <3>1. ASSUME NEW f PROVE [v EXCEPT !.feed = f].rows = v.rows
      BY DEF View
    <3>2. CASE x.type = "stale"
      <4>1. [v EXCEPT !.stale[x.source] = x.flag].rows = v.rows
        BY DEF View
      <4>2. QED
        BY <3>2, <4>1, AppliedFields
    <3>3. CASE x.type = "message"
      <4> DEFINE f == IF \E e \in Range(v.feed) : e.at = x.entry.at THEN v.feed
                      ELSE Pushed(v.feed, x.entry, FeedLimit)
      <4>1. Applied(v, x) = [v EXCEPT !.feed = f]
        BY <3>3, AppliedFields
      <4> HIDE DEF f
      <4>2. QED
        BY <3>1, <4>1
    <3>4. CASE x.type = "target"
      <4>1. Applied(v, x) = [v EXCEPT !.feed = Targeted(v.feed, {x.at})]
        BY <3>4, AppliedFields
      <4>2. QED
        BY <3>1, <4>1
    <3>5. QED
      BY <1>3, <3>2, <3>3, <3>4, DeltaKinds
  <2>2. QED
    BY <1>3, <2>1, RowOfOne DEF RowAfter
<1>4. QED
  BY <1>2, <1>3

LEMMA AppliedAllRow ==
  ASSUME NEW v \in View, NEW s \in Seq(Delta), NEW d \in Devices
  PROVE  AppliedAll(v, s).rows[d] = RowAfter(s, d, v.rows[d])
<1>1. PICK f : IsRun(f, v, s)
  BY RunExists
<1>2. /\ f \in [0 .. Len(s) -> View] /\ f[0] = v /\ Len(s) \in Nat
      /\ \A i \in 1 .. Len(s) : f[i] = Applied(f[i - 1], s[i])
  BY <1>1 DEF IsRun
<1> DEFINE n == Len(s)
           After(k) == RowAfter(SubSeq(s, 1, k), d, v.rows[d])
           G == {k \in 0 .. n : f[k].rows[d] = After(k)}
<1>3. 0 \in G
  <2>1. SubSeq(s, 1, 0) = <<>>
    OBVIOUS
  <2>2. f[0].rows[d] = RowAfter(SubSeq(s, 1, 0), d, v.rows[d])
    BY <1>2, <2>1, NoRows DEF RowAfter
  <2>3. 0 \in 0 .. n
    BY <1>2
  <2> HIDE DEF n
  <2>4. QED
    BY <2>2, <2>3
<1>4. ASSUME NEW k \in 1 .. n, k - 1 \in G PROVE k \in G
  <2>1. /\ s[k] \in Delta /\ SubSeq(s, 1, k - 1) \in Seq(Delta) /\ f[k - 1] \in View /\ <<s[k]>> \in Seq(Delta)
        /\ k - 1 \in 0 .. n
    BY <1>2
  <2>2. SubSeq(s, 1, k) = SubSeq(s, 1, k - 1) \o <<s[k]>>
    OBVIOUS
  <2>3. f[k].rows[d] = RowAfter(<<s[k]>>, d, f[k - 1].rows[d])
    BY <1>2, <2>1, AppliedRow
  <2>4. f[k - 1].rows[d] = After(k - 1)
    BY <1>4
  <2>5. After(k) = RowAfter(<<s[k]>>, d, After(k - 1))
    <3> DEFINE t == SubSeq(s, 1, k - 1)
               u == <<s[k]>>
    <3>1. t \in Seq(Delta) /\ u \in Seq(Delta)
      BY <2>1
    <3> HIDE DEF t, u
    <3>2. RowAfter(t \o u, d, v.rows[d]) = RowAfter(u, d, RowAfter(t, d, v.rows[d]))
      BY <3>1, RowAfterJoin
    <3>3. QED
      BY <2>2, <3>2 DEF t, u
  <2>6. k \in 0 .. n
    BY <1>2
  <2>7. QED
    BY <2>3, <2>4, <2>5, <2>6
<1>5. n \in G
  <2>1. n \in Nat /\ G \in SUBSET (0 .. n)
    BY <1>2
  <2> HIDE DEF G, n
  <2>2. QED
    BY <1>3, <1>4, <2>1, Induct
<1>6. SubSeq(s, 1, Len(s)) = s
  OBVIOUS
<1>7. QED
  BY <1>1, <1>5, <1>6, RunResult

-----------------------------------------------------------------------------
(* The callbacks on the loop, as one list *)

Deltas == Seq(Delta)

LEMMA DeltasJoin ==
  /\ << >> \in Deltas
  /\ \A s, t \in Deltas : s \o t \in Deltas
  /\ \A s \in Deltas : s \o << >> = s /\ << >> \o s = s
  /\ \A s, t, u \in Deltas : (s \o t) \o u = s \o (t \o u)
<1>1. << >> \in Deltas /\ \A s, t \in Deltas : s \o t \in Deltas
  BY DEF Deltas
<1>2. \A s \in Deltas : s \o << >> = s /\ << >> \o s = s
  BY ConcatEmptySeq DEF Deltas
<1>3. \A s, t, u \in Deltas : (s \o t) \o u = s \o (t \o u)
  BY ConcatAssociative DEF Deltas
<1>4. QED
  BY <1>1, <1>2, <1>3

\* The lists that the queue leads through.
IsFlat(f, q) ==
  /\ f \in [0 .. Len(q) -> Deltas] /\ f[0] = << >>
  /\ \A i \in 1 .. Len(q) : f[i] = f[i - 1] \o q[i]

LEMMA QueueElements ==
  ASSUME NEW q \in Seq(Deltas)
  PROVE  Len(q) \in Nat /\ \A i \in 1 .. Len(q) : q[i] \in Deltas
OBVIOUS

LEMMA DeltasRecursion ==
  ASSUME NEW n \in Nat, NEW v \in Deltas, NEW step \in [(1 .. n) \X Deltas -> Deltas]
  PROVE  \E f \in [0 .. n -> Deltas] : f[0] = v /\ \A i \in 1 .. n : f[i] = step[<<i, f[i - 1]>>]
<1>1. \A D : D = Deltas =>
        \E f \in [0 .. n -> D] : f[0] = v /\ \A i \in 1 .. n : f[i] = step[<<i, f[i - 1]>>]
  <2> TAKE D
  <2> HAVE D = Deltas
  <2>1. v \in D /\ step \in [(1 .. n) \X D -> D]
    OBVIOUS
  <2>2. QED
    BY <2>1, Recursion
<1>2. QED
  BY <1>1

LEMMA FlatExists ==
  ASSUME NEW q \in Seq(Deltas)
  PROVE  \E f : IsFlat(f, q)
<1> DEFINE n == Len(q)
           none == << >>
           step == [x \in (1 .. n) \X Deltas |-> x[2] \o q[x[1]]]
<1>1. n \in Nat /\ none \in Deltas /\ \A i \in 1 .. n : q[i] \in Deltas
  BY QueueElements, DeltasJoin
<1>2. step \in [(1 .. n) \X Deltas -> Deltas]
  BY <1>1, DeltasJoin
<1>3. \A i \in 1 .. n, w \in Deltas : step[<<i, w>>] = w \o q[i]
  OBVIOUS
<1> HIDE DEF step, n, none
<1>4. PICK f \in [0 .. n -> Deltas] : f[0] = none /\ \A i \in 1 .. n : f[i] = step[<<i, f[i - 1]>>]
  BY <1>1, <1>2, DeltasRecursion
<1>5. \A i \in 1 .. n : f[i] = f[i - 1] \o q[i]
  <2> TAKE i \in 1 .. n
  <2>1. i - 1 \in 0 .. n
    BY <1>1
  <2>2. f[i - 1] \in Deltas
    BY <1>4, <2>1
  <2>3. QED
    BY <1>3, <1>4, <2>2
<1>6. IsFlat(f, q)
  BY <1>4, <1>5 DEF IsFlat, n, none
<1>7. QED
  BY <1>6

LEMMA FlatResult ==
  ASSUME NEW q \in Seq(Deltas), NEW f, IsFlat(f, q)
  PROVE  FlattenSeq(q) = f[Len(q)] /\ FlattenSeq(q) \in Deltas
<1> DEFINE n == Len(q)
<1>1. n \in Nat /\ \A i \in 1 .. n : q[i] \in Deltas
  BY QueueElements
<1>2. /\ f \in [0 .. n -> Deltas] /\ f[0] = << >>
      /\ \A i \in 1 .. n : f[i] = f[i - 1] \o q[i]
  BY DEF IsFlat
<1>3. f[n] \in Deltas
  BY <1>1, <1>2
<1>4. CASE n = 0
  <2>1. q = << >> /\ FlattenSeq(q) = q
    BY <1>4 DEF FlattenSeq
  <2>2. QED
    BY <1>2, <1>3, <1>4, <2>1
<1>5. CASE n # 0
  <2> DEFINE h == [i \in 1 .. n |-> f[i]]
             Is(k) == k = [i \in 1 .. n |-> IF i = 1 THEN q[i] ELSE k[i - 1] \o q[i]]
             g == CHOOSE k : Is(k)
  <2>1. FlattenSeq(q) = g[n]
    BY <1>5 DEF FlattenSeq
  <2>2. Is(h)
    <3>1. ASSUME NEW i \in 1 .. n
          PROVE  f[i] = IF i = 1 THEN q[i] ELSE h[i - 1] \o q[i]
      <4>1. CASE i = 1
        <5>1. i - 1 = 0
          BY <4>1
        <5>2. f[i] = f[0] \o q[i] /\ q[i] \in Deltas
          BY <1>1, <1>2, <5>1
        <5>3. QED
          BY <1>2, <4>1, <5>2, DeltasJoin
      <4>2. CASE i # 1
        <5>1. i - 1 \in 1 .. n
          BY <1>1, <4>2
        <5>2. QED
          BY <1>2, <4>2, <5>1
      <4>3. QED
        BY <4>1, <4>2
    <3>2. QED
      BY <3>1
  <2>3. Is(g)
    <3> HIDE DEF h, Is
    <3>1. QED
      BY <2>2
  <2> HIDE DEF g
  <2> DEFINE G == {0} \cup {i \in 1 .. n : g[i] = f[i]}
  <2>4. ASSUME NEW i \in 1 .. n, i - 1 \in G PROVE g[i] = f[i]
    <3>1. CASE i = 1
      <4>1. g[i] = q[i] /\ f[i] = f[0] \o q[i] /\ q[i] \in Deltas
        BY <1>1, <1>2, <2>3, <3>1
      <4>2. QED
        BY <1>2, <4>1, DeltasJoin
    <3>2. CASE i # 1
      <4>1. i - 1 \in 1 .. n
        BY <1>1, <3>2
      <4>2. g[i] = g[i - 1] \o q[i]
        BY <2>3, <3>2
      <4>3. g[i - 1] = f[i - 1]
        BY <2>4, <4>1
      <4>4. QED
        BY <1>2, <4>2, <4>3
    <3>3. QED
      BY <3>1, <3>2
  <2>5. \A i \in 1 .. n : i - 1 \in G => i \in G
    BY <2>4
  <2>6. n \in Nat /\ G \in SUBSET (0 .. n) /\ 0 \in G /\ n \in 0 .. n
    BY <1>1
  <2> HIDE DEF G, n
  <2>7. n \in G
    BY <2>5, <2>6, Induct
  <2>8. g[n] = f[n]
    BY <1>5, <2>7 DEF G
  <2>9. QED
    BY <1>3, <2>1, <2>8 DEF n
<1>6. QED
  BY <1>4, <1>5

LEMMA FlatType ==
  ASSUME NEW q \in Seq(Deltas)
  PROVE  FlattenSeq(q) \in Deltas
BY FlatExists, FlatResult

LEMMA FlatNone == FlattenSeq(<< >>) = << >>
BY DEF FlattenSeq

LEMMA FlatAppend ==
  ASSUME NEW q \in Seq(Deltas), NEW s \in Deltas
  PROVE  FlattenSeq(Append(q, s)) = FlattenSeq(q) \o s
<1> DEFINE n == Len(q)
           r == Append(q, s)
<1>1. /\ n \in Nat /\ r \in Seq(Deltas) /\ Len(r) = n + 1 /\ r[n + 1] = s
      /\ \A i \in 1 .. n : r[i] = q[i]
  OBVIOUS
<1>2. PICK f : IsFlat(f, q)
  BY FlatExists
<1>3. /\ f \in [0 .. n -> Deltas] /\ f[0] = << >>
      /\ \A i \in 1 .. n : f[i] = f[i - 1] \o q[i]
  BY <1>2 DEF IsFlat
<1> DEFINE t == f[n] \o s
           g == [i \in 0 .. n + 1 |-> IF i = n + 1 THEN t ELSE f[i]]
<1>4. t \in Deltas
  <2>1. f[n] \in Deltas
    BY <1>1, <1>3
  <2>2. QED
    BY <2>1, DeltasJoin
<1> HIDE DEF r, t, n
<1>5. ASSUME NEW i \in 0 .. n
      PROVE  f[i] \in Deltas /\ g[i] = f[i]
  BY <1>1, <1>3
<1>6. g \in [0 .. n + 1 -> Deltas] /\ g[0] = << >> /\ g[n + 1] = t
  <2>1. \A i \in 0 .. n + 1 : i # n + 1 => f[i] \in Deltas
    <3>1. \A i \in 0 .. n + 1 : i # n + 1 => i \in 0 .. n
      BY <1>1
    <3>2. QED
      BY <1>5, <3>1
  <2>2. 0 \in 0 .. n /\ n + 1 \in 0 .. n + 1
    BY <1>1
  <2>3. g[0] = << >> /\ g[n + 1] = t
    BY <1>3, <1>5, <2>2
  <2>4. QED
    BY <1>4, <2>1, <2>3
<1> HIDE DEF g
<1>7. ASSUME NEW i \in 1 .. n + 1 PROVE g[i] = g[i - 1] \o r[i]
  <2>1. CASE i = n + 1
    <3>1. i - 1 = n /\ n \in 0 .. n
      BY <1>1, <2>1
    <3>2. QED
      BY <1>1, <1>5, <1>6, <2>1, <3>1 DEF t
  <2>2. CASE i # n + 1
    <3>1. i \in 1 .. n /\ i \in 0 .. n /\ i - 1 \in 0 .. n
      BY <1>1, <2>2
    <3>2. g[i] = f[i] /\ g[i - 1] = f[i - 1] /\ r[i] = q[i]
      BY <1>1, <1>5, <3>1
    <3>3. QED
      BY <1>3, <3>1, <3>2
  <2>3. QED
    BY <2>1, <2>2
<1>8. IsFlat(g, r)
  BY <1>1, <1>6, <1>7 DEF IsFlat
<1>9. FlattenSeq(r) = t
  BY <1>1, <1>6, <1>8, FlatResult
<1>10. FlattenSeq(q) = f[n]
  BY <1>2, FlatResult DEF n
<1>11. QED
  BY <1>9, <1>10 DEF r, t

LEMMA FlatTail ==
  ASSUME NEW q \in Seq(Deltas), q # << >>
  PROVE  FlattenSeq(q) = Head(q) \o FlattenSeq(Tail(q))
<1> DEFINE n == Len(q)
           h == Head(q)
           r == Tail(q)
<1>1. /\ n \in Nat \ {0} /\ h \in Deltas /\ h = q[1]
      /\ r \in Seq(Deltas) /\ Len(r) = n - 1 /\ \A i \in 1 .. n - 1 : r[i] = q[i + 1]
  OBVIOUS
<1>2. \A i \in 1 .. n : q[i] \in Deltas
  BY QueueElements
<1> HIDE DEF h, r, n
<1>3. PICK f : IsFlat(f, r)
  BY <1>1, FlatExists
<1>4. /\ f \in [0 .. n - 1 -> Deltas] /\ f[0] = << >>
      /\ \A i \in 1 .. n - 1 : f[i] = f[i - 1] \o r[i]
  BY <1>1, <1>3 DEF IsFlat
<1> DEFINE g == [i \in 0 .. n |-> IF i = 0 THEN << >> ELSE h \o f[i - 1]]
<1>5. ASSUME NEW i \in 1 .. n
      PROVE  /\ i - 1 \in 0 .. n - 1 /\ f[i - 1] \in Deltas
             /\ g[i] = h \o f[i - 1] /\ g[i] \in Deltas
  <2>1. i - 1 \in 0 .. n - 1 /\ i \in 0 .. n /\ i # 0
    BY <1>1
  <2>2. f[i - 1] \in Deltas
    BY <1>4, <2>1
  <2>3. h \o f[i - 1] \in Deltas
    BY <1>1, <2>2, DeltasJoin
  <2>4. g[i] = h \o f[i - 1]
    BY <2>1
  <2>5. QED
    BY <2>1, <2>2, <2>3, <2>4
<1>6. g \in [0 .. n -> Deltas] /\ g[0] = << >> /\ g[n] = h \o f[n - 1]
  <2>1. 0 \in 0 .. n /\ n \in 1 .. n
    BY <1>1
  <2>2. g[0] = << >>
    BY <2>1
  <2>3. g = [i \in 0 .. n |-> g[i]]
    OBVIOUS
  <2> HIDE DEF g
  <2>4. ASSUME NEW i \in 0 .. n PROVE g[i] \in Deltas
    <3>1. CASE i = 0
      BY <2>2, <3>1, DeltasJoin
    <3>2. CASE i # 0
      <4>1. i \in 1 .. n
        BY <1>1, <3>2
      <4>2. QED
        BY <1>5, <4>1
    <3>3. QED
      BY <3>1, <3>2
  <2>5. g[n] = h \o f[n - 1]
    BY <1>5, <2>1
  <2>6. QED
    BY <2>2, <2>3, <2>4, <2>5
<1>7. ASSUME NEW i \in 1 .. n PROVE g[i] = g[i - 1] \o q[i]
  <2>1. CASE i = 1
    <3>1. i - 1 = 0
      BY <2>1
    <3> HIDE DEF g
    <3>2. g[i] = h \o << >>
      BY <1>4, <1>5, <3>1
    <3>3. g[i - 1] = << >> /\ q[i] = h
      BY <1>1, <1>6, <2>1, <3>1
    <3>4. QED
      BY <1>1, <3>2, <3>3, DeltasJoin
  <2>2. CASE i # 1
    <3>1. i - 1 \in 1 .. n /\ i - 1 \in 1 .. n - 1 /\ i - 2 \in 0 .. n - 1 /\ (i - 1) - 1 = i - 2
          /\ (i - 1) + 1 = i
      BY <1>1, <2>2
    <3>2. f[i - 1] = f[i - 2] \o q[i]
      BY <1>1, <1>4, <3>1
    <3>3. q[i] \in Deltas /\ f[i - 2] \in Deltas
      BY <1>2, <1>4, <3>1
    <3>4. g[i] = h \o (f[i - 2] \o q[i]) /\ g[i - 1] = h \o f[i - 2]
      BY <1>5, <3>1, <3>2
    <3> HIDE DEF g
    <3>5. h \o (f[i - 2] \o q[i]) = (h \o f[i - 2]) \o q[i]
      BY <1>1, <3>3, DeltasJoin
    <3>6. QED
      BY <3>4, <3>5
  <2>3. QED
    BY <2>1, <2>2
<1> HIDE DEF g
<1>8. IsFlat(g, q)
  BY <1>6, <1>7 DEF IsFlat, n
<1>9. FlattenSeq(q) = h \o f[n - 1]
  BY <1>6, <1>8, FlatResult DEF n
<1>10. FlattenSeq(r) = f[n - 1]
  BY <1>1, <1>3, FlatResult
<1>11. QED
  BY <1>9, <1>10 DEF h, r

-----------------------------------------------------------------------------
(* What the calls add to the rows under way *)

\* Two lists that leave the same of every device's row.
SameRow(s, t, d) ==
  /\ RowDeltas(s, d) = {} <=> RowDeltas(t, d) = {}
  /\ RowDeltas(s, d) # {} => LastRow(s, d) = LastRow(t, d)

LEMMA SameRowJoin ==
  ASSUME NEW s \in Seq(Delta), NEW t \in Seq(Delta), NEW d, RowDeltas(t, d) = {}
  PROVE  SameRow(s, s \o t, d) /\ SameRow(s, t \o s, d)
BY RowJoin DEF SameRow

LEMMA NoRowsOf ==
  ASSUME NEW s \in Seq(Delta), NEW d, \A x \in Range(s) : x.type # "device"
  PROVE  RowDeltas(s, d) = {}
<1>1. \A i \in 1 .. Len(s) : s[i] \in Range(s)
  BY DEF Range
<1>2. QED
  BY <1>1 DEF RowDeltas

LEMMA TaskRows ==
  ASSUME NEW b, GoodBoard(b), NEW task \in Tasks, NEW at \in Nat, NEW d
  PROVE  RowDeltas(TaskDeltas(b, task, at), d) = {}
<1> DEFINE m == [type |-> "message", entry |-> TaskEntry(task, at)]
           W == Waiting(Posted(b, TaskEntry(task, at)), task)
<1>1. PICK t \in Seq(Delta) :
        TaskDeltas(b, task, at) = <<m>> \o t /\ Range(t) = {[type |-> "target", at |-> w] : w \in W}
  BY TaskDeltasAre
<1>2. m \in Delta /\ m.type # "device"
  BY TaskEntryType, MessageType
<1>3. RowDeltas(<<m>>, d) = {} /\ <<m>> \in Seq(Delta)
  <2> HIDE DEF m
  <2>1. QED
    BY <1>2, RowOfOne
<1>4. RowDeltas(t, d) = {}
  <2>1. \A x \in Range(t) : x.type # "device"
    BY <1>1
  <2>2. QED
    BY <2>1, NoRowsOf
<1> HIDE DEF m
<1>5. QED
  BY <1>1, <1>3, <1>4, RowJoin

LEMMA ReplyRows ==
  ASSUME NEW b, NEW reply \in Replies, NEW cause, NEW at \in Nat, NEW d
  PROVE  RowDeltas(ReplyDeltas(b, reply, cause, at), d) = {}
<1> DEFINE m == [type |-> "message", entry |-> ReplyEntry(b, reply, cause, at)]
<1>1. m \in Delta /\ m.type # "device"
  BY ReplyEntryType, MessageType
<1>2. ReplyDeltas(b, reply, cause, at) = <<m>>
  BY DEF ReplyDeltas
<1> HIDE DEF m
<1>3. QED
  BY <1>1, <1>2, RowOfOne

LEMMA MarkRows ==
  ASSUME NEW b, GoodBoard(b), NEW source \in Sources, NEW flag \in BOOLEAN, NEW d
  PROVE  RowDeltas(MarkDeltas(b, source, flag), d) = {}
<1> DEFINE x == [type |-> "stale", source |-> source, flag |-> flag]
<1>1. x \in Delta /\ x.type # "device"
  BY StaleType
<1>2. MarkDeltas(b, source, flag) = <<>> \/ MarkDeltas(b, source, flag) = <<x>>
  BY DEF MarkDeltas
<1> HIDE DEF x
<1>3. QED
  BY <1>1, <1>2, RowOfOne, NoRows

LEMMA LatencyRows ==
  ASSUME NEW b, GoodBoard(b), NEW d \in Devices, NEW decided \in Nat
  PROVE  LET s == LatencyDeltas(b, d, decided) IN
         IF decided < b.decided[d] \/ b.rows[d] = NotListed THEN s = <<>>
         ELSE /\ \A e \in Devices : e # d => RowDeltas(s, e) = {}
              /\ RowDeltas(s, d) # {} /\ LastRow(s, d) = [seq |-> b.rows[d].seq, decided |-> decided]
<1>1. CASE decided < b.decided[d] \/ b.rows[d] = NotListed
  BY <1>1 DEF LatencyDeltas
<1>2. CASE ~(decided < b.decided[d] \/ b.rows[d] = NotListed)
  <2> DEFINE row == [seq |-> b.rows[d].seq, decided |-> decided]
             x == [type |-> "device", device |-> d, row |-> row]
  <2>1. ApplyLatency(b, d, decided).rows[d] = row
    BY <1>2, LatencyFields
  <2>2. row \in Row
    BY <1>2, RowsType DEF Row
  <2>3. LatencyDeltas(b, d, decided) = <<x>>
    BY <1>2, <2>1 DEF LatencyDeltas
  <2> HIDE DEF row
  <2>4. x \in Delta /\ x.type = "device" /\ x.device = d /\ x.row = row
    BY <2>2, DeviceType
  <2> HIDE DEF x
  <2>5. (\A e \in Devices : e # d => RowDeltas(<<x>>, e) = {})
        /\ RowDeltas(<<x>>, d) # {} /\ LastRow(<<x>>, d) = row
    BY <2>4, RowOfOne
  <2>6. QED
    BY <1>2, <2>3, <2>5 DEF row
<1>3. QED
  BY <1>1, <1>2

LEMMA PollRows ==
  ASSUME NEW b, GoodBoard(b), NEW listed \in Listings, NEW d \in Devices
  PROVE  LET s == DeviceDeltas(b, listed) IN
         /\ d \notin Changed(b, listed) => RowDeltas(s, d) = {}
         /\ d \in Changed(b, listed) => RowDeltas(s, d) # {} /\ LastRow(s, d) = Listed(b, d, listed[d])
<1> DEFINE s == DeviceDeltas(b, listed)
           C == Changed(b, listed)
           row(e) == ApplyDevices(b, listed).rows[e]
<1>1. s \in Seq(Delta) /\ Range(s) = {[type |-> "device", device |-> e, row |-> row(e)] : e \in C}
  BY DeviceDeltasType
<1>2. \A e \in C : e \in Devices /\ row(e) = Listed(b, e, listed[e])
  BY DevicesFields
<1> HIDE DEF s, C, row
<1>3. ASSUME NEW i \in 1 .. Len(s) PROVE \E e \in C : s[i].device = e /\ s[i].row = row(e) /\ s[i].type = "device"
  <2>1. s[i] \in Range(s)
    BY <1>1 DEF Range
  <2>2. QED
    BY <1>1, <2>1
<1>4. CASE d \notin C
  BY <1>3, <1>4 DEF RowDeltas, s, C
<1>5. CASE d \in C
  <2>1. [type |-> "device", device |-> d, row |-> row(d)] \in Range(s)
    BY <1>1, <1>5
  <2>2. PICK i \in 1 .. Len(s) : s[i] = [type |-> "device", device |-> d, row |-> row(d)]
    BY <1>1, <2>1 DEF Range
  <2>3. i \in RowDeltas(s, d)
    BY <2>2 DEF RowDeltas
  <2>4. PICK j \in RowDeltas(s, d) : LastRow(s, d) = s[j].row
    BY <1>1, <2>3, LastRowExists
  <2>5. s[j].row = row(d)
    BY <1>3, <2>4 DEF RowDeltas
  <2>6. QED
    BY <1>2, <1>5, <2>3, <2>4, <2>5 DEF s, C
<1>6. QED
  BY <1>4, <1>5 DEF s, C

-----------------------------------------------------------------------------
(* A page's rows lag at most one writer *)

\* A row that shows the newest of one of its writers.
Fresh(row, d) ==
  \/ row = board.rows[d]
  \/ /\ row # NotListed /\ board.rows[d] # NotListed
     /\ row.seq = board.rows[d].seq \/ row.decided = board.rows[d].decided

Threads ==
  /\ reader = "idle" => readerOut = <<>>
  /\ poller = "idle" => pollerOut = <<>>
  /\ ~bound => queue = <<>> /\ Subscribers = {}

DecidedKnown == \A d \in Devices : board.rows[d] # NotListed => board.rows[d].decided = board.decided[d]

\* The newest row that a thread has not published holds what that thread wrote.
ReaderRow(d) ==
  RowDeltas(readerOut, d) # {} =>
    board.rows[d] # NotListed /\ LastRow(readerOut, d).decided = board.rows[d].decided
PollerRow(d) ==
  RowDeltas(pollerOut, d) # {} =>
    board.rows[d] # NotListed /\ LastRow(pollerOut, d).seq = board.rows[d].seq

\* Once both threads have published, the newest row on its way is fresh, and so is
\* what a page that gets it shows.
Quiet(d) == RowDeltas(readerOut, d) = {} /\ RowDeltas(pollerOut, d) = {}
Queue == FlattenSeq(queue)
QueueRow(d) == Quiet(d) => Fresh(RowAfter(Queue, d, board.rows[d]), d)
PageRow(p, d) == Quiet(d) => Fresh(RowAfter(pending[p] \o Queue, d, view[p].rows[d]), d)

DeviceInv(d) ==
  /\ ReaderRow(d) /\ PollerRow(d) /\ QueueRow(d)
  /\ \A p \in Subscribers : ~overflowed[p] => PageRow(p, d)

RowsInv == Threads /\ DecidedKnown /\ \A d \in Devices : DeviceInv(d)

LEMMA UnderWay ==
  ASSUME TypeOK
  PROVE  /\ queue \in Seq(Deltas) /\ Queue \in Deltas
         /\ readerOut \in Deltas /\ pollerOut \in Deltas
         /\ \A p \in Pages : pending[p] \in Deltas /\ view[p] \in View
<1>1. queue \in Seq(Deltas) /\ readerOut \in Deltas /\ pollerOut \in Deltas
  BY DEF TypeOK, Deltas
<1>2. Queue \in Deltas
  BY <1>1, FlatType DEF Queue
<1>3. \A p \in Pages : pending[p] \in Deltas /\ view[p] \in View
  BY DEF TypeOK, Deltas
<1>4. QED
  BY <1>1, <1>2, <1>3

LEMMA RowsInit == Init => RowsInv
<1> SUFFICES ASSUME Init PROVE RowsInv
  OBVIOUS
<1>1. Threads
  BY DEF Init, Threads, Subscribers
<1>2. \A d \in Devices : board.rows[d] = NotListed
  BY DEF Init, EmptyBoard
<1>3. Subscribers = {} /\ queue = <<>> /\ readerOut = <<>> /\ pollerOut = <<>>
  BY DEF Init, Subscribers
<1>4. ASSUME NEW d \in Devices PROVE DeviceInv(d)
  <2>1. RowDeltas(readerOut, d) = {} /\ RowDeltas(pollerOut, d) = {} /\ RowDeltas(Queue, d) = {}
    BY <1>3, NoRows, FlatNone DEF Queue
  <2>2. QED
    BY <1>3, <2>1 DEF DeviceInv, ReaderRow, PollerRow, QueueRow, RowAfter, Fresh
<1>5. QED
  BY <1>1, <1>2, <1>4 DEF RowsInv, DecidedKnown

\* A step that leaves of a device what it was.
LEMMA RowStill ==
  ASSUME NEW d \in Devices, DeviceInv(d), board'.rows[d] = board.rows[d],
         SameRow(readerOut, readerOut', d), SameRow(pollerOut, pollerOut', d),
         UNCHANGED <<queue, page, pending, overflowed, view>>
  PROVE  DeviceInv(d)'
<1>1. Queue' = Queue /\ Subscribers' = Subscribers
  BY DEF Queue, Subscribers
<1>2. Quiet(d)' <=> Quiet(d)
  BY DEF Quiet, SameRow
<1>3. \A row : Fresh(row, d)' <=> Fresh(row, d)
  BY DEF Fresh
<1>4. ReaderRow(d)' /\ PollerRow(d)'
  BY DEF DeviceInv, ReaderRow, PollerRow, SameRow
<1>5. QueueRow(d)'
  BY <1>1, <1>2, <1>3 DEF DeviceInv, QueueRow
<1>6. ASSUME NEW p \in Subscribers', ~overflowed'[p] PROVE PageRow(p, d)'
  BY <1>1, <1>2, <1>3, <1>6 DEF DeviceInv, PageRow
<1>7. QED
  BY <1>4, <1>5, <1>6 DEF DeviceInv

LEMMA SameRowSelf ==
  ASSUME NEW s, NEW d
  PROVE  SameRow(s, s, d)
BY DEF SameRow

\* A step that changes no row of the board, and no list of rows under way.
LEMMA RowsStill ==
  ASSUME RowsInv, Threads', board'.rows = board.rows, DecidedKnown',
         \A d \in Devices : SameRow(readerOut, readerOut', d) /\ SameRow(pollerOut, pollerOut', d),
         UNCHANGED <<queue, page, pending, overflowed, view>>
  PROVE  RowsInv'
<1>1. ASSUME NEW d \in Devices PROVE DeviceInv(d)'
  BY RowStill DEF RowsInv
<1>2. QED
  BY <1>1 DEF RowsInv

LEMMA RowsReadMessage ==
  ASSUME TypeOK, RowsInv,
         \/ \E task \in Tasks : ReadTask(task)
         \/ \E reply \in Replies, cause \in Tasks : ReadReply(reply, cause)
  PROVE  RowsInv'
<1>1. GoodBoard(board) /\ records + 1 \in Nat /\ readerOut \in Seq(Delta)
  BY BoardGood DEF TypeOK
<1>2. PICK c, s : /\ ReaderAdds(c, s) /\ s \in Seq(Delta)
                  /\ c.rows = board.rows /\ c.decided = board.decided
                  /\ \A d \in Devices : RowDeltas(s, d) = {}
  <2>1. ASSUME NEW task \in Tasks, ReadTask(task)
        PROVE  \E c, s : /\ ReaderAdds(c, s) /\ s \in Seq(Delta)
                         /\ c.rows = board.rows /\ c.decided = board.decided
                         /\ \A d \in Devices : RowDeltas(s, d) = {}
    <3> DEFINE c == ApplyTask(board, task, records + 1)
               s == TaskDeltas(board, task, records + 1)
    <3>1. s \in Seq(Delta) /\ \A d \in Devices : RowDeltas(s, d) = {}
      BY <1>1, TaskDeltasType, TaskRows
    <3>2. c.rows = board.rows /\ c.decided = board.decided
      BY <1>1, ApplyTaskFields
    <3>3. ReaderAdds(c, s)
      BY <2>1 DEF ReadTask
    <3> HIDE DEF c, s
    <3>4. QED
      BY <3>1, <3>2, <3>3
  <2>2. ASSUME NEW reply \in Replies, NEW cause \in Tasks, ReadReply(reply, cause)
        PROVE  \E c, s : /\ ReaderAdds(c, s) /\ s \in Seq(Delta)
                         /\ c.rows = board.rows /\ c.decided = board.decided
                         /\ \A d \in Devices : RowDeltas(s, d) = {}
    <3> DEFINE c == ApplyReply(board, reply, cause, records + 1)
               s == ReplyDeltas(board, reply, cause, records + 1)
    <3>1. s \in Seq(Delta) /\ \A d \in Devices : RowDeltas(s, d) = {}
      BY <1>1, ReplyDeltasType, ReplyRows
    <3>2. c.rows = board.rows /\ c.decided = board.decided
      BY <1>1, ApplyReplyFields
    <3>3. ReaderAdds(c, s)
      BY <2>2 DEF ReadReply
    <3> HIDE DEF c, s
    <3>4. QED
      BY <3>1, <3>2, <3>3
  <2>3. QED
    BY <2>1, <2>2
<1>3. /\ reader' = "batch" /\ board' = c /\ readerOut' = readerOut \o s
      /\ UNCHANGED <<poller, pollerOut, bound, queue, page, pending, overflowed, view>>
  BY <1>2 DEF ReaderAdds, pollerVars, hubVars
<1>4. \A d \in Devices : SameRow(readerOut, readerOut', d) /\ SameRow(pollerOut, pollerOut', d)
  BY <1>1, <1>2, <1>3, SameRowJoin, SameRowSelf
<1>5. Threads' /\ DecidedKnown'
  BY <1>2, <1>3 DEF RowsInv, Threads, DecidedKnown, Subscribers
<1>6. QED
  BY <1>2, <1>3, <1>4, <1>5, RowsStill

LEMMA RowsReadLatency ==
  ASSUME TypeOK, RowsInv, NEW d \in Devices, NEW decided \in 1 .. MaxSeq, ReadLatency(d, decided)
  PROVE  RowsInv'
<1> DEFINE s == LatencyDeltas(board, d, decided)
           c == ApplyLatency(board, d, decided)
<1>1. GoodBoard(board) /\ readerOut \in Seq(Delta) /\ decided \in Nat
  BY BoardGood, HubAssumption DEF TypeOK
<1>2. s \in Seq(Delta)
  BY <1>1, LatencyDeltasType
<1>3. /\ reader' = "batch" /\ board' = c /\ readerOut' = readerOut \o s
      /\ UNCHANGED <<poller, pollerOut, bound, queue, page, pending, overflowed, view>>
  BY DEF ReadLatency, ReaderAdds, pollerVars, hubVars
<1>4. Threads'
  BY <1>3 DEF RowsInv, Threads, Subscribers
<1>5. /\ decided < board.decided[d] => c = board
      /\ ~(decided < board.decided[d]) =>
           \A e \in Devices :
             /\ c.decided[e] = IF e = d THEN decided ELSE board.decided[e]
             /\ c.rows[e] = IF e = d /\ board.rows[d] # NotListed
                             THEN [seq |-> board.rows[d].seq, decided |-> decided] ELSE board.rows[e]
  BY <1>1, LatencyFields
<1>6. IF decided < board.decided[d] \/ board.rows[d] = NotListed THEN s = <<>>
      ELSE /\ \A e \in Devices : e # d => RowDeltas(s, e) = {}
           /\ RowDeltas(s, d) # {} /\ LastRow(s, d) = [seq |-> board.rows[d].seq, decided |-> decided]
  BY <1>1, LatencyRows
<1> HIDE DEF s, c
<1>7. DecidedKnown'
  <2>1. CASE decided < board.decided[d]
    BY <1>3, <1>5, <2>1 DEF RowsInv, DecidedKnown
  <2>2. CASE ~(decided < board.decided[d])
    <3> SUFFICES ASSUME NEW e \in Devices, board'.rows[e] # NotListed
                 PROVE  board'.rows[e].decided = board'.decided[e]
      BY DEF DecidedKnown
    <3>1. CASE e = d
      <4>1. board.rows[d] # NotListed
        BY <1>3, <1>5, <2>2, <3>1
      <4>2. QED
        BY <1>3, <1>5, <2>2, <3>1, <4>1
    <3>2. CASE e # d
      BY <1>3, <1>5, <2>2, <3>2 DEF RowsInv, DecidedKnown
    <3>3. QED
      BY <3>1, <3>2
  <2>3. QED
    BY <2>1, <2>2
<1>8. ASSUME NEW e \in Devices PROVE DeviceInv(e)'
  <2>1. CASE decided < board.decided[d] \/ board.rows[d] = NotListed \/ e # d
    <3>1. RowDeltas(s, e) = {}
      BY <1>6, <2>1, NoRows
    <3>2. SameRow(readerOut, readerOut', e) /\ SameRow(pollerOut, pollerOut', e)
      BY <1>1, <1>2, <1>3, <3>1, SameRowJoin, SameRowSelf
    <3>3. board'.rows[e] = board.rows[e]
      BY <1>3, <1>5, <2>1
    <3>4. QED
      BY <1>3, <3>2, <3>3, RowStill DEF RowsInv
  <2>2. CASE ~(decided < board.decided[d] \/ board.rows[d] = NotListed \/ e # d)
    <3> DEFINE row == [seq |-> board.rows[d].seq, decided |-> decided]
    <3>1. e = d /\ board.rows[d] # NotListed /\ board'.rows[d] = row
      BY <1>3, <1>5, <2>2
    <3>2. row \in Row
      BY <1>1, <3>1, RowsType DEF Row
    <3>3. board'.rows[d] # NotListed /\ board'.rows[d].seq = board.rows[d].seq /\ board'.rows[d].decided = decided
      BY <3>1, <3>2, RowAssumption
    <3>4. RowDeltas(readerOut', d) # {} /\ LastRow(readerOut', d).decided = decided
      <4>1. RowDeltas(s, d) # {} /\ LastRow(s, d) = row
        BY <1>6, <2>2
      <4>2. QED
        <5>1. RowDeltas(readerOut \o s, d) # {} /\ LastRow(readerOut \o s, d) = LastRow(s, d)
          BY <1>1, <1>2, <4>1, RowJoin
        <5>2. LastRow(s, d).decided = decided
          BY <4>1
        <5>3. QED
          BY <1>3, <5>1, <5>2
    <3>5. ReaderRow(d)'
      BY <3>3, <3>4 DEF ReaderRow
    <3>6. PollerRow(d)'
      BY <1>3, <3>3 DEF RowsInv, DeviceInv, PollerRow
    <3>7. ~Quiet(d)'
      BY <3>4 DEF Quiet
    <3>8. QED
      BY <3>1, <3>5, <3>6, <3>7 DEF DeviceInv, QueueRow, PageRow
  <2>3. QED
    BY <2>1, <2>2
<1>9. QED
  BY <1>4, <1>7, <1>8 DEF RowsInv

\* The reader marks its source, or nothing.
LEMMA BatchMarks ==
  ASSUME TypeOK, Threads,
         \/ SkipRecord
         \/ \E failed, alone, due \in BOOLEAN : ReadBatch(failed, alone, due)
         \/ ReadFails
  PROVE  \E flag \in BOOLEAN :
           \/ board' = Marked(board, "kafka", flag) /\ readerOut' = readerOut \o MarkDeltas(board, "kafka", flag)
           \/ board' = board /\ readerOut' = readerOut
<1>0. GoodBoard(board) /\ readerOut \in Seq(Delta) /\ "kafka" \in Sources
  BY BoardGood DEF TypeOK, Sources
<1>1. CASE SkipRecord
  BY <1>1 DEF SkipRecord
<1>2. ASSUME NEW failed \in BOOLEAN, NEW alone \in BOOLEAN, NEW due \in BOOLEAN, ReadBatch(failed, alone, due)
      PROVE  \E flag \in BOOLEAN :
               \/ board' = Marked(board, "kafka", flag) /\ readerOut' = readerOut \o MarkDeltas(board, "kafka", flag)
               \/ board' = board /\ readerOut' = readerOut
  <2> DEFINE isDown == Lost(failed, alone)
             flag == ~Back(reader = "batch" /\ ~failed, probing /\ ~failed, due)
  <2>1. flag \in BOOLEAN
    OBVIOUS
  <2>2. /\ board' = IF isDown THEN Marked(board, "kafka", flag) ELSE board
        /\ readerOut' = IF isDown THEN readerOut \o MarkDeltas(board, "kafka", flag) ELSE readerOut
    BY <1>2 DEF ReadBatch
  <2> HIDE DEF isDown, flag
  <2>3. QED
    BY <2>1, <2>2
<1>3. CASE ReadFails
  <2>1. readerOut = <<>> /\ board' = Marked(board, "kafka", TRUE) /\ readerOut' = MarkDeltas(board, "kafka", TRUE)
    BY <1>3 DEF ReadFails, Threads
  <2>2. MarkDeltas(board, "kafka", TRUE) \in Seq(Delta)
    BY <1>0, MarkedFields
  <2>3. readerOut \o MarkDeltas(board, "kafka", TRUE) = MarkDeltas(board, "kafka", TRUE)
    BY <2>1, <2>2, ConcatEmptySeq
  <2>4. QED
    BY <2>1, <2>3
<1>4. QED
  BY <1>1, <1>2, <1>3

\* A batch ends: only flags change.
LEMMA RowsBatch ==
  ASSUME TypeOK, RowsInv,
         \/ SkipRecord
         \/ \E failed, alone, due \in BOOLEAN : ReadBatch(failed, alone, due)
         \/ ReadFails
  PROVE  RowsInv'
<1>1. GoodBoard(board) /\ readerOut \in Seq(Delta) /\ "kafka" \in Sources
  BY BoardGood DEF TypeOK, Sources
<1>2. PICK flag \in BOOLEAN :
        \/ board' = Marked(board, "kafka", flag) /\ readerOut' = readerOut \o MarkDeltas(board, "kafka", flag)
        \/ board' = board /\ readerOut' = readerOut
  BY BatchMarks DEF RowsInv
<1>3. /\ UNCHANGED <<poller, pollerOut, bound, queue, page, pending, overflowed, view>>
      /\ reader' = "idle" => readerOut' = <<>>
  BY DEF SkipRecord, ReadBatch, ReadFails, pollerVars, hubVars
<1>4. MarkDeltas(board, "kafka", flag) \in Seq(Delta) /\ \A d \in Devices : RowDeltas(MarkDeltas(board, "kafka", flag), d) = {}
  BY <1>1, MarkedFields, MarkRows
<1>5. board'.rows = board.rows /\ board'.decided = board.decided
  <2>1. /\ Marked(board, "kafka", flag).rows = board.rows
        /\ Marked(board, "kafka", flag).decided = board.decided
    BY <1>1, MarkedFields
  <2>2. QED
    BY <1>2, <2>1
<1>6. \A d \in Devices : SameRow(readerOut, readerOut', d) /\ SameRow(pollerOut, pollerOut', d)
  BY <1>1, <1>2, <1>3, <1>4, SameRowJoin, SameRowSelf
<1>7. Threads' /\ DecidedKnown'
  BY <1>3, <1>5 DEF RowsInv, Threads, DecidedKnown, Subscribers
<1>8. QED
  BY <1>3, <1>5, <1>6, <1>7, RowsStill

LEMMA RowsPoll ==
  ASSUME TypeOK, RowsInv, NEW listed \in Listings, Poll(listed)
  PROVE  RowsInv'
<1> DEFINE s == DeviceDeltas(board, listed)
           C == Changed(board, listed)
           c == ApplyDevices(board, listed)
<1>1. GoodBoard(board) /\ pollerOut \in Seq(Delta)
  BY BoardGood DEF TypeOK
<1>2. /\ poller = "idle" /\ poller' = "polled" /\ board' = c /\ pollerOut' = s
      /\ UNCHANGED <<reader, readerOut, bound, queue, page, pending, overflowed, view>>
  BY DEF Poll, readerVars, hubVars
<1>3. pollerOut = <<>>
  BY <1>2 DEF RowsInv, Threads
<1>4. Threads'
  BY <1>2 DEF RowsInv, Threads, Subscribers
<1>5. /\ c.decided = board.decided
      /\ \A d \in Devices : c.rows[d] = IF d \in C THEN Listed(board, d, listed[d]) ELSE board.rows[d]
      /\ \A d \in C : d \in Devices /\ Listed(board, d, listed[d]) \in Row
  BY <1>1, DevicesFields
<1>6. \A d \in Devices :
        /\ d \notin C => RowDeltas(s, d) = {}
        /\ d \in C => RowDeltas(s, d) # {} /\ LastRow(s, d) = Listed(board, d, listed[d])
  BY <1>1, PollRows
<1> HIDE DEF s, C, c
<1>7. DecidedKnown'
  <2> SUFFICES ASSUME NEW d \in Devices, board'.rows[d] # NotListed
               PROVE  board'.rows[d].decided = board'.decided[d]
    BY DEF DecidedKnown
  <2>1. CASE d \in C
    <3>1. Listed(board, d, listed[d]).decided = board.decided[d]
      BY DEF Listed
    <3>2. QED
      BY <1>2, <1>5, <2>1, <3>1
  <2>2. CASE d \notin C
    BY <1>2, <1>5, <2>2 DEF RowsInv, DecidedKnown
  <2>3. QED
    BY <2>1, <2>2
<1>8. ASSUME NEW d \in Devices PROVE DeviceInv(d)'
  <2>1. CASE d \notin C
    <3>1. SameRow(readerOut, readerOut', d)
      BY <1>2, SameRowSelf
    <3>2. SameRow(pollerOut, pollerOut', d)
      BY <1>2, <1>3, <1>6, <2>1, NoRows DEF SameRow
    <3>3. board'.rows[d] = board.rows[d]
      BY <1>2, <1>5, <2>1
    <3>4. QED
      BY <1>2, <3>1, <3>2, <3>3, RowStill DEF RowsInv
  <2>2. CASE d \in C
    <3> DEFINE row == Listed(board, d, listed[d])
    <3>1. board'.rows[d] = row /\ row \in Row /\ row.decided = board.decided[d]
      BY <1>2, <1>5, <2>2 DEF Listed
    <3>2. RowDeltas(pollerOut', d) # {} /\ LastRow(pollerOut', d) = row
      BY <1>2, <1>6, <2>2
    <3> HIDE DEF row
    <3>3. board'.rows[d] # NotListed
      BY <3>1, RowAssumption
    <3>4. ReaderRow(d)'
      <4>1. RowDeltas(readerOut, d) # {} => LastRow(readerOut, d).decided = board.decided[d]
        BY DEF RowsInv, DeviceInv, ReaderRow, DecidedKnown
      <4>2. QED
        BY <1>2, <3>1, <3>3, <4>1 DEF ReaderRow
    <3>5. PollerRow(d)'
      BY <3>1, <3>2, <3>3 DEF PollerRow
    <3>6. ~Quiet(d)'
      BY <3>2 DEF Quiet
    <3>7. QED
      BY <3>4, <3>5, <3>6 DEF DeviceInv, QueueRow, PageRow
  <2>3. QED
    BY <2>1, <2>2
<1>9. QED
  BY <1>4, <1>7, <1>8 DEF RowsInv

\* The poller marks its source.
LEMMA PollMarks ==
  ASSUME TypeOK, Threads, MarkFresh \/ PollFails
  PROVE  \E flag \in BOOLEAN :
           board' = Marked(board, "context", flag) /\ pollerOut' = MarkDeltas(board, "context", flag) \o pollerOut
<1>0. GoodBoard(board) /\ pollerOut \in Seq(Delta) /\ "context" \in Sources
  BY BoardGood DEF TypeOK, Sources
<1>1. CASE MarkFresh
  BY <1>1 DEF MarkFresh
<1>2. CASE PollFails
  <2>1. pollerOut = <<>> /\ board' = Marked(board, "context", TRUE) /\ pollerOut' = MarkDeltas(board, "context", TRUE)
    BY <1>2 DEF PollFails, Threads
  <2>2. MarkDeltas(board, "context", TRUE) \in Seq(Delta)
    BY <1>0, MarkedFields
  <2>3. MarkDeltas(board, "context", TRUE) \o pollerOut = MarkDeltas(board, "context", TRUE)
    BY <2>1, <2>2, ConcatEmptySeq
  <2>4. QED
    BY <2>1, <2>3
<1>3. QED
  BY <1>1, <1>2

LEMMA RowsMark ==
  ASSUME TypeOK, RowsInv, MarkFresh \/ PollFails
  PROVE  RowsInv'
<1>1. GoodBoard(board) /\ pollerOut \in Seq(Delta) /\ "context" \in Sources
  BY BoardGood DEF TypeOK, Sources
<1>2. PICK flag \in BOOLEAN :
        board' = Marked(board, "context", flag) /\ pollerOut' = MarkDeltas(board, "context", flag) \o pollerOut
  BY PollMarks DEF RowsInv
<1>3. /\ UNCHANGED <<reader, readerOut, bound, queue, page, pending, overflowed, view>>
      /\ poller' = "idle" => pollerOut' = <<>>
  BY DEF MarkFresh, PollFails, readerVars, hubVars
<1>4. MarkDeltas(board, "context", flag) \in Seq(Delta)
      /\ \A d \in Devices : RowDeltas(MarkDeltas(board, "context", flag), d) = {}
  BY <1>1, MarkedFields, MarkRows
<1>5. board'.rows = board.rows /\ board'.decided = board.decided
  <2>1. /\ Marked(board, "context", flag).rows = board.rows
        /\ Marked(board, "context", flag).decided = board.decided
    BY <1>1, MarkedFields
  <2>2. QED
    BY <1>2, <2>1
<1>6. \A d \in Devices : SameRow(readerOut, readerOut', d) /\ SameRow(pollerOut, pollerOut', d)
  BY <1>1, <1>2, <1>3, <1>4, SameRowJoin, SameRowSelf
<1>7. Threads' /\ DecidedKnown'
  BY <1>3, <1>5 DEF RowsInv, Threads, DecidedKnown, Subscribers
<1>8. QED
  BY <1>3, <1>5, <1>6, <1>7, RowsStill

\* A thread publishes what it has, which ends with a fresh row, or has none.
LEMMA RowPublished ==
  ASSUME TypeOK, RowsInv, NEW d \in Devices, NEW out \in Deltas, Publish(out),
         RowDeltas(out, d) # {} => Fresh(LastRow(out, d), d),
         RowDeltas(out, d) = {} /\ Quiet(d)' => Quiet(d),
         UNCHANGED <<board, bound, page, pending, overflowed, view>>
  PROVE  QueueRow(d)' /\ \A p \in Subscribers' : ~overflowed'[p] => PageRow(p, d)'
<1>1. /\ queue \in Seq(Deltas) /\ Queue \in Deltas
      /\ \A p \in Pages : pending[p] \in Deltas
  BY UnderWay
<1>2. Subscribers' = Subscribers /\ Subscribers \subseteq Pages
  BY DEF Subscribers
<1>3. \A row : Fresh(row, d)' <=> Fresh(row, d)
  BY DEF Fresh
<1>4. DeviceInv(d)
  BY DEF RowsInv
<1>5. CASE bound
  <2>1. Queue' = Queue \o out
    <3>1. queue' = Append(queue, out)
      BY <1>5 DEF Publish
    <3>2. QED
      BY <1>1, <3>1, FlatAppend DEF Queue
  <2>2. CASE RowDeltas(out, d) # {}
    <3>1. ASSUME NEW s \in Deltas, NEW row PROVE RowAfter(s \o out, d, row) = LastRow(out, d)
      BY <2>2, <3>1, RowJoin DEF RowAfter, Deltas
    <3>2. QueueRow(d)'
      BY <1>1, <1>3, <2>1, <2>2, <3>1 DEF QueueRow
    <3>3. ASSUME NEW p \in Subscribers' PROVE PageRow(p, d)'
      <4>1. pending[p] \in Deltas /\ pending'[p] = pending[p]
        BY <1>1, <1>2, <3>3
      <4>2. pending[p] \o (Queue \o out) = (pending[p] \o Queue) \o out /\ pending[p] \o Queue \in Deltas
        BY <1>1, <4>1, DeltasJoin
      <4>3. RowAfter(pending'[p] \o Queue', d, view'[p].rows[d]) = LastRow(out, d)
        BY <2>1, <3>1, <4>1, <4>2
      <4>4. QED
        BY <1>3, <2>2, <4>3 DEF PageRow
    <3>4. QED
      BY <3>2, <3>3
  <2>3. CASE RowDeltas(out, d) = {}
    <3>1. ASSUME NEW s \in Deltas, NEW row PROVE RowAfter(s \o out, d, row) = RowAfter(s, d, row)
      BY <2>3, <3>1, RowJoin DEF RowAfter, Deltas
    <3>2. QueueRow(d)'
      BY <1>1, <1>3, <1>4, <2>1, <2>3, <3>1 DEF QueueRow, DeviceInv
    <3>3. ASSUME NEW p \in Subscribers', ~overflowed'[p] PROVE PageRow(p, d)'
      <4>1. pending[p] \in Deltas /\ pending'[p] = pending[p] /\ view'[p] = view[p] /\ PageRow(p, d)
        BY <1>1, <1>2, <1>4, <3>3 DEF DeviceInv
      <4>2. pending[p] \o (Queue \o out) = (pending[p] \o Queue) \o out /\ pending[p] \o Queue \in Deltas
        BY <1>1, <4>1, DeltasJoin
      <4>3. RowAfter(pending'[p] \o Queue', d, view'[p].rows[d]) = RowAfter(pending[p] \o Queue, d, view[p].rows[d])
        BY <2>1, <3>1, <4>1, <4>2
      <4>4. QED
        BY <1>3, <2>3, <4>1, <4>3 DEF PageRow
    <3>4. QED
      BY <3>2, <3>3
  <2>4. QED
    BY <2>2, <2>3
<1>6. CASE ~bound
  <2>1. queue' = << >> /\ Subscribers' = {}
    BY <1>2, <1>6 DEF Publish, RowsInv, Threads
  <2>2. RowDeltas(Queue', d) = {}
    BY <2>1, FlatNone, NoRows DEF Queue
  <2>3. QED
    BY <2>1, <2>2 DEF QueueRow, RowAfter, Fresh
<1>7. QED
  BY <1>5, <1>6

LEMMA RowsReaderPublishes ==
  ASSUME TypeOK, RowsInv, ReaderPublishes
  PROVE  RowsInv'
<1>1. /\ Publish(readerOut) /\ readerOut' = <<>>
      /\ UNCHANGED <<board, bound, poller, pollerOut, page, pending, overflowed, view>>
  BY DEF ReaderPublishes, pollerVars, hubVars
<1>2. readerOut \in Deltas
  BY UnderWay
<1>3. Threads' /\ DecidedKnown'
  BY <1>1 DEF RowsInv, Threads, DecidedKnown, Subscribers, Publish
<1>4. ASSUME NEW d \in Devices PROVE DeviceInv(d)'
  <2>1. DeviceInv(d)
    BY DEF RowsInv
  <2>2. ReaderRow(d)' /\ PollerRow(d)'
    BY <1>1, <2>1, NoRows DEF ReaderRow, PollerRow, DeviceInv
  <2>3. ASSUME RowDeltas(readerOut, d) # {} PROVE Fresh(LastRow(readerOut, d), d)
    <3>1. PICK i \in RowDeltas(readerOut, d) : LastRow(readerOut, d) = readerOut[i].row
      BY <1>2, <2>3, LastRowExists DEF Deltas
    <3>2. readerOut[i] \in Delta /\ readerOut[i].type = "device"
      BY <1>2 DEF RowDeltas, Deltas
    <3>3. LastRow(readerOut, d) # NotListed
      BY <3>1, <3>2, DeltaKinds, RowAssumption
    <3>4. QED
      BY <2>1, <2>3, <3>3 DEF DeviceInv, ReaderRow, Fresh
  <2>4. RowDeltas(readerOut, d) = {} /\ Quiet(d)' => Quiet(d)
    BY <1>1 DEF Quiet
  <2>5. QED
    BY <1>1, <1>2, <2>2, <2>3, <2>4, RowPublished DEF DeviceInv
<1>5. QED
  BY <1>3, <1>4 DEF RowsInv

LEMMA RowsPollerPublishes ==
  ASSUME TypeOK, RowsInv, PollerPublishes
  PROVE  RowsInv'
<1>1. /\ Publish(pollerOut) /\ pollerOut' = <<>>
      /\ UNCHANGED <<board, bound, reader, readerOut, page, pending, overflowed, view>>
  BY DEF PollerPublishes, readerVars, hubVars
<1>2. pollerOut \in Deltas
  BY UnderWay
<1>3. Threads' /\ DecidedKnown'
  BY <1>1 DEF RowsInv, Threads, DecidedKnown, Subscribers, Publish
<1>4. ASSUME NEW d \in Devices PROVE DeviceInv(d)'
  <2>1. DeviceInv(d)
    BY DEF RowsInv
  <2>2. ReaderRow(d)' /\ PollerRow(d)'
    BY <1>1, <2>1, NoRows DEF ReaderRow, PollerRow, DeviceInv
  <2>3. ASSUME RowDeltas(pollerOut, d) # {} PROVE Fresh(LastRow(pollerOut, d), d)
    <3>1. PICK i \in RowDeltas(pollerOut, d) : LastRow(pollerOut, d) = pollerOut[i].row
      BY <1>2, <2>3, LastRowExists DEF Deltas
    <3>2. pollerOut[i] \in Delta /\ pollerOut[i].type = "device"
      BY <1>2 DEF RowDeltas, Deltas
    <3>3. LastRow(pollerOut, d) # NotListed
      BY <3>1, <3>2, DeltaKinds, RowAssumption
    <3>4. QED
      BY <2>1, <2>3, <3>3 DEF DeviceInv, PollerRow, Fresh
  <2>4. RowDeltas(pollerOut, d) = {} /\ Quiet(d)' => Quiet(d)
    BY <1>1 DEF Quiet
  <2>5. QED
    BY <1>1, <1>2, <2>2, <2>3, <2>4, RowPublished DEF DeviceInv
<1>5. QED
  BY <1>3, <1>4 DEF RowsInv

LEMMA RowsDispatch ==
  ASSUME TypeOK, RowsInv, Dispatch
  PROVE  RowsInv'
<1>1. /\ queue \in Seq(Deltas) /\ Queue \in Deltas
      /\ \A p \in Pages : pending[p] \in Deltas
  BY UnderWay
<1>2. queue # <<>> /\ queue' = Tail(queue) /\ Head(queue) \in Deltas /\ queue' \in Seq(Deltas)
  BY DispatchFields DEF Deltas
<1>3. /\ UNCHANGED <<board, reader, readerOut, poller, pollerOut, bound, page, view>>
      /\ Subscribers' = Subscribers /\ Subscribers \subseteq Pages
  BY DEF Dispatch, readerVars, pollerVars, Subscribers
<1>4. Queue = Head(queue) \o Queue' /\ Queue' \in Deltas
  BY <1>1, <1>2, FlatTail, FlatType DEF Queue
<1>5. Threads' /\ DecidedKnown'
  BY <1>2, <1>3 DEF RowsInv, Threads, DecidedKnown
<1>6. ASSUME NEW d \in Devices PROVE DeviceInv(d)'
  <2>1. DeviceInv(d)
    BY DEF RowsInv
  <2>2. ReaderRow(d)' /\ PollerRow(d)' /\ (Quiet(d)' <=> Quiet(d)) /\ \A row : Fresh(row, d)' <=> Fresh(row, d)
    BY <1>3, <2>1 DEF ReaderRow, PollerRow, DeviceInv, Quiet, Fresh
  <2>3. QueueRow(d)'
    <3>1. CASE RowDeltas(Queue', d) = {}
      BY <1>3, <3>1 DEF QueueRow, RowAfter, Fresh
    <3>2. CASE RowDeltas(Queue', d) # {}
      <4>1. RowDeltas(Queue, d) # {} /\ LastRow(Queue, d) = LastRow(Queue', d)
        BY <1>2, <1>4, <3>2, RowJoin DEF Deltas
      <4>2. QED
        BY <1>3, <2>1, <2>2, <3>2, <4>1 DEF QueueRow, RowAfter, DeviceInv
    <3>3. QED
      BY <3>1, <3>2
  <2>4. ASSUME NEW p \in Subscribers', ~overflowed'[p] PROVE PageRow(p, d)'
    <3>1. p \in Pages /\ p \in Subscribers
      BY <1>3, <2>4
    <3>2. ~overflowed[p] /\ pending'[p] = pending[p] \o Head(queue)
      <4>1. pending'[p] = Queued(p, Head(queue)).pending /\ overflowed'[p] = Queued(p, Head(queue)).overflowed
        BY <3>1, DispatchFields
      <4>2. QED
        BY <1>2, <2>4, <3>1, <4>1, QueuedFields DEF Deltas
    <3>3. pending'[p] \o Queue' = pending[p] \o Queue
      <4> DEFINE a == pending[p]
                 b == Head(queue)
                 c == Queue'
      <4>1. a \in Deltas /\ b \in Deltas /\ c \in Deltas
        BY <1>1, <1>2, <1>4, <3>1
      <4>2. Queue = b \o c /\ pending'[p] = a \o b
        BY <1>4, <3>2
      <4> HIDE DEF a, b, c
      <4>3. (a \o b) \o c = a \o (b \o c)
        BY <4>1, DeltasJoin
      <4>4. QED
        BY <4>2, <4>3 DEF a, c
    <3>4. QED
      BY <1>3, <2>1, <2>2, <3>1, <3>2, <3>3 DEF DeviceInv, PageRow
  <2>5. QED
    BY <2>2, <2>3, <2>4 DEF DeviceInv
<1>7. QED
  BY <1>5, <1>6 DEF RowsInv

LEMMA RowsPage ==
  ASSUME TypeOK, RowsInv, NEW p \in Pages, Subscribe(p) \/ Resume(p) \/ Take(p) \/ Leave(p)
  PROVE  RowsInv'
<1>1. /\ queue \in Seq(Deltas) /\ Queue \in Deltas
      /\ \A q \in Pages : pending[q] \in Deltas /\ view[q] \in View
  BY UnderWay
<1>2. UNCHANGED <<board, reader, readerOut, poller, pollerOut, bound, queue>>
  BY DEF Subscribe, Resume, Take, Leave, readerVars, pollerVars
<1>3. Threads' /\ DecidedKnown'
  <2>1. ~bound => Subscribers' = {}
    <3>1. ASSUME ~bound PROVE \A q \in Pages : page'[q] = "gone"
      <4>1. \A q \in Pages : page[q] = "gone"
        BY <3>1 DEF RowsInv, Threads, Subscribers
      <4>2. QED
        BY <3>1, <4>1 DEF Subscribe, Resume, Take, Leave
    <3>2. QED
      BY <3>1 DEF Subscribers
  <2>2. QED
    BY <1>2, <2>1 DEF RowsInv, Threads, DecidedKnown
<1>4. ASSUME NEW q \in Pages, q # p
      PROVE  /\ page'[q] = page[q] /\ pending'[q] = pending[q] /\ overflowed'[q] = overflowed[q]
             /\ view'[q] = view[q]
  BY <1>4 DEF Subscribe, Resume, Take, Leave, TypeOK
<1>5. ASSUME NEW d \in Devices PROVE DeviceInv(d)'
  <2>1. DeviceInv(d)
    BY DEF RowsInv
  <2>2. ReaderRow(d)' /\ PollerRow(d)' /\ (Quiet(d)' <=> Quiet(d)) /\ \A row : Fresh(row, d)' <=> Fresh(row, d)
    BY <1>2, <2>1 DEF ReaderRow, PollerRow, DeviceInv, Quiet, Fresh
  <2>3. Queue' = Queue /\ QueueRow(d)'
    BY <1>2, <2>1, <2>2 DEF QueueRow, DeviceInv, Queue
  <2>4. ASSUME NEW q \in Subscribers', ~overflowed'[q], q # p PROVE PageRow(q, d)'
    <3>1. q \in Pages /\ q \in Subscribers /\ ~overflowed[q]
      BY <1>4, <2>4 DEF Subscribers
    <3>2. QED
      BY <1>4, <2>1, <2>2, <2>3, <2>4, <3>1 DEF DeviceInv, PageRow
  <2>5. ASSUME p \in Subscribers', ~overflowed'[p] PROVE PageRow(p, d)'
    <3>1. ASSUME pending'[p] = <<>>, view'[p] = Snapshot PROVE PageRow(p, d)'
      <4>1. pending'[p] \o Queue' = Queue /\ view'[p].rows[d] = board.rows[d]
        BY <1>1, <2>3, <3>1, DeltasJoin DEF Snapshot
      <4>2. QED
        BY <1>2, <2>1, <2>2, <4>1 DEF DeviceInv, QueueRow, PageRow
    <3>2. CASE Subscribe(p)
      BY <3>1, <3>2 DEF Subscribe, TypeOK
    <3>3. CASE Resume(p)
      <4>1. p \in Subscribers /\ ~overflowed[p] /\ UNCHANGED <<pending, view>>
        BY <2>5, <3>3 DEF Resume, Subscribers
      <4>2. QED
        BY <2>1, <2>2, <2>3, <4>1 DEF DeviceInv, PageRow
    <3>4. CASE Take(p)
      <4>1. CASE overflowed[p]
        BY <3>1, <3>4, <4>1 DEF Take, TypeOK
      <4>2. CASE ~overflowed[p]
        <5>1. p \in Subscribers /\ pending'[p] = <<>> /\ view'[p] = AppliedAll(view[p], pending[p])
          BY <3>4, <4>2 DEF Take, Subscribers, TypeOK
        <5>2. view'[p].rows[d] = RowAfter(pending[p], d, view[p].rows[d])
          BY <1>1, <5>1, AppliedAllRow DEF Deltas
        <5>3. pending'[p] \o Queue' = Queue
          BY <1>1, <2>3, <5>1, DeltasJoin
        <5>4. RowAfter(pending'[p] \o Queue', d, view'[p].rows[d])
                = RowAfter(pending[p] \o Queue, d, view[p].rows[d])
          BY <1>1, <5>2, <5>3, RowAfterJoin DEF Deltas
        <5>5. QED
          BY <2>1, <2>2, <4>2, <5>1, <5>4 DEF DeviceInv, PageRow
      <4>3. QED
        BY <4>1, <4>2
    <3>5. CASE Leave(p)
      BY <2>5, <3>5 DEF Leave, Subscribers, TypeOK
    <3>6. QED
      BY <3>2, <3>3, <3>4, <3>5
  <2>6. QED
    BY <2>2, <2>3, <2>4, <2>5 DEF DeviceInv
<1>6. QED
  BY <1>3, <1>5 DEF RowsInv

LEMMA RowsStep == TypeOK /\ RowsInv /\ [Next]_vars => RowsInv'
<1> SUFFICES ASSUME TypeOK, RowsInv, [Next]_vars PROVE RowsInv'
  OBVIOUS
<1>1. CASE Reader
  BY <1>1, RowsReadMessage, RowsReadLatency, RowsBatch, RowsReaderPublishes DEF Reader
<1>2. CASE Poller
  BY <1>2, RowsPoll, RowsMark, RowsPollerPublishes DEF Poller
<1>3. CASE Dispatch \/ \E p \in Pages : Subscribe(p) \/ Resume(p) \/ Take(p) \/ Leave(p)
  BY <1>3, RowsDispatch, RowsPage
<1>4. CASE Bind \/ (\E source \in Sources : Outage(source) \/ Repaired(source)) \/ UNCHANGED vars
  <2>1. /\ UNCHANGED <<board, reader, readerOut, poller, pollerOut, queue, page, pending, overflowed, view>>
        /\ bound => bound'
    BY <1>4, OutageFrame DEF Bind, vars, readerVars, pollerVars, hubVars
  <2>2. Threads' /\ DecidedKnown'
    BY <2>1 DEF RowsInv, Threads, DecidedKnown, Subscribers
  <2>3. QED
    BY <2>1, <2>2, SameRowSelf, RowsStill
<1>5. QED
  BY <1>1, <1>2, <1>3, <1>4 DEF Next, Loop

\* With nothing under way, every page shows of every device the newest of at least
\* one of the two threads that write its row, and none that is listed is missing
\* (model.py apply_devices, apply_latency; sources.py publishes what they return
\* later, outside of the lock), for any number of devices, polls and pages.
THEOREM RowsSafety == Spec => []RowsLagOneWriter
<1>1. TypeOK /\ RowsInv => RowsLagOneWriter
  <2> SUFFICES ASSUME RowsInv, NEW p \in Pages, NEW d \in Devices, AtRest(p)
               PROVE  \/ view[p].rows[d] = board.rows[d]
                      \/ /\ view[p].rows[d] # NotListed
                         /\ \/ view[p].rows[d].seq = board.rows[d].seq
                            \/ view[p].rows[d].decided = board.rows[d].decided
    BY DEF RowsLagOneWriter
  <2>1. /\ p \in Subscribers /\ ~overflowed[p] /\ pending[p] \o Queue = <<>>
        /\ readerOut = <<>> /\ pollerOut = <<>>
    BY FlatNone, DeltasJoin DEF AtRest, Queue
  <2>2. Quiet(d)
    BY <2>1, NoRows DEF Quiet
  <2>3. Fresh(RowAfter(<<>>, d, view[p].rows[d]), d)
    BY <2>1, <2>2 DEF RowsInv, DeviceInv, PageRow
  <2>4. QED
    BY <2>3, NoRows DEF RowAfter, Fresh
<1>2. QED
  BY <1>1, RowsInit, RowsStep, TypeInit, TypeStep, PTL DEF Spec

-----------------------------------------------------------------------------
(* What lists of deltas lead to, step by step *)

\* The deltas s lead from a to b by steps <<before, delta, after>> of R.
Leads(S, R, a, s, b) ==
  \E f \in [0 .. Len(s) -> S] :
    /\ f[0] = a /\ f[Len(s)] = b
    /\ \A i \in 1 .. Len(s) : <<f[i - 1], s[i], f[i]>> \in R

LEMMA LeadsEnds ==
  ASSUME NEW S, NEW R, NEW a, NEW b, NEW s \in Deltas, Leads(S, R, a, s, b)
  PROVE  a \in S /\ b \in S
<1>1. Len(s) \in Nat
  BY DEF Deltas
<1>2. 0 \in 0 .. Len(s) /\ Len(s) \in 0 .. Len(s)
  BY <1>1
<1>3. QED
  BY <1>2 DEF Leads

LEMMA LeadsNone ==
  ASSUME NEW S, NEW R, NEW a \in S
  PROVE  Leads(S, R, a, <<>>, a)
<1> DEFINE f == [i \in 0 .. 0 |-> a]
<1>1. Len(<<>>) = 0
  OBVIOUS
<1>2. f \in [0 .. 0 -> S] /\ f[0] = a /\ \A i \in 1 .. 0 : FALSE
  OBVIOUS
<1>3. QED
  BY <1>1, <1>2 DEF Leads

LEMMA LeadsOne ==
  ASSUME NEW S, NEW R, NEW a \in S, NEW x, NEW b \in S, <<a, x, b>> \in R
  PROVE  Leads(S, R, a, <<x>>, b)
<1> DEFINE f == [i \in 0 .. 1 |-> IF i = 0 THEN a ELSE b]
<1>1. Len(<<x>>) = 1 /\ <<x>>[1] = x
  OBVIOUS
<1>2. f \in [0 .. 1 -> S] /\ f[0] = a /\ f[1] = b
  OBVIOUS
<1>3. \A i \in 1 .. 1 : i = 1 /\ i - 1 = 0
  OBVIOUS
<1>4. \A i \in 1 .. 1 : <<f[i - 1], <<x>>[i], f[i]>> \in R
  BY <1>1, <1>2, <1>3
<1>5. QED
  BY <1>1, <1>2, <1>4 DEF Leads

LEMMA LeadsJoin ==
  ASSUME NEW S, NEW R, NEW a, NEW b, NEW c, NEW s \in Deltas, NEW t \in Deltas,
         Leads(S, R, a, s, b), Leads(S, R, b, t, c)
  PROVE  Leads(S, R, a, s \o t, c)
<1> DEFINE u == s \o t
           m == Len(s)
           n == Len(t)
<1>1. /\ Len(u) = m + n /\ m \in Nat /\ n \in Nat
      /\ \A i \in 1 .. m : u[i] = s[i]
      /\ \A i \in 1 .. n : u[m + i] = t[i]
  BY DEF Deltas
<1> HIDE DEF u
<1>2. PICK f \in [0 .. m -> S] : f[0] = a /\ f[m] = b /\ \A i \in 1 .. m : <<f[i - 1], s[i], f[i]>> \in R
  BY DEF Leads
<1>3. PICK g \in [0 .. n -> S] : g[0] = b /\ g[n] = c /\ \A i \in 1 .. n : <<g[i - 1], t[i], g[i]>> \in R
  BY DEF Leads
<1> HIDE DEF m, n
<1> DEFINE h == [i \in 0 .. m + n |-> IF i <= m THEN f[i] ELSE g[i - m]]
<1>4. ASSUME NEW i \in 0 .. m PROVE h[i] = f[i] /\ h[i] \in S
  BY <1>1, <1>2
<1>5. ASSUME NEW i \in 0 .. n PROVE h[m + i] = g[i] /\ h[m + i] \in S
  <2>1. m + i \in 0 .. m + n /\ (m + i) - m = i /\ (m + i <= m <=> i = 0)
    BY <1>1
  <2>2. CASE i = 0
    <3>1. m \in 0 .. m /\ m + i = m
      BY <1>1, <2>2
    <3>2. QED
      BY <1>2, <1>3, <1>4, <2>2, <3>1
  <2>3. CASE i # 0
    BY <1>3, <2>1, <2>3
  <2>4. QED
    BY <2>2, <2>3
<1>6. h \in [0 .. m + n -> S]
  <2>1. ASSUME NEW i \in 0 .. m + n PROVE h[i] \in S
    <3>1. CASE i <= m
      <4>1. i \in 0 .. m
        BY <1>1, <3>1
      <4>2. QED
        BY <1>4, <4>1
    <3>2. CASE ~(i <= m)
      <4>1. i - m \in 0 .. n /\ i = m + (i - m)
        BY <1>1, <3>2
      <4>2. QED
        BY <1>5, <4>1
    <3>3. QED
      BY <3>1, <3>2
  <2>2. h = [i \in 0 .. m + n |-> h[i]]
    OBVIOUS
  <2> HIDE DEF h
  <2>3. QED
    BY <2>1, <2>2
<1> HIDE DEF h
<1>7. h[0] = a /\ h[m + n] = c
  <2>1. 0 \in 0 .. m /\ n \in 0 .. n
    BY <1>1
  <2>2. QED
    BY <1>2, <1>3, <1>4, <1>5, <2>1
<1>8. ASSUME NEW i \in 1 .. m + n PROVE <<h[i - 1], u[i], h[i]>> \in R
  <2>1. CASE i <= m
    <3>1. i \in 1 .. m /\ i \in 0 .. m /\ i - 1 \in 0 .. m
      BY <1>1, <2>1
    <3>2. QED
      BY <1>1, <1>2, <1>4, <3>1
  <2>2. CASE ~(i <= m)
    <3> DEFINE k == i - m
    <3>1. k \in 1 .. n /\ k \in 0 .. n /\ k - 1 \in 0 .. n /\ i = m + k /\ i - 1 = m + (k - 1)
      BY <1>1, <2>2
    <3> HIDE DEF k
    <3>2. h[m + k] = g[k] /\ h[m + (k - 1)] = g[k - 1] /\ u[m + k] = t[k]
      BY <1>1, <1>5, <3>1
    <3>3. QED
      BY <1>3, <3>1, <3>2
  <2>3. QED
    BY <2>1, <2>2
<1>9. QED
  BY <1>1, <1>6, <1>7, <1>8 DEF Leads, u

LEMMA LeadsSplit ==
  ASSUME NEW S, NEW R, NEW a, NEW c, NEW s \in Deltas, NEW t \in Deltas, Leads(S, R, a, s \o t, c)
  PROVE  \E b \in S : Leads(S, R, a, s, b) /\ Leads(S, R, b, t, c)
<1> DEFINE u == s \o t
           m == Len(s)
           n == Len(t)
<1>1. /\ Len(u) = m + n /\ m \in Nat /\ n \in Nat
      /\ \A i \in 1 .. m : u[i] = s[i]
      /\ \A i \in 1 .. n : u[m + i] = t[i]
  BY DEF Deltas
<1>2. PICK h \in [0 .. m + n -> S] :
        h[0] = a /\ h[m + n] = c /\ \A i \in 1 .. m + n : <<h[i - 1], u[i], h[i]>> \in R
  BY <1>1 DEF Leads
<1> HIDE DEF u, m, n
<1> DEFINE f == [i \in 0 .. m |-> h[i]]
           g == [i \in 0 .. n |-> h[m + i]]
<1>3. f \in [0 .. m -> S] /\ f[0] = a /\ f[m] = h[m] /\ h[m] \in S
  BY <1>1, <1>2
<1>4. g \in [0 .. n -> S] /\ g[0] = h[m] /\ g[n] = c
  <2>1. \A i \in 0 .. n : m + i \in 0 .. m + n
    BY <1>1
  <2>2. 0 \in 0 .. n /\ n \in 0 .. n /\ m + 0 = m
    BY <1>1
  <2>3. QED
    BY <1>2, <2>1, <2>2
<1>5. ASSUME NEW i \in 1 .. m PROVE <<f[i - 1], s[i], f[i]>> \in R
  <2>1. i \in 1 .. m + n /\ i \in 0 .. m /\ i - 1 \in 0 .. m /\ u[i] = s[i]
    BY <1>1
  <2>2. f[i] = h[i] /\ f[i - 1] = h[i - 1]
    BY <2>1
  <2>3. QED
    BY <1>2, <2>1, <2>2
<1>6. ASSUME NEW i \in 1 .. n PROVE <<g[i - 1], t[i], g[i]>> \in R
  <2>1. m + i \in 1 .. m + n /\ i \in 0 .. n /\ i - 1 \in 0 .. n /\ u[m + i] = t[i]
        /\ m + (i - 1) = (m + i) - 1
    BY <1>1
  <2>2. g[i] = h[m + i] /\ g[i - 1] = h[(m + i) - 1]
    BY <2>1
  <2>3. QED
    BY <1>2, <2>1, <2>2
<1> HIDE DEF f, g
<1>7. Leads(S, R, a, s, h[m])
  BY <1>3, <1>5 DEF Leads, m
<1>8. Leads(S, R, h[m], t, c)
  BY <1>4, <1>6 DEF Leads, n
<1>9. QED
  BY <1>3, <1>7, <1>8

LEMMA LeadsNowhere ==
  ASSUME NEW S, NEW R, NEW s \in Deltas, NEW a \in S, \A i \in 1 .. Len(s) : <<a, s[i], a>> \in R
  PROVE  Leads(S, R, a, s, a)
<1> DEFINE f == [i \in 0 .. Len(s) |-> a]
<1>1. Len(s) \in Nat
  BY DEF Deltas
<1>2. f \in [0 .. Len(s) -> S] /\ f[0] = a /\ f[Len(s)] = a
  BY <1>1
<1>3. ASSUME NEW i \in 1 .. Len(s) PROVE <<f[i - 1], s[i], f[i]>> \in R
  <2>1. i - 1 \in 0 .. Len(s) /\ i \in 0 .. Len(s)
    BY <1>1
  <2>2. QED
    BY <2>1
<1>4. QED
  BY <1>2, <1>3 DEF Leads

-----------------------------------------------------------------------------
(* The feed and the two flags, as a page and as the board see them change *)

Feeds == Seq(Entry)

\* Three parts of a view, which change apart from each other.
Parts == {"feed", "kafka", "context"}
States(t) == IF t = "feed" THEN Feeds ELSE BOOLEAN
Shown(t, v) == IF t = "feed" THEN v.feed ELSE v.stale[t]

\* What a delta makes of a feed, and of a part.
Fed(feed, x) ==
  IF x.type = "message"
  THEN IF \E q \in 1 .. Len(feed) : feed[q].at = x.entry.at THEN feed ELSE Pushed(feed, x.entry, FeedLimit)
  ELSE IF x.type = "target" THEN Targeted(feed, {x.at}) ELSE feed
Changing(t, a, x) ==
  IF t = "feed" THEN Fed(a, x) ELSE IF x.type = "stale" /\ x.source = t THEN x.flag ELSE a
Changes(t) == {c \in States(t) \X Delta \X States(t) : c[3] = Changing(t, c[1], c[2])}

LEMMA FedType ==
  ASSUME NEW feed \in Feeds, NEW x \in Delta
  PROVE  Fed(feed, x) \in Feeds
<1>1. CASE x.type = "message"
  <2>1. Pushed(feed, x.entry, FeedLimit) \in Feeds
    BY <1>1, DeltaKinds, Limits, PushedElements DEF Feeds
  <2>2. QED
    BY <1>1, <2>1 DEF Fed
<1>2. CASE x.type = "target"
  BY <1>2, TargetedElements DEF Fed, Feeds
<1>3. CASE x.type \notin {"message", "target"}
  BY <1>3 DEF Fed
<1>4. QED
  BY <1>1, <1>2, <1>3

LEMMA ShownType ==
  ASSUME NEW v \in View, NEW t \in Parts
  PROVE  Shown(t, v) \in States(t)
BY DEF View, Shown, States, Parts, Sources, Feeds

\* What a page makes of a delta, it makes of each part.
LEMMA ShownOne ==
  ASSUME NEW v \in View, NEW x \in Delta, NEW t \in Parts
  PROVE  Shown(t, Applied(v, x)) = Changing(t, Shown(t, v), x)
<1>1. v.feed \in Seq(Entry) /\ v.stale \in [Sources -> BOOLEAN] /\ (t # "feed" => t \in Sources)
  BY DEF View, Parts, Sources
<1>2. CASE x.type = "device"
  <2>1. Applied(v, x) = [v EXCEPT !.rows[x.device] = x.row]
    BY <1>2, AppliedFields
  <2>2. Applied(v, x).feed = v.feed /\ Applied(v, x).stale = v.stale
    BY <2>1 DEF View
  <2>3. QED
    BY <1>2, <2>2 DEF Shown, Changing, Fed
<1>3. CASE x.type = "message"
  <2> DEFINE f == IF \E e \in Range(v.feed) : e.at = x.entry.at THEN v.feed
                  ELSE Pushed(v.feed, x.entry, FeedLimit)
  <2>1. Applied(v, x) = [v EXCEPT !.feed = f]
    BY <1>3, AppliedFields
  <2>2. f = Fed(v.feed, x)
    <3>1. (\E e \in Range(v.feed) : e.at = x.entry.at) <=> \E q \in 1 .. Len(v.feed) : v.feed[q].at = x.entry.at
      BY <1>1, InRange
    <3>2. QED
      BY <1>3, <3>1 DEF Fed
  <2> HIDE DEF f
  <2>3. Applied(v, x).feed = f /\ Applied(v, x).stale = v.stale
    BY <2>1 DEF View
  <2>4. QED
    BY <1>3, <2>2, <2>3 DEF Shown, Changing
<1>4. CASE x.type = "target"
  <2> DEFINE f == Targeted(v.feed, {x.at})
  <2>1. Applied(v, x) = [v EXCEPT !.feed = f]
    BY <1>4, AppliedFields
  <2>2. f = Fed(v.feed, x)
    BY <1>4 DEF Fed
  <2> HIDE DEF f
  <2>3. Applied(v, x).feed = f /\ Applied(v, x).stale = v.stale
    BY <2>1 DEF View
  <2>4. QED
    BY <1>4, <2>2, <2>3 DEF Shown, Changing
<1>5. CASE x.type = "stale"
  <2>1. Applied(v, x) = [v EXCEPT !.stale[x.source] = x.flag]
    BY <1>5, AppliedFields
  <2>2. Applied(v, x).feed = v.feed /\ Applied(v, x).stale = [v.stale EXCEPT ![x.source] = x.flag]
    BY <2>1 DEF View
  <2>3. QED
    BY <1>1, <1>5, <2>2 DEF Shown, Changing, Fed
<1>6. QED
  BY <1>2, <1>3, <1>4, <1>5, DeltaKinds

\* A page ends where its deltas lead.
LEMMA ShownAll ==
  ASSUME NEW v \in View, NEW s \in Deltas, NEW t \in Parts, NEW b,
         Leads(States(t), Changes(t), Shown(t, v), s, b)
  PROVE  Shown(t, AppliedAll(v, s)) = b
<1>1. s \in Seq(Delta) /\ Len(s) \in Nat
  BY DEF Deltas
<1>2. PICK h : IsRun(h, v, s)
  BY <1>1, RunExists
<1> DEFINE n == Len(s)
<1>3. h \in [0 .. n -> View] /\ h[0] = v /\ \A i \in 1 .. n : h[i] = Applied(h[i - 1], s[i])
  BY <1>2 DEF IsRun
<1>4. PICK f : f[0] = Shown(t, v) /\ f[n] = b /\ \A i \in 1 .. n : <<f[i - 1], s[i], f[i]>> \in Changes(t)
  BY DEF Leads
<1>5. AppliedAll(v, s) = h[n]
  BY <1>1, <1>2, RunResult
<1> HIDE DEF n
<1> DEFINE G == {k \in 0 .. n : Shown(t, h[k]) = f[k]}
<1>6. n \in Nat /\ G \in SUBSET (0 .. n) /\ 0 \in G /\ n \in 0 .. n
  BY <1>1, <1>3, <1>4 DEF n
<1>7. ASSUME NEW k \in 1 .. n, k - 1 \in G PROVE k \in G
  <2>1. k - 1 \in 0 .. n /\ k \in 0 .. n /\ s[k] \in Delta
    BY <1>1, <1>6 DEF n
  <2>2. f[k] = Changing(t, f[k - 1], s[k])
    BY <1>4 DEF Changes
  <2>3. Shown(t, h[k]) = Changing(t, Shown(t, h[k - 1]), s[k])
    BY <1>3, <2>1, ShownOne
  <2>4. QED
    BY <1>7, <2>1, <2>2, <2>3
<1> HIDE DEF G
<1>8. n \in G
  BY <1>6, <1>7, Induct
<1>9. QED
  BY <1>4, <1>5, <1>8 DEF G

\* A feed as the records make it: no entry is newer than `top`, and `count` messages
\* have come.
Stage ==
  {c \in [feed : Feeds, top : Nat, count : Nat] :
     Len(c.feed) <= FeedLimit /\ \A q \in 1 .. Len(c.feed) : c.feed[q].at <= c.top}

\* A message is newer than all before it, a target is of one that has come.
IsGrown(a, x, b) ==
  IF x.type = "message"
  THEN /\ x.entry.at > a.top /\ b.top = x.entry.at /\ b.count = a.count + 1
       /\ b.feed = Pushed(a.feed, x.entry, FeedLimit)
  ELSE IF x.type = "target"
  THEN x.at <= a.top /\ b.top = a.top /\ b.count = a.count /\ b.feed = Targeted(a.feed, {x.at})
  ELSE b = a

\* The same steps with what the board knows of them.
Stages(t) == IF t = "feed" THEN Stage ELSE BOOLEAN
Grown == {c \in Stage \X Delta \X Stage : IsGrown(c[1], c[2], c[3])}
Causes(t) == IF t = "feed" THEN Grown ELSE Changes(t)
Face(t, c) == IF t = "feed" THEN c.feed ELSE c

\* One of them, of the feed.
Grows(a, x, b) == <<a, x, b>> \in Grown

LEMMA GrownFields ==
  ASSUME NEW a, NEW x, NEW b, Grows(a, x, b)
  PROVE  a \in Stage /\ b \in Stage /\ x \in Delta /\ IsGrown(a, x, b)
BY DEF Grows, Grown

LEMMA StageFields ==
  ASSUME NEW a \in Stage
  PROVE  /\ a.feed \in Feeds /\ Len(a.feed) \in Nat /\ Len(a.feed) <= FeedLimit
         /\ a.top \in Nat /\ a.count \in Nat
         /\ \A q \in 1 .. Len(a.feed) : a.feed[q] \in Entry /\ a.feed[q].at \in Nat /\ a.feed[q].at <= a.top
<1>1. a.feed \in Seq(Entry)
  BY DEF Stage, Feeds
<1>2. ASSUME NEW q \in 1 .. Len(a.feed) PROVE a.feed[q] \in Entry /\ a.feed[q].at \in Nat
  <2>1. a.feed[q] \in Entry
    BY <1>1
  <2>2. QED
    BY <2>1 DEF Entry
<1>3. QED
  BY <1>1, <1>2 DEF Stage, Feeds

\* The messages of the board are new to a page that shows what the board did.
LEMMA GrownFed ==
  ASSUME NEW a, NEW x, NEW b, Grows(a, x, b)
  PROVE  b.feed = Fed(a.feed, x)
<1>1. a \in Stage /\ b \in Stage /\ x \in Delta /\ IsGrown(a, x, b)
  BY GrownFields
<1>2. CASE x.type = "message"
  <2>1. x.entry.at > a.top /\ b.feed = Pushed(a.feed, x.entry, FeedLimit) /\ x.entry.at \in Nat
    BY <1>1, <1>2, DeltaKinds DEF IsGrown, Entry
  <2>2. ~ \E q \in 1 .. Len(a.feed) : a.feed[q].at = x.entry.at
    BY <1>1, <2>1, StageFields
  <2>3. QED
    BY <1>2, <2>1, <2>2 DEF Fed
<1>3. CASE x.type # "message"
  BY <1>1, <1>3 DEF IsGrown, Fed
<1>4. QED
  BY <1>2, <1>3

LEMMA Faces ==
  ASSUME NEW t \in Parts, NEW a, NEW b, NEW s \in Deltas, Leads(Stages(t), Causes(t), a, s, b)
  PROVE  Leads(States(t), Changes(t), Face(t, a), s, Face(t, b))
<1>1. CASE t # "feed"
  BY <1>1 DEF Stages, Causes, Face, States
<1>2. CASE t = "feed"
  <2> DEFINE n == Len(s)
  <2>1. n \in Nat /\ \A i \in 1 .. n : s[i] \in Delta
    BY DEF Deltas
  <2>2. PICK f \in [0 .. n -> Stage] : f[0] = a /\ f[n] = b /\ \A i \in 1 .. n : Grows(f[i - 1], s[i], f[i])
    BY <1>2 DEF Leads, Stages, Causes, Grows
  <2> HIDE DEF n
  <2> DEFINE g == [i \in 0 .. n |-> f[i].feed]
  <2>3. g \in [0 .. n -> Feeds] /\ g[0] = a.feed /\ g[n] = b.feed
    <3>1. 0 \in 0 .. n /\ n \in 0 .. n
      BY <2>1
    <3>2. \A i \in 0 .. n : f[i].feed \in Feeds
      BY <2>2, StageFields
    <3>3. QED
      BY <2>2, <3>1, <3>2
  <2>4. ASSUME NEW i \in 1 .. n PROVE <<g[i - 1], s[i], g[i]>> \in Changes(t)
    <3>1. i \in 0 .. n /\ i - 1 \in 0 .. n /\ s[i] \in Delta
      BY <2>1
    <3>2. g[i] = Fed(g[i - 1], s[i]) /\ g[i] \in Feeds /\ g[i - 1] \in Feeds
      <4>0. Grows(f[i - 1], s[i], f[i])
        BY <2>2
      <4>1. f[i].feed = Fed(f[i - 1].feed, s[i])
        BY <4>0, GrownFed
      <4>2. g[i] = f[i].feed /\ g[i - 1] = f[i - 1].feed
        BY <3>1
      <4>3. g[i] \in Feeds /\ g[i - 1] \in Feeds
        BY <2>3, <3>1
      <4>4. QED
        BY <4>1, <4>2, <4>3
    <3> HIDE DEF g
    <3>3. QED
      BY <1>2, <3>1, <3>2 DEF Changes, States, Changing
  <2> HIDE DEF g
  <2>5. Leads(Feeds, Changes(t), a.feed, s, b.feed)
    BY <2>3, <2>4 DEF Leads, n
  <2>6. QED
    BY <1>2, <2>5 DEF States, Face
<1>3. QED
  BY <1>1, <1>2

\* A list that says nothing of a part.
Idle(t, s) ==
  \A i \in 1 .. Len(s) : IF t = "feed" THEN s[i].type \notin {"message", "target"}
                         ELSE ~(s[i].type = "stale" /\ s[i].source = t)

LEMMA IdleLeads ==
  ASSUME NEW t \in Parts, NEW s \in Deltas, Idle(t, s)
  PROVE  /\ \A a \in States(t) : Leads(States(t), Changes(t), a, s, a)
         /\ \A a \in Stages(t) : Leads(Stages(t), Causes(t), a, s, a)
<1>1. \A i \in 1 .. Len(s) : s[i] \in Delta
  BY DEF Deltas
<1>2. ASSUME NEW a \in States(t), NEW i \in 1 .. Len(s) PROVE <<a, s[i], a>> \in Changes(t)
  <2>1. Changing(t, a, s[i]) = a
    BY DEF Idle, Changing, Fed
  <2>2. QED
    BY <1>1, <2>1 DEF Changes
<1>3. ASSUME NEW a \in Stages(t), NEW i \in 1 .. Len(s) PROVE <<a, s[i], a>> \in Causes(t)
  <2>1. CASE t = "feed"
    <3>1. a \in Stage /\ IsGrown(a, s[i], a)
      BY <2>1 DEF Stages, Idle, IsGrown
    <3>2. QED
      BY <1>1, <2>1, <3>1 DEF Causes, Grown
  <2>2. CASE t # "feed"
    BY <1>2, <2>2 DEF Causes, Stages, States
  <2>3. QED
    BY <2>1, <2>2
<1>4. QED
  BY <1>2, <1>3, LeadsNowhere

LEMMA IdleJoin ==
  ASSUME NEW t, NEW s \in Deltas, NEW u \in Deltas, Idle(t, s), Idle(t, u)
  PROVE  Idle(t, s \o u)
<1> DEFINE w == s \o u
           m == Len(s)
           n == Len(u)
<1>1. /\ Len(w) = m + n /\ m \in Nat /\ n \in Nat
      /\ \A i \in 1 .. m : w[i] = s[i]
      /\ \A i \in 1 .. n : w[m + i] = u[i]
  BY DEF Deltas
<1> HIDE DEF w
<1>2. ASSUME NEW i \in 1 .. m + n
      PROVE  (\E k \in 1 .. m : w[i] = s[k]) \/ (\E k \in 1 .. n : w[i] = u[k])
  <2>1. CASE i <= m
    <3>1. i \in 1 .. m
      BY <1>1, <2>1
    <3>2. QED
      BY <1>1, <3>1
  <2>2. CASE ~(i <= m)
    <3>1. i - m \in 1 .. n /\ m + (i - m) = i
      BY <1>1, <2>2
    <3>2. QED
      BY <1>1, <3>1
  <2>3. QED
    BY <2>1, <2>2
<1>3. QED
  BY <1>1, <1>2 DEF Idle, m, n, w

LEMMA IdleNone ==
  ASSUME NEW t
  PROVE  Idle(t, <<>>)
BY DEF Idle

-----------------------------------------------------------------------------
(* What is on its way changes nothing of what has it all *)

LEMMA SameFeed ==
  ASSUME NEW s \in Feeds, NEW u \in Feeds, Len(s) = Len(u), \A i \in 1 .. Len(s) : s[i] = u[i]
  PROVE  s = u
BY SeqEqual DEF Feeds

LEMMA SameEntries ==
  ASSUME NEW s \in Feeds, NEW u \in Feeds, Len(s) = Len(u),
         \A q \in 1 .. Len(s) : s[q].at = u[q].at /\ s[q].id = u[q].id /\ (s[q].targeted <=> u[q].targeted)
  PROVE  s = u
<1>1. ASSUME NEW q \in 1 .. Len(s) PROVE s[q] = u[q]
  <2>1. s[q] \in Entry /\ u[q] \in Entry
    BY DEF Feeds
  <2>2. s[q].targeted = u[q].targeted
    BY <2>1 DEF Entry
  <2>3. \A e \in Entry : e = [at |-> e.at, id |-> e.id, targeted |-> e.targeted]
    BY DEF Entry
  <2>4. s[q].at = u[q].at /\ s[q].id = u[q].id
    OBVIOUS
  <2>5. QED
    BY <2>1, <2>2, <2>3, <2>4
<1>2. QED
  BY <1>1, SameFeed

\* A message that stands as far from the end of the feed as messages have come since,
\* if the feed is that long, and behind which all is newer; a target that is filled in.
Placed(a, at, count) ==
  /\ at <= a.top /\ count <= a.count
  /\ \A q \in 1 .. Len(a.feed) :
       LET place == Len(a.feed) - (a.count - count)
       IN (q > place => at < a.feed[q].at) /\ (q = place => a.feed[q].at = at)
Filled(a, at) == at <= a.top /\ \A q \in 1 .. Len(a.feed) : a.feed[q].at = at => a.feed[q].targeted

\* A feed that is full, or holds every message that came after the first `count`.
Kept(a, count) ==
  a.count >= count /\ (Len(a.feed) = FeedLimit \/ Len(a.feed) >= a.count - count)

\* The feed w is s with a new entry, or with a target filled in.
HasNew(s, e, w) ==
  /\ Len(w) = IF Len(s) + 1 > FeedLimit THEN FeedLimit ELSE Len(s) + 1
  /\ w[Len(w)] = e
  /\ \A q \in 1 .. Len(w) - 1 : w[q] = s[Len(s) + 1 - Len(w) + q]
ComesFrom(s, k, w, q) == k = Len(s) + 1 - Len(w) + q /\ w[q] = s[k]
HasTarget(s, at, w) ==
  /\ Len(w) = Len(s)
  /\ \A q \in 1 .. Len(s) : w[q].at = s[q].at /\ (w[q].targeted <=> (s[q].targeted \/ s[q].at = at))

LEMMA PushedNew ==
  ASSUME NEW s \in Seq(Entry), NEW e \in Entry
  PROVE  HasNew(s, e, Pushed(s, e, FeedLimit))
<1> DEFINE w == Pushed(s, e, FeedLimit)
<1>1. FeedLimit \in Nat \ {0}
  BY Limits
<1>2. /\ w[Len(w)] = e
      /\ \A q \in 1 .. Len(w) - 1 : w[q] = s[Len(s) + 1 - Len(w) + q]
  <2>1. /\ w \in Seq(Entry) /\ Len(w) <= FeedLimit /\ Len(w) \in 1 .. Len(s) + 1 /\ w[Len(w)] = e
        /\ \A q \in 1 .. Len(w) - 1 : w[q] = s[Len(s) + 1 - Len(w) + q]
    BY <1>1, PushedElements
  <2>2. QED
    BY <2>1
<1>3. Len(w) = IF Len(s) + 1 > FeedLimit THEN FeedLimit ELSE Len(s) + 1
  BY <1>1, PushedLength
<1> HIDE DEF w
<1>4. HasNew(s, e, w)
  BY <1>2, <1>3 DEF HasNew
<1>5. QED
  BY <1>4 DEF w

LEMMA GrownMessage ==
  ASSUME NEW a, NEW x, NEW b, Grows(a, x, b), x.type = "message"
  PROVE  /\ x.entry.at \in Nat /\ x.entry.at > a.top /\ b.top = x.entry.at /\ b.count = a.count + 1
         /\ HasNew(a.feed, x.entry, b.feed)
<1>1. a \in Stage /\ b \in Stage /\ x \in Delta /\ IsGrown(a, x, b)
  BY GrownFields
<1>2. /\ x.entry.at > a.top /\ b.top = x.entry.at /\ b.count = a.count + 1
      /\ b.feed = Pushed(a.feed, x.entry, FeedLimit)
  BY <1>1 DEF IsGrown
<1>3. x.entry \in Entry /\ a.feed \in Seq(Entry)
  BY <1>1, DeltaKinds, StageFields DEF Feeds
<1>4. x.entry.at \in Nat
  BY <1>3 DEF Entry
<1>5. HasNew(a.feed, x.entry, Pushed(a.feed, x.entry, FeedLimit))
  BY <1>3, PushedNew
<1>6. QED
  BY <1>2, <1>4, <1>5

LEMMA GrownTarget ==
  ASSUME NEW a, NEW x, NEW b, Grows(a, x, b), x.type = "target"
  PROVE  /\ x.at \in Nat /\ x.at <= a.top /\ b.top = a.top /\ b.count = a.count
         /\ b.feed = Targeted(a.feed, {x.at}) /\ HasTarget(a.feed, x.at, b.feed)
<1>1. a \in Stage /\ x \in Delta /\ IsGrown(a, x, b)
  BY GrownFields
<1>2. a.feed \in Seq(Entry) /\ x.at \in Nat
  BY <1>1, DeltaKinds, StageFields DEF Feeds
<1>3. x.at <= a.top /\ b.top = a.top /\ b.count = a.count /\ b.feed = Targeted(a.feed, {x.at})
  BY <1>1 DEF IsGrown
<1> DEFINE f == a.feed
           w == Targeted(f, {x.at})
<1> HIDE DEF f
<1>4. /\ Len(w) = Len(f)
      /\ \A q \in 1 .. Len(f) : w[q].at = f[q].at /\ (w[q].targeted <=> (f[q].targeted \/ f[q].at \in {x.at}))
  BY <1>2, TargetedElements DEF f
<1> HIDE DEF w
<1>5. b.feed = w
  BY <1>3 DEF w, f
<1>6. QED
  <2>1. HasTarget(f, x.at, w)
    BY <1>4 DEF HasTarget
  <2>2. QED
    BY <1>2, <1>3, <1>5, <2>1 DEF f

LEMMA GrownOther ==
  ASSUME NEW a, NEW x, NEW b, Grows(a, x, b), x.type \notin {"message", "target"}
  PROVE  b = a
<1>1. IsGrown(a, x, b)
  BY GrownFields
<1>2. QED
  BY <1>1 DEF IsGrown

LEMMA GrownTypes ==
  ASSUME NEW a, NEW x, NEW b, Grows(a, x, b)
  PROVE  /\ Len(a.feed) \in Nat /\ Len(a.feed) <= FeedLimit /\ a.top \in Nat /\ a.count \in Nat
         /\ Len(b.feed) \in Nat /\ Len(b.feed) <= FeedLimit /\ b.top \in Nat /\ b.count \in Nat
         /\ \A q \in 1 .. Len(a.feed) : a.feed[q].at \in Nat /\ a.feed[q].at <= a.top
         /\ \A q \in 1 .. Len(b.feed) : b.feed[q].at \in Nat /\ b.feed[q].at <= b.top
         /\ FeedLimit \in Nat \ {0}
<1>1. a \in Stage /\ b \in Stage
  BY GrownFields
<1>2. QED
  BY <1>1, StageFields, Limits

\* Where an entry was before a new one came.
LEMMA PlaceBefore ==
  ASSUME NEW n \in Nat \ {0}, NEW m \in Nat, m <= n, NEW w \in Nat,
         w = IF m + 1 > n THEN n ELSE m + 1, NEW q \in 1 .. w, q # w
  PROVE  m + 1 - w + q \in 1 .. m /\ q \in 1 .. w - 1
<1>1. CASE m + 1 > n
  BY <1>1
<1>2. CASE ~(m + 1 > n)
  BY <1>2
<1>3. QED
  BY <1>1, <1>2

LEMMA GrownBefore ==
  ASSUME NEW a, NEW x, NEW b, Grows(a, x, b), x.type = "message", NEW q \in 1 .. Len(b.feed), q # Len(b.feed)
  PROVE  \E k \in 1 .. Len(a.feed) : ComesFrom(a.feed, k, b.feed, q)
<1>0. HasNew(a.feed, x.entry, b.feed)
  BY GrownMessage
<1>1. /\ Len(b.feed) = IF Len(a.feed) + 1 > FeedLimit THEN FeedLimit ELSE Len(a.feed) + 1
      /\ \A i \in 1 .. Len(b.feed) - 1 : b.feed[i] = a.feed[Len(a.feed) + 1 - Len(b.feed) + i]
  BY <1>0 DEF HasNew
<1>2. Len(a.feed) \in Nat /\ Len(a.feed) <= FeedLimit /\ Len(b.feed) \in Nat /\ FeedLimit \in Nat \ {0}
  BY GrownTypes
<1>3. Len(a.feed) + 1 - Len(b.feed) + q \in 1 .. Len(a.feed) /\ q \in 1 .. Len(b.feed) - 1
  BY <1>1, <1>2, PlaceBefore
<1>4. QED
  BY <1>1, <1>3 DEF ComesFrom

LEMMA PlacedStep ==
  ASSUME NEW a, NEW x, NEW b, Grows(a, x, b), NEW at \in Nat, NEW count \in Nat, Placed(a, at, count)
  PROVE  Placed(b, at, count)
<1>1. /\ Len(a.feed) \in Nat /\ a.top \in Nat /\ a.count \in Nat
      /\ Len(b.feed) \in Nat /\ b.top \in Nat /\ b.count \in Nat
  BY GrownTypes
<1>2. /\ at <= a.top /\ count <= a.count
      /\ \A q \in 1 .. Len(a.feed) :
           /\ q > Len(a.feed) - (a.count - count) => at < a.feed[q].at
           /\ q = Len(a.feed) - (a.count - count) => a.feed[q].at = at
  BY DEF Placed
<1>3. CASE x.type = "message"
  <2>1. /\ x.entry.at \in Nat /\ x.entry.at > a.top /\ b.top = x.entry.at /\ b.count = a.count + 1
        /\ b.feed[Len(b.feed)] = x.entry
    BY <1>3, GrownMessage DEF HasNew
  <2>2. at <= b.top /\ count <= b.count /\ at < x.entry.at
    BY <1>1, <1>2, <2>1
  <2>3. ASSUME NEW q \in 1 .. Len(b.feed)
        PROVE  /\ q > Len(b.feed) - (b.count - count) => at < b.feed[q].at
               /\ q = Len(b.feed) - (b.count - count) => b.feed[q].at = at
    <3>1. CASE q = Len(b.feed)
      <4>1. b.feed[q].at = x.entry.at
        BY <2>1, <3>1
      <4>2. q # Len(b.feed) - (b.count - count)
        BY <1>1, <1>2, <2>1, <3>1
      <4>3. QED
        BY <2>2, <4>1, <4>2
    <3>2. CASE q # Len(b.feed)
      <4>1. PICK k \in 1 .. Len(a.feed) : ComesFrom(a.feed, k, b.feed, q)
        BY <1>3, <3>2, GrownBefore
      <4>0. k = Len(a.feed) + 1 - Len(b.feed) + q /\ b.feed[q] = a.feed[k]
        BY <4>1 DEF ComesFrom
      <4>2. /\ q > Len(b.feed) - (b.count - count) => k > Len(a.feed) - (a.count - count)
            /\ q = Len(b.feed) - (b.count - count) => k = Len(a.feed) - (a.count - count)
        <5> DEFINE m == Len(a.feed)
                   w == Len(b.feed)
                   c == a.count
        <5>1. m \in Nat /\ w \in Nat /\ c \in Nat /\ k = m + 1 - w + q /\ b.count = c + 1 /\ q \in Nat
          BY <1>1, <2>1, <4>0
        <5> HIDE DEF m, w, c
        <5>2. /\ q > w - ((c + 1) - count) => k > m - (c - count)
              /\ q = w - ((c + 1) - count) => k = m - (c - count)
          BY <5>1
        <5>3. QED
          BY <5>1, <5>2 DEF m, w, c
      <4>3. QED
        BY <1>2, <4>0, <4>2
    <3>3. QED
      BY <3>1, <3>2
  <2>4. QED
    BY <2>2, <2>3 DEF Placed
<1>4. CASE x.type = "target"
  <2>1. b.top = a.top /\ b.count = a.count /\ HasTarget(a.feed, x.at, b.feed)
    BY <1>4, GrownTarget
  <2>2. QED
    BY <1>2, <2>1 DEF Placed, HasTarget
<1>5. CASE x.type \notin {"message", "target"}
  <2>1. b = a
    BY <1>5, GrownOther
  <2>2. QED
    BY <2>1
<1>6. QED
  BY <1>3, <1>4, <1>5

LEMMA PlacedNew ==
  ASSUME NEW a, NEW x, NEW b, Grows(a, x, b), x.type = "message"
  PROVE  Placed(b, x.entry.at, b.count)
<1>1. b.top = x.entry.at /\ b.feed[Len(b.feed)] = x.entry /\ x.entry.at \in Nat
  BY GrownMessage DEF HasNew
<1>2. Len(b.feed) \in Nat /\ b.count \in Nat
  BY GrownTypes
<1>3. QED
  BY <1>1, <1>2 DEF Placed

LEMMA FilledStep ==
  ASSUME NEW a, NEW x, NEW b, Grows(a, x, b), NEW at \in Nat, Filled(a, at)
  PROVE  Filled(b, at)
<1>1. a.top \in Nat /\ b.top \in Nat
  BY GrownTypes
<1>2. at <= a.top /\ \A q \in 1 .. Len(a.feed) : a.feed[q].at = at => a.feed[q].targeted
  BY DEF Filled
<1>3. CASE x.type = "message"
  <2>1. x.entry.at \in Nat /\ x.entry.at > a.top /\ b.top = x.entry.at /\ b.feed[Len(b.feed)] = x.entry
    BY <1>3, GrownMessage DEF HasNew
  <2>2. at <= b.top /\ at < x.entry.at
    BY <1>1, <1>2, <2>1
  <2>3. ASSUME NEW q \in 1 .. Len(b.feed), b.feed[q].at = at PROVE b.feed[q].targeted
    <3>1. q # Len(b.feed)
      BY <2>1, <2>2, <2>3
    <3>2. PICK k \in 1 .. Len(a.feed) : b.feed[q] = a.feed[k]
      BY <1>3, <3>1, GrownBefore DEF ComesFrom
    <3>3. QED
      BY <1>2, <2>3, <3>2
  <2>4. QED
    BY <2>2, <2>3 DEF Filled
<1>4. CASE x.type = "target"
  <2>1. b.top = a.top /\ HasTarget(a.feed, x.at, b.feed)
    BY <1>4, GrownTarget
  <2>2. QED
    BY <1>2, <2>1 DEF Filled, HasTarget
<1>5. CASE x.type \notin {"message", "target"}
  <2>1. b = a
    BY <1>5, GrownOther
  <2>2. QED
    BY <2>1
<1>6. QED
  BY <1>3, <1>4, <1>5

LEMMA FilledNew ==
  ASSUME NEW a, NEW x, NEW b, Grows(a, x, b), x.type = "target"
  PROVE  Filled(b, x.at)
<1>1. x.at <= a.top /\ b.top = a.top /\ HasTarget(a.feed, x.at, b.feed)
  BY GrownTarget
<1>2. QED
  BY <1>1 DEF Filled, HasTarget

LEMMA KeptStep ==
  ASSUME NEW a, NEW x, NEW b, Grows(a, x, b), NEW count \in Nat, Kept(a, count)
  PROVE  Kept(b, count)
<1>1. /\ Len(a.feed) \in Nat /\ Len(a.feed) <= FeedLimit /\ a.count \in Nat /\ FeedLimit \in Nat \ {0}
  BY GrownTypes
<1>2. a.count >= count /\ (Len(a.feed) = FeedLimit \/ Len(a.feed) >= a.count - count)
  BY DEF Kept
<1>3. CASE x.type = "message"
  <2>1. /\ b.count = a.count + 1
        /\ Len(b.feed) = IF Len(a.feed) + 1 > FeedLimit THEN FeedLimit ELSE Len(a.feed) + 1
    BY <1>3, GrownMessage DEF HasNew
  <2>2. QED
    BY <1>1, <1>2, <2>1 DEF Kept
<1>4. CASE x.type = "target"
  <2>1. b.count = a.count /\ Len(b.feed) = Len(a.feed)
    BY <1>4, GrownTarget DEF HasTarget
  <2>2. QED
    BY <1>2, <2>1 DEF Kept
<1>5. CASE x.type \notin {"message", "target"}
  <2>1. b = a
    BY <1>5, GrownOther
  <2>2. QED
    BY <2>1
<1>6. QED
  BY <1>3, <1>4, <1>5

LEMMA FlagSettles ==
  ASSUME NEW t \in Parts, t # "feed", NEW a, NEW b, NEW s \in Deltas, Leads(BOOLEAN, Changes(t), a, s, b)
  PROVE  Leads(BOOLEAN, Changes(t), b, s, b)
<1> DEFINE n == Len(s)
<1>1. n \in Nat /\ \A i \in 1 .. n : s[i] \in Delta
  BY DEF Deltas
<1>2. PICK f \in [0 .. n -> BOOLEAN] : f[0] = a /\ f[n] = b /\ \A i \in 1 .. n : <<f[i - 1], s[i], f[i]>> \in Changes(t)
  BY DEF Leads
<1> HIDE DEF n
<1> DEFINE Says(i) == s[i].type = "stale" /\ s[i].source = t
           g == [k \in 0 .. n |-> IF \E i \in 1 .. k : Says(i) THEN f[k] ELSE b]
<1>3. b \in BOOLEAN /\ 0 \in 0 .. n /\ n \in 0 .. n
  BY <1>1, <1>2
<1>4. ASSUME NEW i \in 1 .. n
      PROVE  f[i] \in BOOLEAN /\ f[i] = IF Says(i) THEN s[i].flag ELSE f[i - 1]
  <2>1. i \in 0 .. n
    BY <1>1
  <2>2. f[i] = Changing(t, f[i - 1], s[i])
    BY <1>2 DEF Changes
  <2>3. QED
    BY <1>2, <2>1, <2>2 DEF Changing
<1> HIDE DEF Says
<1>5. ASSUME NEW k \in 0 .. n
      PROVE  g[k] \in BOOLEAN /\ g[k] = IF \E i \in 1 .. k : Says(i) THEN f[k] ELSE b
  BY <1>2, <1>3
<1>6. g \in [0 .. n -> BOOLEAN] /\ g[0] = b /\ g[n] = b
  <2>1. g = [k \in 0 .. n |-> g[k]]
    OBVIOUS
  <2> HIDE DEF g
  <2>2. ~ \E i \in 1 .. 0 : Says(i)
    OBVIOUS
  <2>3. g[0] = b
    BY <1>3, <1>5, <2>2
  <2>4. g[n] = b
    BY <1>2, <1>3, <1>5
  <2>5. QED
    BY <1>5, <2>1, <2>3, <2>4
<1> HIDE DEF g
<1>7. ASSUME NEW i \in 1 .. n PROVE <<g[i - 1], s[i], g[i]>> \in Changes(t)
  <2>1. i \in 0 .. n /\ i - 1 \in 0 .. n /\ s[i] \in Delta
    BY <1>1
  <2>2. (\E k \in 1 .. i : Says(k)) <=> Says(i) \/ \E k \in 1 .. i - 1 : Says(k)
    <3>1. \A k \in 1 .. i : k = i \/ k \in 1 .. i - 1
      BY <1>1
    <3>2. \A k \in 1 .. i - 1 : k \in 1 .. i
      BY <1>1
    <3>3. i \in 1 .. i
      BY <1>1
    <3>4. QED
      BY <3>1, <3>2, <3>3
  <2>3. g[i] = IF Says(i) THEN s[i].flag ELSE g[i - 1]
    BY <1>4, <1>5, <2>1, <2>2
  <2>4. g[i] = Changing(t, g[i - 1], s[i])
    BY <2>3 DEF Changing, Says
  <2>5. g[i] \in States(t) /\ g[i - 1] \in States(t)
    BY <1>5, <2>1 DEF States
  <2>6. QED
    BY <2>1, <2>4, <2>5 DEF Changes
<1>8. QED
  BY <1>6, <1>7 DEF Leads, n

\* A run of the board's feed.
Grew(f, s, n) == f \in [0 .. n -> Stage] /\ \A i \in 1 .. n : Grows(f[i - 1], s[i], f[i])

LEMMA RunPlaced ==
  ASSUME NEW n \in Nat, NEW f, NEW s, Grew(f, s, n), NEW u \in 1 .. n, s[u].type = "message", NEW k \in u .. n
  PROVE  Placed(f[k], s[u].entry.at, f[u].count)
<1>1. \A i \in 1 .. n : Grows(f[i - 1], s[i], f[i])
  BY DEF Grew
<1>2. Grows(f[u - 1], s[u], f[u])
  BY <1>1
<1> DEFINE at == s[u].entry.at
           count == f[u].count
           G == {i \in 0 .. n : i >= u => Placed(f[i], at, count)}
<1>3. at \in Nat /\ count \in Nat
  BY <1>2, GrownMessage, GrownTypes
<1>4. Placed(f[u], at, count)
  BY <1>2, PlacedNew
<1> HIDE DEF at, count
<1>5. ASSUME NEW i \in 1 .. n, i - 1 \in G PROVE i \in G
  <2>1. i \in 0 .. n
    BY <1>5
  <2>2. CASE i < u
    BY <2>1, <2>2
  <2>3. CASE i = u
    BY <1>4, <2>1, <2>3
  <2>4. CASE i > u
    <3>1. i - 1 >= u
      BY <2>4
    <3>2. Placed(f[i - 1], at, count)
      BY <1>5, <3>1
    <3>3. Grows(f[i - 1], s[i], f[i])
      BY <1>1
    <3>4. Placed(f[i], at, count)
      BY <1>3, <3>2, <3>3, PlacedStep
    <3>5. QED
      BY <2>1, <3>4
  <2>5. QED
    BY <2>2, <2>3, <2>4
<1>6. 0 \in G /\ G \in SUBSET (0 .. n)
  OBVIOUS
<1> HIDE DEF G
<1>7. \A i \in 0 .. n : i \in G
  BY <1>5, <1>6, Induct
<1>8. k \in 0 .. n /\ k >= u
  OBVIOUS
<1>9. QED
  BY <1>7, <1>8 DEF G, at, count

LEMMA RunFilled ==
  ASSUME NEW n \in Nat, NEW f, NEW s, Grew(f, s, n), NEW u \in 1 .. n, s[u].type = "target", NEW k \in u .. n
  PROVE  Filled(f[k], s[u].at)
<1>1. \A i \in 1 .. n : Grows(f[i - 1], s[i], f[i])
  BY DEF Grew
<1>2. Grows(f[u - 1], s[u], f[u])
  BY <1>1
<1> DEFINE at == s[u].at
           G == {i \in 0 .. n : i >= u => Filled(f[i], at)}
<1>3. at \in Nat
  BY <1>2, GrownTarget
<1>4. Filled(f[u], at)
  BY <1>2, FilledNew
<1> HIDE DEF at
<1>5. ASSUME NEW i \in 1 .. n, i - 1 \in G PROVE i \in G
  <2>1. i \in 0 .. n
    BY <1>5
  <2>2. CASE i < u
    BY <2>1, <2>2
  <2>3. CASE i = u
    BY <1>4, <2>1, <2>3
  <2>4. CASE i > u
    <3>1. i - 1 >= u
      BY <2>4
    <3>2. Filled(f[i - 1], at)
      BY <1>5, <3>1
    <3>3. Grows(f[i - 1], s[i], f[i])
      BY <1>1
    <3>4. Filled(f[i], at)
      BY <1>3, <3>2, <3>3, FilledStep
    <3>5. QED
      BY <2>1, <3>4
  <2>5. QED
    BY <2>2, <2>3, <2>4
<1>6. 0 \in G /\ G \in SUBSET (0 .. n)
  OBVIOUS
<1> HIDE DEF G
<1>7. \A i \in 0 .. n : i \in G
  BY <1>5, <1>6, Induct
<1>8. k \in 0 .. n /\ k >= u
  OBVIOUS
<1>9. QED
  BY <1>7, <1>8 DEF G, at

LEMMA RunKept ==
  ASSUME NEW n \in Nat, NEW f, NEW s, Grew(f, s, n), NEW k \in 0 .. n
  PROVE  Kept(f[k], f[0].count)
<1>1. \A i \in 1 .. n : Grows(f[i - 1], s[i], f[i])
  BY DEF Grew
<1>2. f[0] \in Stage
  BY DEF Grew
<1> DEFINE count == f[0].count
           G == {i \in 0 .. n : Kept(f[i], count)}
<1>3. count \in Nat /\ Len(f[0].feed) \in Nat
  BY <1>2, StageFields
<1>4. Kept(f[0], count)
  BY <1>3 DEF Kept
<1> HIDE DEF count
<1>5. ASSUME NEW i \in 1 .. n, i - 1 \in G PROVE i \in G
  <2>1. Kept(f[i - 1], count) /\ Grows(f[i - 1], s[i], f[i]) /\ i \in 0 .. n
    BY <1>1, <1>5
  <2>2. Kept(f[i], count)
    BY <1>3, <2>1, KeptStep
  <2>3. QED
    BY <2>1, <2>2
<1>6. 0 \in G /\ G \in SUBSET (0 .. n)
  BY <1>4
<1> HIDE DEF G
<1>7. \A i \in 0 .. n : i \in G
  BY <1>5, <1>6, Induct
<1>8. QED
  BY <1>7 DEF G, count

LEMMA TargetedSame ==
  ASSUME NEW feed \in Feeds, NEW at, \A q \in 1 .. Len(feed) : feed[q].at = at => feed[q].targeted
  PROVE  Targeted(feed, {at}) = feed
<1>1. feed \in Seq(Entry)
  BY DEF Feeds
<1> DEFINE w == Targeted(feed, {at})
<1>2. /\ w \in Seq(Entry) /\ Len(w) = Len(feed)
      /\ \A q \in 1 .. Len(feed) :
           w[q].at = feed[q].at /\ w[q].id = feed[q].id /\ (w[q].targeted <=> (feed[q].targeted \/ feed[q].at \in {at}))
  BY <1>1, TargetedElements
<1> HIDE DEF w
<1>3. w \in Feeds /\ \A q \in 1 .. Len(w) : w[q].targeted <=> feed[q].targeted
  BY <1>2 DEF Feeds
<1>4. w = feed
  BY <1>2, <1>3, SameEntries
<1>5. QED
  BY <1>4 DEF w

LEMMA PlaceWithin ==
  ASSUME NEW k \in Nat, NEW last \in Nat, NEW first \in Nat, NEW before \in Nat, NEW now \in Nat,
         last - first <= k, now = before + 1, before >= first, now <= last
  PROVE  k - (last - now) \in 1 .. k
OBVIOUS

LEMMA FullWhenMany ==
  ASSUME NEW k \in Nat, NEW last \in Nat, NEW first \in Nat, NEW full, last - first > k,
         k = full \/ k >= last - first
  PROVE  k = full
OBVIOUS

LEMMA PlaceOfNew ==
  ASSUME NEW full \in Nat, NEW m \in Nat, m <= full, NEW d \in Nat, m = full \/ m >= d, NEW q \in 1 .. full
  PROVE  /\ q + d <= full => q + d \in 1 .. full
         /\ q + d > full => m - full + q \in 1 .. m
OBVIOUS

LEMMA IsFeed ==
  ASSUME NEW n \in Nat, NEW w, w = [q \in 1 .. n |-> w[q]], \A q \in 1 .. n : w[q] \in Entry
  PROVE  w \in Seq(Entry) /\ Len(w) = n
<1>1. w \in [1 .. n -> Entry]
  OBVIOUS
<1>2. QED
  BY <1>1

\* If the feed holds every message of the list, none is new to it.
LEMMA FewSettle ==
  ASSUME NEW n \in Nat, NEW f, NEW s, Grew(f, s, n), f[n].count - f[0].count <= Len(f[n].feed), NEW i \in 1 .. n
  PROVE  Fed(f[n].feed, s[i]) = f[n].feed
<1>1. Grows(f[i - 1], s[i], f[i])
  BY DEF Grew
<1>2. f[n] \in Stage /\ f[0] \in Stage /\ i - 1 \in 0 .. n /\ n \in i .. n
  BY DEF Grew
<1>3. /\ f[n].feed \in Feeds /\ Len(f[n].feed) \in Nat /\ f[n].count \in Nat /\ f[0].count \in Nat
  BY <1>2, StageFields
<1>4. CASE s[i].type = "message"
  <2>1. f[i].count = f[i - 1].count + 1
    BY <1>1, <1>4, GrownMessage
  <2>2. f[i - 1].count \in Nat /\ f[i].count \in Nat
    BY <1>1, GrownTypes
  <2>3. f[i - 1].count >= f[0].count
    BY <1>2, RunKept DEF Kept
  <2>4. Placed(f[n], s[i].entry.at, f[i].count)
    BY <1>2, <1>4, RunPlaced
  <2> DEFINE place == Len(f[n].feed) - (f[n].count - f[i].count)
  <2>5. place \in 1 .. Len(f[n].feed)
    <3>1. f[i].count <= f[n].count
      BY <2>4 DEF Placed
    <3>2. QED
      BY <1>3, <2>1, <2>2, <2>3, <3>1, PlaceWithin
  <2>6. f[n].feed[place].at = s[i].entry.at
    BY <2>4, <2>5 DEF Placed
  <2> HIDE DEF place
  <2>7. QED
    BY <1>4, <2>5, <2>6 DEF Fed
<1>5. CASE s[i].type = "target"
  <2>1. Filled(f[n], s[i].at)
    BY <1>2, <1>5, RunFilled
  <2>2. Targeted(f[n].feed, {s[i].at}) = f[n].feed
    BY <1>3, <2>1, TargetedSame DEF Filled
  <2>3. QED
    BY <1>5, <2>2 DEF Fed
<1>6. CASE s[i].type \notin {"message", "target"}
  BY <1>6 DEF Fed
<1>7. QED
  BY <1>4, <1>5, <1>6

\* If there were more messages than the feed holds, each that comes again is pushed
\* again: the feed after k deltas is what is left of the last one, and behind it what
\* came since.
Since(f, k) == f[k].count - f[0].count
Again(f, n, k) ==
  [q \in 1 .. FeedLimit |->
     IF q + Since(f, k) <= FeedLimit THEN f[n].feed[q + Since(f, k)]
     ELSE f[k].feed[Len(f[k].feed) - FeedLimit + q]]

IsAgain(w, f, n, k) ==
  /\ w \in Seq(Entry) /\ Len(w) = FeedLimit /\ Len(f[n].feed) = FeedLimit
  /\ Since(f, k) \in Nat
  /\ \A q \in 1 .. FeedLimit :
       /\ q + Since(f, k) <= FeedLimit =>
            q + Since(f, k) \in 1 .. FeedLimit /\ w[q] = f[n].feed[q + Since(f, k)]
       /\ q + Since(f, k) > FeedLimit =>
            /\ Len(f[k].feed) - FeedLimit + q \in 1 .. Len(f[k].feed)
            /\ w[q] = f[k].feed[Len(f[k].feed) - FeedLimit + q]

LEMMA AgainElements ==
  ASSUME NEW n \in Nat, NEW f, NEW s, Grew(f, s, n), f[n].count - f[0].count > Len(f[n].feed), NEW k \in 0 .. n
  PROVE  IsAgain(Again(f, n, k), f, n, k)
<1>1. f[n] \in Stage /\ f[k] \in Stage /\ f[0] \in Stage /\ n \in 0 .. n
  BY DEF Grew
<1>2. /\ Len(f[n].feed) \in Nat /\ f[n].count \in Nat /\ f[0].count \in Nat
      /\ Len(f[k].feed) \in Nat /\ Len(f[k].feed) <= FeedLimit /\ f[k].count \in Nat
      /\ \A q \in 1 .. Len(f[n].feed) : f[n].feed[q] \in Entry
      /\ \A q \in 1 .. Len(f[k].feed) : f[k].feed[q] \in Entry
      /\ FeedLimit \in Nat \ {0}
  BY <1>1, StageFields, Limits
<1>3. Len(f[n].feed) = FeedLimit
  <2>1. Kept(f[n], f[0].count)
    BY <1>1, RunKept
  <2>2. Len(f[n].feed) = FeedLimit \/ Len(f[n].feed) >= f[n].count - f[0].count
    BY <2>1 DEF Kept
  <2>3. Len(f[n].feed) \in Nat /\ f[n].count \in Nat /\ f[0].count \in Nat
    BY <1>2
  <2>4. QED
    BY <2>2, <2>3, FullWhenMany
<1>4. f[k].count >= f[0].count /\ (Len(f[k].feed) = FeedLimit \/ Len(f[k].feed) >= f[k].count - f[0].count)
  BY RunKept DEF Kept
<1> DEFINE d == Since(f, k)
           m == Len(f[k].feed)
<1>5. d \in Nat /\ m \in Nat /\ m <= FeedLimit /\ (m = FeedLimit \/ m >= d)
  BY <1>2, <1>4 DEF Since
<1>6. ASSUME NEW q \in 1 .. FeedLimit
      PROVE  /\ q + d <= FeedLimit => q + d \in 1 .. FeedLimit
             /\ q + d > FeedLimit => m - FeedLimit + q \in 1 .. m
  <2> HIDE DEF d, m
  <2>1. FeedLimit \in Nat
    BY <1>2
  <2>2. QED
    BY <1>5, <2>1, PlaceOfNew
<1>7. ASSUME NEW q \in 1 .. FeedLimit
      PROVE  /\ Again(f, n, k)[q] = IF q + d <= FeedLimit THEN f[n].feed[q + d] ELSE f[k].feed[m - FeedLimit + q]
             /\ Again(f, n, k)[q] \in Entry
  <2>1. Again(f, n, k)[q] = IF q + d <= FeedLimit THEN f[n].feed[q + d] ELSE f[k].feed[m - FeedLimit + q]
    BY DEF Again
  <2>2. q + d <= FeedLimit \/ q + d > FeedLimit
    BY <1>2, <1>5
  <2>3. QED
    BY <1>2, <1>3, <1>6, <2>1, <2>2
<1>8. Again(f, n, k) \in Seq(Entry) /\ Len(Again(f, n, k)) = FeedLimit
  <2> DEFINE w == Again(f, n, k)
  <2>1. w = [q \in 1 .. FeedLimit |-> w[q]]
    BY DEF Again
  <2> HIDE DEF w
  <2>2. \A q \in 1 .. FeedLimit : w[q] \in Entry
    BY <1>7 DEF w
  <2>3. FeedLimit \in Nat
    BY <1>2
  <2>4. w \in Seq(Entry) /\ Len(w) = FeedLimit
    BY <2>1, <2>2, <2>3, IsFeed
  <2>5. QED
    BY <2>4 DEF w
<1> HIDE DEF d, m
<1>9. \A q \in 1 .. FeedLimit : ~(q + d <= FeedLimit /\ q + d > FeedLimit)
  BY <1>2, <1>5
<1>10. QED
  BY <1>3, <1>5, <1>6, <1>7, <1>8, <1>9 DEF d, m, IsAgain

\* A full feed drops its oldest entry for a new one.
LEMMA PushedFull ==
  ASSUME NEW r \in Seq(Entry), NEW e \in Entry, Len(r) = FeedLimit
  PROVE  LET p == Pushed(r, e, FeedLimit)
         IN /\ p \in Seq(Entry) /\ Len(p) = FeedLimit /\ p[FeedLimit] = e
            /\ \A q \in 1 .. FeedLimit - 1 : p[q] = r[q + 1]
<1> DEFINE p == Pushed(r, e, FeedLimit)
<1>1. FeedLimit \in Nat \ {0}
  BY Limits
<1>2. p \in Seq(Entry)
  BY <1>1, PushedElements
<1>3. HasNew(r, e, p)
  BY PushedNew
<1> HIDE DEF p
<1>4. Len(p) = FeedLimit
  BY <1>1, <1>3 DEF HasNew
<1>5. p[FeedLimit] = e
  BY <1>3, <1>4 DEF HasNew
<1>6. ASSUME NEW q \in 1 .. FeedLimit - 1 PROVE p[q] = r[q + 1]
  <2>1. p[q] = r[Len(r) + 1 - Len(p) + q]
    BY <1>3, <1>4 DEF HasNew
  <2>2. FeedLimit + 1 - FeedLimit + q = q + 1
    BY <1>1
  <2>3. QED
    BY <1>4, <2>1, <2>2
<1>7. QED
  BY <1>2, <1>4, <1>5, <1>6 DEF p

LEMMA AgainMessage ==
  ASSUME NEW n \in Nat, NEW f, NEW s, Grew(f, s, n), f[n].count - f[0].count > Len(f[n].feed),
         NEW i \in 1 .. n, s[i].type = "message"
  PROVE  Again(f, n, i) = Fed(Again(f, n, i - 1), s[i])
<1>1. Grows(f[i - 1], s[i], f[i]) /\ i \in 0 .. n /\ i - 1 \in 0 .. n /\ n \in i .. n
  BY DEF Grew
<1> DEFINE e == s[i].entry
           r == Again(f, n, i - 1)
           w == Again(f, n, i)
           d == Since(f, i - 1)
           m == Len(f[i - 1].feed)
           k == Len(f[i].feed)
           L == FeedLimit
<1>2. /\ e.at \in Nat /\ e.at > f[i - 1].top /\ HasNew(f[i - 1].feed, e, f[i].feed)
      /\ f[i].count = f[i - 1].count + 1
  BY <1>1, GrownMessage
<1>3. /\ m \in Nat /\ f[i - 1].top \in Nat /\ f[i - 1].count \in Nat /\ k \in Nat /\ m <= L /\ L \in Nat \ {0}
      /\ \A q \in 1 .. m : f[i - 1].feed[q].at \in Nat /\ f[i - 1].feed[q].at <= f[i - 1].top
  BY <1>1, GrownTypes
<1>4. /\ r \in Seq(Entry) /\ Len(r) = L /\ Len(f[n].feed) = L /\ d \in Nat
      /\ \A q \in 1 .. L :
           /\ q + d <= L => q + d \in 1 .. L /\ r[q] = f[n].feed[q + d]
           /\ q + d > L => m - L + q \in 1 .. m /\ r[q] = f[i - 1].feed[m - L + q]
  <2>1. IsAgain(r, f, n, i - 1)
    BY <1>1, AgainElements
  <2>2. QED
    BY <2>1 DEF IsAgain
<1>5. /\ w \in Seq(Entry) /\ Len(w) = L /\ Len(f[n].feed) = L /\ Since(f, i) \in Nat
      /\ \A q \in 1 .. L :
           /\ q + Since(f, i) <= L => q + Since(f, i) \in 1 .. L /\ w[q] = f[n].feed[q + Since(f, i)]
           /\ q + Since(f, i) > L => k - L + q \in 1 .. k /\ w[q] = f[i].feed[k - L + q]
  <2>1. IsAgain(w, f, n, i)
    BY <1>1, AgainElements
  <2>2. QED
    BY <2>1 DEF IsAgain
<1>6. f[0].count \in Nat /\ f[n].count \in Nat
  <2>1. f[0] \in Stage /\ f[n] \in Stage
    BY DEF Grew
  <2>2. QED
    BY <2>1, StageFields
<1>7. Since(f, i) = d + 1
  <2>1. f[i].count = f[i - 1].count + 1 /\ f[i - 1].count \in Nat /\ f[0].count \in Nat
    BY <1>2, <1>3, <1>6
  <2>2. (f[i - 1].count + 1) - f[0].count = (f[i - 1].count - f[0].count) + 1
    BY <2>1
  <2>3. QED
    BY <2>1, <2>2 DEF Since
<1>8. f[n].count - f[0].count > L /\ f[i].count = f[0].count + d + 1
  BY <1>2, <1>3, <1>4, <1>6 DEF Since
<1>9. e \in Entry
  <2>1. s[i] \in Delta
    BY <1>1, GrownFields
  <2>2. QED
    BY <2>1, DeltaKinds
<1>10. \A q \in 1 .. L : r[q].at # e.at
  <2> TAKE q \in 1 .. L
  <2>1. CASE q + d <= L
    <3>1. Placed(f[n], e.at, f[i].count)
      BY <1>1, RunPlaced
    <3>2. q + d \in 1 .. L /\ r[q] = f[n].feed[q + d]
      BY <1>4, <2>1
    <3>3. q + d > L - (f[n].count - f[i].count)
      <4> DEFINE last == f[n].count
                 first == f[0].count
      <4>1. last \in Nat /\ first \in Nat /\ last - first > L /\ f[i].count = first + d + 1
        BY <1>6, <1>8
      <4> HIDE DEF last, first, d, L
      <4>2. q + d > L - (last - (first + d + 1))
        BY <1>3, <1>4, <4>1 DEF L, d
      <4>3. QED
        BY <4>1, <4>2 DEF last
    <3>4. e.at < f[n].feed[q + d].at
      BY <1>4, <3>1, <3>2, <3>3 DEF Placed
    <3>5. f[n].feed[q + d].at \in Nat
      <4>1. f[n] \in Stage
        BY DEF Grew
      <4>2. QED
        BY <1>4, <3>2, <4>1, StageFields
    <3>6. e.at \in Nat
      BY <1>2
    <3>7. QED
      <4> HIDE DEF e, r, d
      <4>1. QED
        BY <3>2, <3>4, <3>5, <3>6
  <2>2. CASE q + d > L
    <3>1. m - L + q \in 1 .. m /\ r[q] = f[i - 1].feed[m - L + q]
      BY <1>4, <2>2
    <3>2. r[q].at \in Nat /\ r[q].at <= f[i - 1].top
      BY <1>3, <3>1
    <3>3. e.at \in Nat /\ e.at > f[i - 1].top /\ f[i - 1].top \in Nat
      BY <1>2, <1>3
    <3>4. QED
      <4> HIDE DEF e, r, d
      <4>1. QED
        BY <3>2, <3>3
  <2>3. QED
    BY <1>3, <1>4, <2>1, <2>2
<1> DEFINE p == Pushed(r, e, L)
<1>11. Fed(r, s[i]) = p
  BY <1>4, <1>10 DEF Fed
<1> HIDE DEF r, w, d, m, k, e, L, p
<1>12. /\ p \in Seq(Entry) /\ Len(p) = L /\ p[L] = e
       /\ \A q \in 1 .. L - 1 : p[q] = r[q + 1]
  <2>1. r \in Seq(Entry) /\ e \in Entry /\ Len(r) = FeedLimit
    BY <1>4, <1>9 DEF L
  <2>2. QED
    BY <2>1, PushedFull DEF p, L
<1>13. /\ k = IF m + 1 > L THEN L ELSE m + 1
       /\ f[i].feed[k] = e
       /\ \A q \in 1 .. k - 1 : f[i].feed[q] = f[i - 1].feed[m + 1 - k + q]
  BY <1>2 DEF HasNew, m, k, e, L
<1>14. ASSUME NEW q \in 1 .. L PROVE w[q] = p[q]
  <2>1. CASE q = L
    <3>1. q + Since(f, i) > L /\ k - L + q = k
      BY <1>3, <1>4, <1>7, <2>1
    <3>2. w[q] = f[i].feed[k - L + q]
      BY <1>5, <3>1
    <3>3. QED
      BY <1>12, <1>13, <2>1, <3>1, <3>2
  <2>2. CASE q # L
    <3>0. L \in Nat /\ d \in Nat
      BY <1>3, <1>4
    <3>1. q \in 1 .. L - 1 /\ q + 1 \in 1 .. L /\ q + Since(f, i) = (q + 1) + d
      BY <1>7, <2>2, <3>0
    <3>2. p[q] = r[q + 1]
      BY <1>12, <3>1
    <3>3. CASE (q + 1) + d <= L
      <4>1. r[q + 1] = f[n].feed[(q + 1) + d]
        BY <1>4, <3>1, <3>3
      <4>2. w[q] = f[n].feed[(q + 1) + d]
        BY <1>5, <3>1, <3>3
      <4>3. QED
        BY <3>2, <4>1, <4>2
    <3>4. CASE (q + 1) + d > L
      <4>1. r[q + 1] = f[i - 1].feed[m - L + (q + 1)] /\ m - L + (q + 1) \in 1 .. m
        BY <1>4, <3>1, <3>4
      <4>2. w[q] = f[i].feed[k - L + q]
        BY <1>5, <3>1, <3>4
      <4>3. k - L + q \in 1 .. k - 1 /\ m + 1 - k + (k - L + q) = m - L + (q + 1)
        BY <1>3, <1>13, <3>1, <4>1
      <4>4. f[i].feed[k - L + q] = f[i - 1].feed[m + 1 - k + (k - L + q)]
        BY <1>13, <4>3
      <4>5. QED
        BY <3>2, <4>1, <4>2, <4>3, <4>4
    <3>5. QED
      BY <1>3, <1>4, <3>1, <3>3, <3>4
  <2>3. QED
    BY <2>1, <2>2
<1>15. w = p
  BY <1>5, <1>12, <1>14, SeqEqual
<1>16. QED
  BY <1>11, <1>15 DEF w, r, p

WithTarget(e, at) == [e EXCEPT !.targeted = @ \/ e.at \in {at}]

LEMMA WithTargetSame ==
  ASSUME NEW e \in Entry, NEW at, e.at = at => e.targeted
  PROVE  WithTarget(e, at) = e
<1>1. e.targeted \in BOOLEAN /\ (e.at \in {at} => e.targeted)
  BY DEF Entry
<1>2. (e.targeted \/ e.at \in {at}) = e.targeted
  BY <1>1
<1>3. [e EXCEPT !.targeted = e.targeted] = e
  BY DEF Entry
<1>4. QED
  BY <1>2, <1>3 DEF WithTarget

LEMMA TargetedAt ==
  ASSUME NEW s \in Seq(Entry), NEW at, NEW q \in 1 .. Len(s)
  PROVE  Targeted(s, {at})[q] = WithTarget(s[q], at)
<1>1. DOMAIN s = 1 .. Len(s)
  OBVIOUS
<1>2. QED
  BY <1>1 DEF Targeted, WithTarget

LEMMA AgainTarget ==
  ASSUME NEW n \in Nat, NEW f, NEW s, Grew(f, s, n), f[n].count - f[0].count > Len(f[n].feed),
         NEW i \in 1 .. n, s[i].type = "target"
  PROVE  Again(f, n, i) = Fed(Again(f, n, i - 1), s[i])
<1>1. Grows(f[i - 1], s[i], f[i]) /\ i \in 0 .. n /\ i - 1 \in 0 .. n /\ n \in i .. n
  BY DEF Grew
<1> DEFINE at == s[i].at
           r == Again(f, n, i - 1)
           w == Again(f, n, i)
           d == Since(f, i - 1)
           m == Len(f[i - 1].feed)
           L == FeedLimit
           p == Targeted(r, {at})
<1>2. /\ f[i].feed = Targeted(f[i - 1].feed, {s[i].at}) /\ f[i].count = f[i - 1].count
      /\ HasTarget(f[i - 1].feed, s[i].at, f[i].feed)
  <2> DEFINE a == f[i - 1]
             x == s[i]
             b == f[i]
  <2>1. Grows(a, x, b) /\ x.type = "target"
    BY <1>1
  <2> HIDE DEF a, x, b
  <2>2. b.feed = Targeted(a.feed, {x.at}) /\ b.count = a.count /\ HasTarget(a.feed, x.at, b.feed)
    BY <2>1, GrownTarget
  <2>3. QED
    BY <2>2 DEF a, x, b
<1>3. HasTarget(f[i - 1].feed, at, f[i].feed)
  BY <1>2
<1>4. f[i - 1].feed \in Seq(Entry) /\ f[n] \in Stage
  <2>1. f[i - 1] \in Stage /\ f[n] \in Stage
    BY <1>1 DEF Grew
  <2>2. QED
    BY <2>1, StageFields DEF Feeds
<1>5. /\ r \in Seq(Entry) /\ Len(r) = L /\ Len(f[n].feed) = L /\ d \in Nat
      /\ \A q \in 1 .. L :
           /\ q + d <= L => q + d \in 1 .. L /\ r[q] = f[n].feed[q + d]
           /\ q + d > L => m - L + q \in 1 .. m /\ r[q] = f[i - 1].feed[m - L + q]
  <2>1. IsAgain(r, f, n, i - 1)
    BY <1>1, AgainElements
  <2>2. QED
    BY <2>1 DEF IsAgain
<1>6. Since(f, i) = d /\ Len(f[i].feed) = m
  BY <1>2, <1>3 DEF Since, HasTarget
<1>7. /\ w \in Seq(Entry) /\ Len(w) = L
      /\ \A q \in 1 .. L :
           /\ q + d <= L => w[q] = f[n].feed[q + d]
           /\ q + d > L => w[q] = f[i].feed[m - L + q]
  <2>1. /\ w \in Seq(Entry) /\ Len(w) = L
        /\ \A q \in 1 .. L :
             /\ q + Since(f, i) <= L => w[q] = f[n].feed[q + Since(f, i)]
             /\ q + Since(f, i) > L => w[q] = f[i].feed[Len(f[i].feed) - L + q]
    <3>1. i \in 0 .. n
      BY <1>1
    <3>2. IsAgain(w, f, n, i)
      BY <3>1, AgainElements
    <3>3. QED
      BY <3>2 DEF IsAgain
  <2>2. QED
    BY <1>6, <2>1
<1>8. p \in Seq(Entry) /\ Len(p) = L
  BY <1>5, TargetedElements
<1>9. Fed(r, s[i]) = p
  BY DEF Fed
<1> HIDE DEF r, w, d, m, L, p
<1>10. ASSUME NEW q \in 1 .. L PROVE w[q] = p[q]
  <2>1. p[q] = WithTarget(r[q], at)
    <3>1. r \in Seq(Entry) /\ q \in 1 .. Len(r)
      BY <1>5
    <3>2. Targeted(r, {at})[q] = WithTarget(r[q], at)
      BY <3>1, TargetedAt
    <3>3. QED
      BY <3>2 DEF p
  <2>2. CASE q + d <= L
    <3>1. q + d \in 1 .. L /\ r[q] = f[n].feed[q + d] /\ w[q] = r[q]
      BY <1>5, <1>7, <2>2
    <3>2. Filled(f[n], at)
      BY <1>1, RunFilled
    <3>3. r[q] \in Entry /\ (r[q].at = at => r[q].targeted)
      <4>1. r[q] \in Entry
        BY <1>5
      <4>2. r[q].at = at => r[q].targeted
        BY <1>5, <3>1, <3>2 DEF Filled
      <4>3. QED
        BY <4>1, <4>2
    <3>4. QED
      <4> HIDE DEF at
      <4>1. QED
        BY <2>1, <3>1, <3>3, WithTargetSame
  <2>3. CASE q + d > L
    <3>1. m - L + q \in 1 .. m /\ r[q] = f[i - 1].feed[m - L + q] /\ w[q] = f[i].feed[m - L + q]
      BY <1>5, <1>7, <2>3
    <3>2. f[i].feed[m - L + q] = WithTarget(f[i - 1].feed[m - L + q], at)
      BY <1>2, <1>4, <3>1, TargetedAt DEF m
    <3>3. QED
      BY <2>1, <3>1, <3>2
  <2>4. QED
    <3>1. L \in Nat /\ d \in Nat
      BY <1>5, Limits DEF L
    <3>2. QED
      BY <2>2, <2>3, <3>1
<1>11. w = p
  BY <1>7, <1>8, <1>10, SeqEqual
<1>12. QED
  BY <1>9, <1>11 DEF w, r, p

LEMMA AgainOther ==
  ASSUME NEW n \in Nat, NEW f, NEW s, Grew(f, s, n), NEW i \in 1 .. n, s[i].type \notin {"message", "target"}
  PROVE  Again(f, n, i) = Fed(Again(f, n, i - 1), s[i])
<1>1. Grows(f[i - 1], s[i], f[i])
  BY DEF Grew
<1>2. f[i] = f[i - 1]
  BY <1>1, GrownOther
<1>3. Again(f, n, i) = Again(f, n, i - 1)
  BY <1>2 DEF Again, Since
<1>4. QED
  BY <1>3 DEF Fed

LEMMA FeedSettles ==
  ASSUME NEW a, NEW c, NEW s \in Deltas, Leads(Stage, Grown, a, s, c)
  PROVE  Leads(Feeds, Changes("feed"), c.feed, s, c.feed)
<1> DEFINE n == Len(s)
<1>1. n \in Nat /\ \A i \in 1 .. n : s[i] \in Delta
  BY DEF Deltas
<1>2. PICK f : Grew(f, s, n) /\ f[0] = a /\ f[n] = c
  <2>1. PICK f \in [0 .. n -> Stage] : f[0] = a /\ f[n] = c /\ \A i \in 1 .. n : <<f[i - 1], s[i], f[i]>> \in Grown
    BY DEF Leads
  <2>2. QED
    BY <2>1 DEF Grew, Grows
<1> HIDE DEF n
<1>3. c \in Stage /\ a \in Stage /\ c.feed \in Feeds
  <2>1. 0 \in 0 .. n /\ n \in 0 .. n
    BY <1>1
  <2>2. c \in Stage /\ a \in Stage
    BY <1>2, <2>1 DEF Grew
  <2>3. QED
    BY <2>2, StageFields
<1>4. ASSUME NEW x \in Feeds, NEW i \in 1 .. n, NEW y \in Feeds, y = Fed(x, s[i])
      PROVE  <<x, s[i], y>> \in Changes("feed")
  BY <1>1, <1>4 DEF Changes, States, Changing
<1>5. CASE c.count - a.count <= Len(c.feed)
  <2>1. ASSUME NEW i \in 1 .. n PROVE Fed(c.feed, s[i]) = c.feed
    BY <1>1, <1>2, <1>5, FewSettle
  <2>2. \A i \in 1 .. Len(s) : <<c.feed, s[i], c.feed>> \in Changes("feed")
    BY <1>3, <1>4, <2>1 DEF n
  <2>3. QED
    BY <1>3, <2>2, LeadsNowhere
<1>6. CASE c.count - a.count > Len(c.feed)
  <2> DEFINE g == [k \in 0 .. n |-> Again(f, n, k)]
  <2>1. ASSUME NEW k \in 0 .. n
        PROVE  /\ g[k] = Again(f, n, k) /\ g[k] \in Seq(Entry) /\ Len(g[k]) = FeedLimit /\ Len(c.feed) = FeedLimit
               /\ Since(f, k) \in Nat
               /\ \A q \in 1 .. FeedLimit :
                    /\ q + Since(f, k) <= FeedLimit => g[k][q] = c.feed[q + Since(f, k)]
                    /\ q + Since(f, k) > FeedLimit => g[k][q] = f[k].feed[Len(f[k].feed) - FeedLimit + q]
    <3>1. g[k] = Again(f, n, k)
      OBVIOUS
    <3> HIDE DEF g
    <3>2. IsAgain(Again(f, n, k), f, n, k)
      BY <1>1, <1>2, <1>6, AgainElements
    <3>3. QED
      BY <1>1, <1>2, <3>1, <3>2 DEF IsAgain
  <2>2. g \in [0 .. n -> Feeds]
    <3>1. g = [k \in 0 .. n |-> g[k]]
      OBVIOUS
    <3> HIDE DEF g
    <3>2. QED
      BY <2>1, <3>1 DEF Feeds
  <2> HIDE DEF g
  <2>3. 0 \in 0 .. n /\ n \in 0 .. n /\ FeedLimit \in Nat \ {0} /\ c.feed \in Seq(Entry)
    BY <1>1, <1>3, Limits DEF Feeds
  <2>4. g[0] = c.feed
    <3>1. Since(f, 0) = 0
      <4>1. a.count \in Nat
        BY <1>3, StageFields
      <4>2. QED
        BY <1>2, <4>1 DEF Since
    <3>2. g[0] \in Seq(Entry) /\ Len(g[0]) = FeedLimit /\ Len(c.feed) = FeedLimit
      BY <2>1, <2>3
    <3>3. ASSUME NEW q \in 1 .. FeedLimit PROVE g[0][q] = c.feed[q]
      <4>1. q + Since(f, 0) = q /\ q <= FeedLimit
        BY <2>3, <3>1
      <4>2. q + Since(f, 0) <= FeedLimit => g[0][q] = c.feed[q + Since(f, 0)]
        BY <2>1, <2>3
      <4>3. QED
        BY <4>1, <4>2
    <3>4. QED
      BY <2>3, <3>2, <3>3, SeqEqual
  <2>5. g[n] = c.feed
    <3>1. g[n] \in Seq(Entry) /\ Len(g[n]) = FeedLimit /\ Len(c.feed) = FeedLimit
      BY <2>1, <2>3
    <3>2. Since(f, n) > FeedLimit /\ Since(f, n) \in Nat
      BY <1>2, <1>6, <2>1, <2>3, <3>1 DEF Since
    <3>3. ASSUME NEW q \in 1 .. FeedLimit PROVE g[n][q] = c.feed[q]
      <4>1. q + Since(f, n) > FeedLimit /\ FeedLimit - FeedLimit + q = q
        BY <2>3, <3>2
      <4>2. q + Since(f, n) > FeedLimit => g[n][q] = f[n].feed[Len(f[n].feed) - FeedLimit + q]
        BY <2>1, <2>3
      <4>3. QED
        BY <1>2, <3>1, <4>1, <4>2
    <3>4. QED
      BY <2>3, <3>1, <3>3, SeqEqual
  <2>6. ASSUME NEW i \in 1 .. n PROVE <<g[i - 1], s[i], g[i]>> \in Changes("feed")
    <3>1. i \in 0 .. n /\ i - 1 \in 0 .. n
      BY <1>1
    <3>2. Again(f, n, i) = Fed(Again(f, n, i - 1), s[i])
      BY <1>1, <1>2, <1>6, AgainMessage, AgainTarget, AgainOther
    <3>3. g[i] = Again(f, n, i) /\ g[i - 1] = Again(f, n, i - 1)
      BY <2>1, <3>1
    <3>4. g[i] \in Feeds /\ g[i - 1] \in Feeds
      BY <2>2, <3>1
    <3>5. QED
      BY <1>4, <3>2, <3>3, <3>4
  <2>7. QED
    BY <2>2, <2>4, <2>5, <2>6 DEF Leads, n
<1>7. QED
  <2>1. c.count \in Nat /\ a.count \in Nat /\ Len(c.feed) \in Nat
    BY <1>3, StageFields
  <2>2. c.count - a.count <= Len(c.feed) \/ c.count - a.count > Len(c.feed)
    BY <2>1
  <2>3. QED
    BY <1>5, <1>6, <2>2

\* What a snapshot holds stays as it is when the deltas that made it arrive.
LEMMA Settles ==
  ASSUME NEW t \in Parts, NEW a, NEW c, NEW s \in Deltas, Leads(Stages(t), Causes(t), a, s, c)
  PROVE  Leads(States(t), Changes(t), Face(t, c), s, Face(t, c))
<1>1. CASE t = "feed"
  BY <1>1, FeedSettles DEF Stages, Causes, States, Face
<1>2. CASE t # "feed"
  BY <1>2, FlagSettles DEF Stages, Causes, States, Face
<1>3. QED
  BY <1>1, <1>2

-----------------------------------------------------------------------------
(* What the board's calls return leads from the board before to the board after *)

LEMMA TargetedNone ==
  ASSUME NEW feed \in Feeds
  PROVE  Targeted(feed, {}) = feed
<1> DEFINE w == Targeted(feed, {})
<1>1. /\ w \in Seq(Entry) /\ Len(w) = Len(feed)
      /\ \A q \in 1 .. Len(feed) :
           w[q].at = feed[q].at /\ w[q].id = feed[q].id /\ (w[q].targeted <=> (feed[q].targeted \/ feed[q].at \in {}))
  BY TargetedElements DEF Feeds
<1> HIDE DEF w
<1>2. w \in Feeds
  BY <1>1 DEF Feeds
<1>3. w = feed
  BY <1>1, <1>2, SameEntries
<1>4. QED
  BY <1>3 DEF w

LEMMA TargetedTwice ==
  ASSUME NEW feed \in Feeds, NEW A, NEW x, NEW B, \A y : y \in B <=> y \in A \/ y = x
  PROVE  Targeted(Targeted(feed, A), {x}) = Targeted(feed, B)
<1> DEFINE u == Targeted(feed, A)
           v == Targeted(u, {x})
           w == Targeted(feed, B)
<1>1. /\ u \in Seq(Entry) /\ Len(u) = Len(feed)
      /\ \A q \in 1 .. Len(feed) :
           u[q].at = feed[q].at /\ u[q].id = feed[q].id /\ (u[q].targeted <=> (feed[q].targeted \/ feed[q].at \in A))
  BY TargetedElements DEF Feeds
<1>2. /\ w \in Seq(Entry) /\ Len(w) = Len(feed)
      /\ \A q \in 1 .. Len(feed) :
           w[q].at = feed[q].at /\ w[q].id = feed[q].id /\ (w[q].targeted <=> (feed[q].targeted \/ feed[q].at \in B))
  BY TargetedElements DEF Feeds
<1> HIDE DEF u, w
<1>3. /\ v \in Seq(Entry) /\ Len(v) = Len(u)
      /\ \A q \in 1 .. Len(u) :
           v[q].at = u[q].at /\ v[q].id = u[q].id /\ (v[q].targeted <=> (u[q].targeted \/ u[q].at \in {x}))
  BY <1>1, TargetedElements
<1> HIDE DEF v
<1>4. v \in Feeds /\ w \in Feeds /\ Len(v) = Len(w)
  BY <1>1, <1>2, <1>3 DEF Feeds
<1>5. ASSUME NEW q \in 1 .. Len(v)
      PROVE  v[q].at = w[q].at /\ v[q].id = w[q].id /\ (v[q].targeted <=> w[q].targeted)
  <2>1. q \in 1 .. Len(feed) /\ q \in 1 .. Len(u)
    BY <1>1, <1>3
  <2>2. v[q].at = feed[q].at /\ v[q].id = feed[q].id
    BY <1>1, <1>3, <2>1
  <2>3. v[q].targeted <=> (feed[q].targeted \/ feed[q].at \in A \/ feed[q].at = x)
    BY <1>1, <1>3, <2>1
  <2>4. w[q].at = feed[q].at /\ w[q].id = feed[q].id /\ (w[q].targeted <=> (feed[q].targeted \/ feed[q].at \in B))
    BY <1>2, <2>1
  <2>5. QED
    BY <2>2, <2>3, <2>4
<1>6. v = w
  BY <1>4, <1>5, SameEntries
<1>7. QED
  BY <1>6 DEF u, v, w

\* A stage with the targets of a set.
WithTargets(c, ats) == [feed |-> Targeted(c.feed, ats), top |-> c.top, count |-> c.count]

LEMMA WithTargetsStage ==
  ASSUME NEW c \in Stage, NEW ats
  PROVE  WithTargets(c, ats) \in Stage
<1> DEFINE w == Targeted(c.feed, ats)
<1>1. c.feed \in Seq(Entry) /\ c.top \in Nat /\ c.count \in Nat /\ Len(c.feed) <= FeedLimit
      /\ \A q \in 1 .. Len(c.feed) : c.feed[q].at <= c.top
  BY StageFields DEF Feeds
<1>2. w \in Seq(Entry) /\ Len(w) = Len(c.feed) /\ \A q \in 1 .. Len(c.feed) : w[q].at = c.feed[q].at
  BY <1>1, TargetedElements
<1> HIDE DEF w
<1>3. [feed |-> w, top |-> c.top, count |-> c.count] \in Stage
  BY <1>1, <1>2 DEF Stage, Feeds
<1>4. QED
  BY <1>3 DEF WithTargets, w

LEMMA GrowsByTarget ==
  ASSUME NEW c \in Stage, NEW A, NEW at \in Nat, at <= c.top, NEW B, \A y : y \in B <=> y \in A \/ y = at
  PROVE  Grows(WithTargets(c, A), [type |-> "target", at |-> at], WithTargets(c, B))
<1> DEFINE a == WithTargets(c, A)
           b == WithTargets(c, B)
           x == [type |-> "target", at |-> at]
<1>1. a \in Stage /\ b \in Stage /\ x \in Delta
  BY WithTargetsStage, TargetType
<1>2. a.top = c.top /\ b.top = c.top /\ a.count = c.count /\ b.count = c.count
      /\ a.feed = Targeted(c.feed, A) /\ b.feed = Targeted(c.feed, B)
  BY DEF WithTargets
<1>3. c.feed \in Feeds
  BY StageFields
<1>4. b.feed = Targeted(a.feed, {at})
  BY <1>2, <1>3, TargetedTwice
<1>5. x.type = "target" /\ x.at = at
  OBVIOUS
<1> HIDE DEF a, b, x
<1>6. IsGrown(a, x, b)
  BY <1>2, <1>4, <1>5 DEF IsGrown
<1>7. QED
  BY <1>1, <1>6 DEF Grows, Grown, a, b, x

\* The deltas that name targets lead to the feed with all these targets.
LEMMA TargetsLead ==
  ASSUME NEW c \in Stage, NEW s \in Deltas, NEW W, \A w \in W : w \in Nat /\ w <= c.top,
         Range(s) = {[type |-> "target", at |-> w] : w \in W}
  PROVE  Leads(Stage, Grown, c, s, WithTargets(c, W))
<1> DEFINE n == Len(s)
           A(k) == {s[i].at : i \in 1 .. k}
           f == [k \in 0 .. n |-> WithTargets(c, A(k))]
<1>1. n \in Nat /\ DOMAIN s = 1 .. n
  BY DEF Deltas
<1>2. ASSUME NEW i \in 1 .. n PROVE s[i].at \in W /\ s[i] = [type |-> "target", at |-> s[i].at]
  <2>1. s[i] \in Range(s)
    BY <1>1 DEF Range
  <2>2. QED
    BY <2>1
<1>3. ASSUME NEW w \in W PROVE \E i \in 1 .. n : s[i].at = w
  <2>1. [type |-> "target", at |-> w] \in Range(s)
    OBVIOUS
  <2>2. PICK i \in 1 .. n : s[i] = [type |-> "target", at |-> w]
    BY <1>1, <2>1 DEF Range
  <2>3. QED
    BY <2>2
<1>4. A(n) = W
  BY <1>2, <1>3
<1>5. A(0) = {}
  OBVIOUS
<1>6. \A k \in 0 .. n : WithTargets(c, A(k)) \in Stage
  BY WithTargetsStage
<1>7. WithTargets(c, {}) = c
  <2>1. Targeted(c.feed, {}) = c.feed
    BY StageFields, TargetedNone
  <2>2. c = [feed |-> c.feed, top |-> c.top, count |-> c.count]
    BY DEF Stage
  <2>3. QED
    BY <2>1, <2>2 DEF WithTargets
<1>8. ASSUME NEW i \in 1 .. n PROVE Grows(WithTargets(c, A(i - 1)), s[i], WithTargets(c, A(i)))
  <2>1. \A y : y \in A(i) <=> y \in A(i - 1) \/ y = s[i].at
    <3>1. \A k \in 1 .. i : k = i \/ k \in 1 .. i - 1
      BY <1>1
    <3>2. \A k \in 1 .. i - 1 : k \in 1 .. i
      BY <1>1
    <3>3. i \in 1 .. i
      BY <1>1
    <3>4. QED
      BY <3>1, <3>2, <3>3
  <2> HIDE DEF A
  <2>2. s[i].at \in Nat /\ s[i].at <= c.top
    BY <1>2
  <2>3. Grows(WithTargets(c, A(i - 1)), [type |-> "target", at |-> s[i].at], WithTargets(c, A(i)))
    BY <2>1, <2>2, GrowsByTarget
  <2>4. QED
    BY <1>2, <2>3
<1> HIDE DEF n, A
<1>9. f \in [0 .. n -> Stage] /\ f[0] = c /\ f[n] = WithTargets(c, W)
  <2>1. 0 \in 0 .. n /\ n \in 0 .. n
    BY <1>1
  <2>2. f[0] = WithTargets(c, {}) /\ f[n] = WithTargets(c, W)
    BY <1>4, <1>5, <2>1
  <2>3. f \in [0 .. n -> Stage]
    BY <1>6
  <2>4. QED
    BY <1>7, <2>2, <2>3
<1>10. ASSUME NEW i \in 1 .. n PROVE <<f[i - 1], s[i], f[i]>> \in Grown
  <2>1. i \in 0 .. n /\ i - 1 \in 0 .. n
    BY <1>1
  <2>2. f[i] = WithTargets(c, A(i)) /\ f[i - 1] = WithTargets(c, A(i - 1))
    BY <2>1
  <2> HIDE DEF f
  <2>3. QED
    BY <1>8, <2>2 DEF Grows
<1> HIDE DEF f
<1>11. QED
  BY <1>9, <1>10 DEF Leads, n

LEMMA GrowsByMessage ==
  ASSUME NEW c \in Stage, NEW e \in Entry, e.at > c.top
  PROVE  LET d == [feed |-> Pushed(c.feed, e, FeedLimit), top |-> e.at, count |-> c.count + 1]
         IN d \in Stage /\ Grows(c, [type |-> "message", entry |-> e], d)
<1> DEFINE f == Pushed(c.feed, e, FeedLimit)
           d == [feed |-> f, top |-> e.at, count |-> c.count + 1]
           x == [type |-> "message", entry |-> e]
<1>1. /\ c.feed \in Seq(Entry) /\ c.top \in Nat /\ c.count \in Nat /\ e.at \in Nat
      /\ \A q \in 1 .. Len(c.feed) : c.feed[q].at \in Nat /\ c.feed[q].at <= c.top
  BY StageFields DEF Feeds, Entry
<1>2. /\ f \in Seq(Entry) /\ Len(f) <= FeedLimit /\ Len(f) \in 1 .. Len(c.feed) + 1 /\ f[Len(f)] = e
      /\ \A q \in 1 .. Len(f) - 1 : f[q] = c.feed[Len(c.feed) + 1 - Len(f) + q]
  <2> DEFINE s == c.feed
  <2>1. s \in Seq(Entry) /\ FeedLimit \in Nat \ {0}
    BY <1>1, Limits
  <2> HIDE DEF s
  <2>2. /\ Pushed(s, e, FeedLimit) \in Seq(Entry) /\ Len(Pushed(s, e, FeedLimit)) <= FeedLimit
        /\ Len(Pushed(s, e, FeedLimit)) \in 1 .. Len(s) + 1
        /\ Pushed(s, e, FeedLimit)[Len(Pushed(s, e, FeedLimit))] = e
        /\ \A q \in 1 .. Len(Pushed(s, e, FeedLimit)) - 1 :
             Pushed(s, e, FeedLimit)[q] = s[Len(s) + 1 - Len(Pushed(s, e, FeedLimit)) + q]
    BY <2>1, PushedElements
  <2>3. QED
    BY <2>2 DEF s
<1> HIDE DEF f
<1>3. ASSUME NEW q \in 1 .. Len(f) PROVE f[q].at <= e.at
  <2>1. CASE q = Len(f)
    BY <1>1, <1>2, <2>1
  <2>2. CASE q # Len(f)
    <3> DEFINE k == Len(c.feed) + 1 - Len(f) + q
    <3>1. q \in 1 .. Len(f) - 1 /\ k \in 1 .. Len(c.feed)
      BY <1>1, <1>2, <2>2
    <3>2. f[q] = c.feed[k]
      BY <1>2, <3>1
    <3> HIDE DEF k
    <3>3. c.feed[k].at \in Nat /\ c.feed[k].at <= c.top
      BY <1>1, <3>1
    <3>4. QED
      BY <1>1, <3>2, <3>3
  <2>3. QED
    BY <2>1, <2>2
<1>4. d \in Stage
  BY <1>1, <1>2, <1>3 DEF Stage, Feeds
<1>5. x \in Delta /\ x.type = "message" /\ x.entry = e
  BY MessageType
<1>6. d.feed = f /\ d.top = e.at /\ d.count = c.count + 1
  OBVIOUS
<1> HIDE DEF d, x
<1>7. IsGrown(c, x, d)
  BY <1>5, <1>6 DEF IsGrown, f
<1>8. QED
  BY <1>4, <1>5, <1>7 DEF Grows, Grown, d, x, f

\* What is known of the board b after n records, and that the deltas s lead from
\* there to the board d after m records.
Reached(t, b, n, c) == IF t = "feed" THEN c.feed = b.feed /\ c.top <= n ELSE c = b.stale[t]
Advances(t, s, b, n, d, m) ==
  \A a \in Stages(t) : Reached(t, b, n, a) =>
    \E c : Leads(Stages(t), Causes(t), a, s, c) /\ Reached(t, d, m, c)

LEMMA IdleAdvances ==
  ASSUME NEW t \in Parts, NEW s \in Deltas, Idle(t, s), NEW b, NEW d, Shown(t, d) = Shown(t, b),
         NEW n \in Nat, NEW m \in Nat, n <= m
  PROVE  Advances(t, s, b, n, d, m)
<1> SUFFICES ASSUME NEW a \in Stages(t), Reached(t, b, n, a)
             PROVE  Leads(Stages(t), Causes(t), a, s, a) /\ Reached(t, d, m, a)
  BY DEF Advances
<1>1. Leads(Stages(t), Causes(t), a, s, a)
  BY IdleLeads
<1>2. CASE t = "feed"
  <2>1. a.top \in Nat
    BY <1>2, StageFields DEF Stages
  <2>2. QED
    BY <1>1, <1>2, <2>1 DEF Reached, Shown
<1>3. CASE t # "feed"
  BY <1>1, <1>3 DEF Reached, Shown
<1>4. QED
  BY <1>2, <1>3

LEMMA ReplyAdvances ==
  ASSUME NEW b, GoodBoard(b), NEW n \in Nat, NEW reply \in Replies, NEW cause \in Tasks
  PROVE  Advances("feed", ReplyDeltas(b, reply, cause, n + 1), b, n, ApplyReply(b, reply, cause, n + 1), n + 1)
<1> DEFINE e == ReplyEntry(b, reply, cause, n + 1)
           d == ApplyReply(b, reply, cause, n + 1)
<1>1. e \in Entry /\ e.at = n + 1
  BY ReplyEntryType DEF ReplyEntry
<1>2. ReplyDeltas(b, reply, cause, n + 1) = <<[type |-> "message", entry |-> e]>>
  BY DEF ReplyDeltas
<1>3. d.feed = Pushed(b.feed, e, FeedLimit)
  <2>1. n + 1 \in Nat
    OBVIOUS
  <2>2. QED
    BY <2>1, ApplyReplyFields
<1> HIDE DEF e, d
<1> SUFFICES ASSUME NEW a \in Stage, a.feed = b.feed, a.top <= n
             PROVE  \E c : /\ Leads(Stage, Grown, a, <<[type |-> "message", entry |-> e]>>, c)
                           /\ c.feed = d.feed /\ c.top <= n + 1
  BY <1>2 DEF Advances, Stages, Causes, Reached, d
<1> DEFINE c == [feed |-> Pushed(a.feed, e, FeedLimit), top |-> e.at, count |-> a.count + 1]
           x == [type |-> "message", entry |-> e]
<1>4. e.at > a.top
  <2>1. a.top \in Nat
    BY StageFields
  <2>2. QED
    BY <1>1, <2>1
<1>5. c \in Stage /\ Grows(a, x, c)
  BY <1>1, <1>4, GrowsByMessage
<1>6. c.feed = d.feed /\ c.top <= n + 1
  BY <1>1, <1>3
<1> HIDE DEF c, x
<1>7. Leads(Stage, Grown, a, <<x>>, c)
  BY <1>5, LeadsOne DEF Grows
<1>8. QED
  BY <1>6, <1>7 DEF x

LEMMA TaskAdvances ==
  ASSUME NEW b, GoodBoard(b), NEW n \in Nat, Dated(b, n), NEW task \in Tasks
  PROVE  Advances("feed", TaskDeltas(b, task, n + 1), b, n, ApplyTask(b, task, n + 1), n + 1)
<1> DEFINE e == TaskEntry(task, n + 1)
           W == Waiting(Posted(b, e), task)
           d == ApplyTask(b, task, n + 1)
           x == [type |-> "message", entry |-> e]
<1>1. e \in Entry /\ e.at = n + 1 /\ e.id = task /\ n + 1 \in Nat
  BY TaskEntryType DEF TaskEntry
<1>2. PICK s \in Seq(Delta) :
        TaskDeltas(b, task, n + 1) = <<x>> \o s /\ Range(s) = {[type |-> "target", at |-> w] : w \in W}
  BY <1>1, TaskDeltasAre
<1>3. d.feed = Targeted(Pushed(b.feed, e, FeedLimit), W)
  <2> DEFINE q == TaskPosted(b, task, n + 1)
             r == Posted(b, e)
  <2>1. /\ q.feed = Pushed(b.feed, e, FeedLimit)
        /\ q.held = Pushed(Popped(b.held, HeldUnder(b, task)), [id |-> task, at |-> n + 1], FeedLimit)
        /\ q.orphans = b.orphans
    BY <1>1, TaskPostedType
  <2>2. /\ r.held = Pushed(Popped(b.held, HeldUnder(b, task)), [id |-> task, at |-> n + 1], FeedLimit)
        /\ r.orphans = b.orphans
    <3> HIDE DEF e
    <3>1. QED
      BY <1>1, PostedType
  <2>3. d.feed = Targeted(q.feed, Waiting(q, task))
    BY <1>1, ApplyTaskFields
  <2> HIDE DEF q, r
  <2>4. Waiting(q, task) = Waiting(r, task)
    BY <2>1, <2>2 DEF Waiting, Expecting, OrphansOf
  <2>5. QED
    BY <2>1, <2>3, <2>4 DEF r
<1>4. \A w \in W : w \in Nat /\ w <= n + 1
  <2> HIDE DEF e
  <2> DEFINE r == Posted(b, e)
  <2>1. GoodBoard(r) /\ IsPosted(r.feed, r.held, b, e)
    <3>1. /\ GoodBoard(r) /\ r.feed = Pushed(b.feed, e, FeedLimit)
          /\ r.held = Pushed(Popped(b.held, HeldUnder(b, e.id)), [id |-> e.id, at |-> e.at], FeedLimit)
      BY <1>1, PostedType
    <3>2. IsPosted(r.feed, r.held, b, e)
      BY <1>1, <3>1, PostedPlaces
    <3>3. QED
      BY <3>1, <3>2
  <2>2. \A h \in Range(r.held) : h.at <= n + 1
    BY <1>1, <2>1, PostedDated
  <2>3. Waiting(r, task) \subseteq Nat
    BY <2>1, WaitingType
  <2>4. QED
    BY <2>2, <2>3 DEF Waiting
<1>5. x \in Delta
  BY <1>1, MessageType
<1> HIDE DEF e, W, d
<1> SUFFICES ASSUME NEW a \in Stage, a.feed = b.feed, a.top <= n
             PROVE  \E c : Leads(Stage, Grown, a, <<x>> \o s, c) /\ c.feed = d.feed /\ c.top <= n + 1
  BY <1>2 DEF Advances, Stages, Causes, Reached, d
<1> DEFINE c == [feed |-> Pushed(a.feed, e, FeedLimit), top |-> e.at, count |-> a.count + 1]
<1>6. e.at > a.top
  <2>1. a.top \in Nat
    BY StageFields
  <2>2. QED
    BY <1>1, <2>1
<1>7. c \in Stage /\ Grows(a, x, c)
  BY <1>1, <1>6, GrowsByMessage
<1>8. c.feed = Pushed(b.feed, e, FeedLimit) /\ c.top = n + 1
  BY <1>1
<1> HIDE DEF c, x
<1>9. Leads(Stage, Grown, a, <<x>>, c)
  BY <1>7, LeadsOne DEF Grows
<1>10. Leads(Stage, Grown, c, s, WithTargets(c, W))
  BY <1>2, <1>4, <1>7, <1>8, TargetsLead DEF Deltas
<1>11. Leads(Stage, Grown, a, <<x>> \o s, WithTargets(c, W))
  <2>1. <<x>> \in Deltas /\ s \in Deltas
    BY <1>2, <1>5 DEF Deltas
  <2>2. QED
    BY <1>9, <1>10, <2>1, LeadsJoin
<1>12. WithTargets(c, W).feed = d.feed /\ WithTargets(c, W).top <= n + 1
  BY <1>1, <1>3, <1>8 DEF WithTargets
<1>13. QED
  BY <1>11, <1>12

LEMMA MarkAdvances ==
  ASSUME NEW b, GoodBoard(b), NEW n, NEW source \in Sources, NEW flag \in BOOLEAN
  PROVE  Advances(source, MarkDeltas(b, source, flag), b, n, Marked(b, source, flag), n)
<1> DEFINE s == MarkDeltas(b, source, flag)
           d == Marked(b, source, flag)
           x == [type |-> "stale", source |-> source, flag |-> flag]
<1>1. b.stale \in [Sources -> BOOLEAN] /\ source \in Parts /\ source # "feed"
  BY DEF GoodBoard, Board, Sources, Parts
<1>2. d.stale[source] = flag
  <2>1. d.stale = [b.stale EXCEPT ![source] = flag]
    BY MarkedFields
  <2> HIDE DEF d
  <2>2. QED
    BY <1>1, <2>1
<1>3. b.stale[source] = flag => s = <<>>
  BY MarkedFields
<1>4. b.stale[source] # flag => s = <<x>>
  BY MarkedFields
<1> HIDE DEF s, d
<1>5. Leads(BOOLEAN, Changes(source), b.stale[source], s, flag)
  <2>1. CASE b.stale[source] = flag
    BY <1>3, <2>1, LeadsNone
  <2>2. CASE b.stale[source] # flag
    <3>1. x \in Delta /\ x.type = "stale" /\ x.source = source /\ x.flag = flag
      BY StaleType
    <3>2. s = <<x>> /\ b.stale[source] \in BOOLEAN
      BY <1>1, <1>4, <2>2
    <3> HIDE DEF x
    <3>3. <<b.stale[source], x, flag>> \in Changes(source)
      BY <1>1, <3>1, <3>2 DEF Changes, States, Changing
    <3>4. QED
      BY <3>2, <3>3, LeadsOne
  <2>3. QED
    BY <2>1, <2>2
<1>6. ASSUME NEW a \in Stages(source), Reached(source, b, n, a)
      PROVE  Leads(Stages(source), Causes(source), a, s, flag) /\ Reached(source, d, n, flag)
  <2>1. a = b.stale[source]
    BY <1>1, <1>6 DEF Reached
  <2>2. QED
    BY <1>1, <1>2, <1>5, <2>1 DEF Stages, Causes, Reached
<1>7. QED
  BY <1>6 DEF Advances, s, d

\* Where more deltas are put among those under way.
LEMMA LeadsWiden ==
  ASSUME NEW S, NEW R, NEW a, NEW c, NEW u \in Deltas, NEW s \in Deltas, NEW v \in Deltas,
         Leads(S, R, a, u \o v, c), \A b \in S : Leads(S, R, b, s, b)
  PROVE  Leads(S, R, a, u \o (s \o v), c)
<1>1. PICK b \in S : Leads(S, R, a, u, b) /\ Leads(S, R, b, v, c)
  BY LeadsSplit
<1>2. Leads(S, R, b, s \o v, c)
  BY <1>1, LeadsJoin
<1>3. s \o v \in Deltas
  BY DeltasJoin
<1>4. QED
  BY <1>1, <1>2, <1>3, LeadsJoin

LEMMA LeadsLate ==
  ASSUME NEW S, NEW R, NEW a, NEW c, NEW d, NEW u \in Deltas, NEW s \in Deltas, NEW v \in Deltas,
         Leads(S, R, a, u \o v, c), Leads(S, R, c, s, d),
         \A b : Leads(S, R, b, v, c) => b = c, Leads(S, R, d, v, d)
  PROVE  Leads(S, R, a, u \o (s \o v), d)
<1>1. Leads(S, R, a, u, c)
  <2>1. PICK b \in S : Leads(S, R, a, u, b) /\ Leads(S, R, b, v, c)
    BY LeadsSplit
  <2>2. QED
    BY <2>1
<1>2. Leads(S, R, c, s \o v, d)
  BY LeadsJoin
<1>3. s \o v \in Deltas
  BY DeltasJoin
<1>4. QED
  BY <1>1, <1>2, <1>3, LeadsJoin

LEMMA StepsSame ==
  ASSUME NEW S, NEW R, NEW a, NEW b, NEW s \in Deltas, Leads(S, R, a, s, b),
         \A i \in 1 .. Len(s) : \A x, y : <<x, s[i], y>> \in R => x = y
  PROVE  a = b
<1> DEFINE n == Len(s)
<1>1. n \in Nat
  BY DEF Deltas
<1>2. PICK f : f[0] = a /\ f[n] = b /\ \A i \in 1 .. n : <<f[i - 1], s[i], f[i]>> \in R
  BY DEF Leads
<1> HIDE DEF n
<1> DEFINE G == {k \in 0 .. n : f[k] = a}
<1>3. G \in SUBSET (0 .. n) /\ 0 \in G /\ n \in 0 .. n
  BY <1>1, <1>2
<1>4. ASSUME NEW k \in 1 .. n, k - 1 \in G PROVE k \in G
  <2>1. f[k - 1] = f[k]
    BY <1>2 DEF n
  <2>2. k \in 0 .. n
    BY <1>1
  <2>3. QED
    BY <1>4, <2>1, <2>2
<1> HIDE DEF G
<1>5. n \in G
  BY <1>1, <1>3, <1>4, Induct
<1>6. QED
  BY <1>2, <1>5 DEF G

LEMMA IdleSame ==
  ASSUME NEW t \in Parts, NEW s \in Deltas, Idle(t, s), NEW a, NEW b
  PROVE  /\ Leads(States(t), Changes(t), a, s, b) => a = b
         /\ Leads(Stages(t), Causes(t), a, s, b) => a = b
<1>1. ASSUME NEW i \in 1 .. Len(s), NEW x, NEW y, <<x, s[i], y>> \in Changes(t) PROVE x = y
  BY <1>1 DEF Changes, Idle, Changing, Fed
<1>2. ASSUME NEW i \in 1 .. Len(s), NEW x, NEW y, <<x, s[i], y>> \in Causes(t) PROVE x = y
  <2>1. CASE t = "feed"
    <3>1. IsGrown(x, s[i], y)
      BY <1>2, <2>1 DEF Causes, Grown
    <3>2. QED
      BY <2>1, <3>1 DEF Idle, IsGrown
  <2>2. CASE t # "feed"
    BY <1>1, <1>2, <2>2 DEF Causes
  <2>3. QED
    BY <2>1, <2>2
<1>3. QED
  BY <1>1, <1>2, StepsSame

-----------------------------------------------------------------------------
(* A page's feed and flags follow the board's *)

\* The deltas that a part of the board has under way, in the order they arrive.
Out(t) == IF t = "context" THEN pollerOut ELSE readerOut
Under(t) == Queue \o Out(t)

\* They lead from some stage to the board's, and every page to what the board has.
Based(t) ==
  \E a, c \in Stages(t) : Leads(Stages(t), Causes(t), a, Under(t), c) /\ Reached(t, board, records, c)
Follows(t, p) == Leads(States(t), Changes(t), Shown(t, view[p]), pending[p] \o Under(t), Shown(t, board))
PartInv(t) == Based(t) /\ \A p \in Subscribers : ~overflowed[p] => Follows(t, p)

\* Each thread publishes nothing of the other's parts.
Apart ==
  /\ Idle("context", readerOut) /\ Idle("feed", pollerOut) /\ Idle("kafka", pollerOut)
  /\ poller = "polled" => Idle("context", pollerOut)

FeedInv == Threads /\ Apart /\ \A t \in Parts : PartInv(t)

LEMMA UnderType ==
  ASSUME TypeOK, NEW t
  PROVE  Queue \in Deltas /\ Out(t) \in Deltas /\ Under(t) \in Deltas /\ \A p \in Pages : pending[p] \in Deltas
<1>1. Queue \in Deltas /\ Out(t) \in Deltas /\ \A p \in Pages : pending[p] \in Deltas
  BY UnderWay DEF Out
<1>2. QED
  BY <1>1, DeltasJoin DEF Under

LEMMA ReachedFace ==
  ASSUME NEW t, NEW b, NEW n, NEW c, Reached(t, b, n, c)
  PROVE  Face(t, c) = Shown(t, b)
BY DEF Reached, Face, Shown

\* A page that shows what the board has is led back to it.
LEMMA Settled ==
  ASSUME TypeOK, NEW t \in Parts, PartInv(t)
  PROVE  Leads(States(t), Changes(t), Shown(t, board), Under(t), Shown(t, board))
<1>1. PICK a, c \in Stages(t) : Leads(Stages(t), Causes(t), a, Under(t), c) /\ Reached(t, board, records, c)
  BY DEF PartInv, Based
<1>2. Under(t) \in Deltas
  BY UnderType
<1>3. Leads(States(t), Changes(t), Face(t, c), Under(t), Face(t, c))
  BY <1>1, <1>2, Settles
<1>4. QED
  BY <1>1, <1>3, ReachedFace

\* A call of the board puts deltas before those under way that say nothing of a part.
LEMMA Inserted ==
  ASSUME TypeOK, NEW t \in Parts, PartInv(t), NEW u \in Deltas, NEW s \in Deltas, NEW v \in Deltas,
         Under(t) = u \o v, Under(t)' = u \o (s \o v), Idle(t, v),
         Advances(t, s, board, records, board', records'),
         UNCHANGED <<page, pending, overflowed, view>>
  PROVE  PartInv(t)'
<1>1. PICK a, c \in Stages(t) : Leads(Stages(t), Causes(t), a, u \o v, c) /\ Reached(t, board, records, c)
  BY DEF PartInv, Based
<1>2. PICK d : Leads(Stages(t), Causes(t), c, s, d) /\ Reached(t, board', records', d)
  BY <1>1 DEF Advances
<1>3. d \in Stages(t)
  BY <1>2, LeadsEnds
<1>4. Based(t)'
  <2>1. Leads(Stages(t), Causes(t), d, v, d) /\ \A b : Leads(Stages(t), Causes(t), b, v, c) => b = c
    BY <1>3, IdleLeads, IdleSame
  <2>2. Leads(Stages(t), Causes(t), a, u \o (s \o v), d)
    BY <1>1, <1>2, <2>1, LeadsLate
  <2>3. QED
    BY <1>2, <1>3, <2>2 DEF Based
<1>5. Leads(States(t), Changes(t), Shown(t, board), s, Shown(t, board'))
  BY <1>1, <1>2, Faces, ReachedFace
<1>6. ASSUME NEW p \in Subscribers', ~overflowed'[p] PROVE Follows(t, p)'
  <2>1. p \in Pages /\ p \in Subscribers /\ ~overflowed[p] /\ pending'[p] = pending[p] /\ view'[p] = view[p]
    BY <1>6 DEF Subscribers
  <2> DEFINE w == pending[p]
             x == Shown(t, view[p])
  <2>2. w \in Deltas
    BY <2>1, UnderType
  <2>3. Leads(States(t), Changes(t), x, w \o (u \o v), Shown(t, board))
    BY <2>1 DEF PartInv, Follows
  <2>4. pending'[p] = w /\ Shown(t, view'[p]) = x
    BY <2>1
  <2> HIDE DEF w, x
  <2>5. w \o (u \o v) = (w \o u) \o v /\ w \o u \in Deltas /\ s \o v \in Deltas
        /\ w \o (u \o (s \o v)) = (w \o u) \o (s \o v)
    <3>1. s \o v \in Deltas
      BY DeltasJoin
    <3>2. QED
      BY <2>2, <3>1, DeltasJoin
  <2>6. Shown(t, board') \in States(t)
    BY <1>5, LeadsEnds
  <2>7. /\ Leads(States(t), Changes(t), Shown(t, board'), v, Shown(t, board'))
        /\ \A b : Leads(States(t), Changes(t), b, v, Shown(t, board)) => b = Shown(t, board)
    BY <2>6, IdleLeads, IdleSame
  <2>8. Leads(States(t), Changes(t), x, (w \o u) \o (s \o v), Shown(t, board'))
    BY <1>5, <2>3, <2>5, <2>7, LeadsLate
  <2>9. Leads(States(t), Changes(t), x, w \o Under(t)', Shown(t, board'))
    BY <2>5, <2>8
  <2>10. QED
    BY <2>4, <2>9 DEF Follows
<1>7. QED
  BY <1>4, <1>6 DEF PartInv

\* Deltas of other parts come between.
LEMMA Widened ==
  ASSUME TypeOK, NEW t \in Parts, PartInv(t), NEW u \in Deltas, NEW s \in Deltas, NEW v \in Deltas,
         Under(t) = u \o v, Under(t)' = u \o (s \o v), Idle(t, s),
         UNCHANGED <<board, records, page, pending, overflowed, view>>
  PROVE  PartInv(t)'
<1>1. PICK a, c \in Stages(t) : Leads(Stages(t), Causes(t), a, u \o v, c) /\ Reached(t, board, records, c)
  BY DEF PartInv, Based
<1>2. /\ \A b \in Stages(t) : Leads(Stages(t), Causes(t), b, s, b)
      /\ \A b \in States(t) : Leads(States(t), Changes(t), b, s, b)
  BY IdleLeads
<1>3. Based(t)'
  <2>1. Leads(Stages(t), Causes(t), a, u \o (s \o v), c)
    BY <1>1, <1>2, LeadsWiden
  <2>2. QED
    BY <1>1, <2>1 DEF Based
<1>4. ASSUME NEW p \in Subscribers', ~overflowed'[p] PROVE Follows(t, p)'
  <2>1. p \in Pages /\ p \in Subscribers /\ ~overflowed[p] /\ pending'[p] = pending[p] /\ view'[p] = view[p]
    BY <1>4 DEF Subscribers
  <2> DEFINE w == pending[p]
             x == Shown(t, view[p])
  <2>2. w \in Deltas
    BY <2>1, UnderType
  <2>3. Leads(States(t), Changes(t), x, w \o (u \o v), Shown(t, board))
    BY <2>1 DEF PartInv, Follows
  <2>4. pending'[p] = w /\ Shown(t, view'[p]) = x
    BY <2>1
  <2> HIDE DEF w, x
  <2>5. w \o (u \o v) = (w \o u) \o v /\ w \o u \in Deltas /\ w \o (u \o (s \o v)) = (w \o u) \o (s \o v)
    <3>1. s \o v \in Deltas
      BY DeltasJoin
    <3>2. QED
      BY <2>2, <3>1, DeltasJoin
  <2>6. Leads(States(t), Changes(t), x, (w \o u) \o (s \o v), Shown(t, board))
    BY <1>2, <2>3, <2>5, LeadsWiden
  <2>7. QED
    BY <2>4, <2>5, <2>6 DEF Follows
<1>5. QED
  BY <1>3, <1>4 DEF PartInv

\* Lists of deltas of one type say nothing of the parts that others carry.
LEMMA IdleByType ==
  ASSUME NEW t \in Parts, NEW s \in Seq(Delta), NEW kinds, \A x \in Range(s) : x.type \in kinds,
         t = "feed" => "message" \notin kinds /\ "target" \notin kinds, t # "feed" => "stale" \notin kinds
  PROVE  Idle(t, s)
<1>1. \A i \in 1 .. Len(s) : s[i] \in Range(s)
  BY DEF Range
<1>2. QED
  BY <1>1 DEF Idle

LEMMA IdleOne ==
  ASSUME NEW t, NEW x, IF t = "feed" THEN x.type \notin {"message", "target"} ELSE ~(x.type = "stale" /\ x.source = t)
  PROVE  Idle(t, <<x>>)
BY DEF Idle

LEMMA TaskIdle ==
  ASSUME NEW b, GoodBoard(b), NEW task \in Tasks, NEW at \in Nat, NEW t \in {"kafka", "context"}
  PROVE  Idle(t, TaskDeltas(b, task, at))
<1> DEFINE m == [type |-> "message", entry |-> TaskEntry(task, at)]
           W == Waiting(Posted(b, TaskEntry(task, at)), task)
<1>1. PICK s \in Seq(Delta) :
        TaskDeltas(b, task, at) = <<m>> \o s /\ Range(s) = {[type |-> "target", at |-> w] : w \in W}
  BY TaskDeltasAre
<1>2. m \in Delta /\ m.type = "message"
  BY TaskEntryType, MessageType
<1>3. \A x \in Range(s) : x.type \in {"target"}
  BY <1>1
<1> HIDE DEF m, W
<1>4. Idle(t, <<m>>) /\ <<m>> \in Deltas
  BY <1>2, IdleOne DEF Deltas
<1>5. Idle(t, s) /\ s \in Deltas
  BY <1>3, IdleByType DEF Parts, Deltas
<1>6. QED
  BY <1>1, <1>4, <1>5, IdleJoin

LEMMA ReplyIdle ==
  ASSUME NEW b, NEW reply \in Replies, NEW cause, NEW at \in Nat, NEW t \in {"kafka", "context"}
  PROVE  Idle(t, ReplyDeltas(b, reply, cause, at))
<1> DEFINE m == [type |-> "message", entry |-> ReplyEntry(b, reply, cause, at)]
<1>1. m.type = "message"
  OBVIOUS
<1>2. ReplyDeltas(b, reply, cause, at) = <<m>>
  BY DEF ReplyDeltas
<1> HIDE DEF m
<1>3. Idle(t, <<m>>)
  BY <1>1, IdleOne
<1>4. QED
  BY <1>2, <1>3

LEMMA LatencyIdle ==
  ASSUME NEW b, NEW d, NEW decided, NEW t \in Parts
  PROVE  Idle(t, LatencyDeltas(b, d, decided))
<1> DEFINE x == [type |-> "device", device |-> d, row |-> ApplyLatency(b, d, decided).rows[d]]
<1>1. x.type = "device"
  OBVIOUS
<1>2. LatencyDeltas(b, d, decided) = <<>> \/ LatencyDeltas(b, d, decided) = <<x>>
  BY DEF LatencyDeltas
<1> HIDE DEF x
<1>3. Idle(t, <<x>>)
  BY <1>1, IdleOne
<1>4. QED
  BY <1>2, <1>3, IdleNone

LEMMA PollIdle ==
  ASSUME NEW b, GoodBoard(b), NEW listed \in Listings, NEW t \in Parts
  PROVE  Idle(t, DeviceDeltas(b, listed))
<1>1. DeviceDeltas(b, listed) \in Seq(Delta) /\ \A x \in Range(DeviceDeltas(b, listed)) : x.type \in {"device"}
  BY DeviceDeltasType
<1>2. QED
  BY <1>1, IdleByType

LEMMA MarkIdle ==
  ASSUME NEW b, GoodBoard(b), NEW source \in Sources, NEW flag \in BOOLEAN, NEW t \in Parts, t # source
  PROVE  Idle(t, MarkDeltas(b, source, flag)) /\ Shown(t, Marked(b, source, flag)) = Shown(t, b)
<1> DEFINE x == [type |-> "stale", source |-> source, flag |-> flag]
           d == Marked(b, source, flag)
<1>1. x.type = "stale" /\ x.source = source
  OBVIOUS
<1>2. MarkDeltas(b, source, flag) = <<>> \/ MarkDeltas(b, source, flag) = <<x>>
  BY DEF MarkDeltas
<1> HIDE DEF x
<1>3. Idle(t, <<x>>)
  BY <1>1, IdleOne
<1>4. d.feed = b.feed /\ d.stale = [b.stale EXCEPT ![source] = flag] /\ b.stale \in [Sources -> BOOLEAN]
  <2>1. d.feed = b.feed /\ d.stale = [b.stale EXCEPT ![source] = flag]
    BY MarkedFields
  <2>2. QED
    BY <2>1 DEF GoodBoard, Board
<1> HIDE DEF d
<1>5. Shown(t, d) = Shown(t, b)
  BY <1>4 DEF Shown, Parts, Sources
<1>6. QED
  BY <1>2, <1>3, <1>5, IdleNone DEF d

LEMMA Appended ==
  ASSUME TypeOK, NEW t \in Parts, PartInv(t), NEW s \in Deltas, Under(t)' = Under(t) \o s,
         Advances(t, s, board, records, board', records'),
         UNCHANGED <<page, pending, overflowed, view>>
  PROVE  PartInv(t)'
<1> DEFINE none == <<>>
           u == Under(t)
<1>1. u \in Deltas
  BY UnderType
<1>2. none \in Deltas /\ u = u \o none /\ s = s \o none
  BY <1>1, DeltasJoin
<1>3. Idle(t, none)
  BY IdleNone
<1> HIDE DEF none
<1>4. Under(t) = u \o none /\ Under(t)' = u \o (s \o none)
  BY <1>2
<1> HIDE DEF u
<1>5. QED
  BY <1>1, <1>2, <1>3, <1>4, Inserted

\* A step that a part takes no notice of.
LEMMA Unnoticed ==
  ASSUME TypeOK, NEW t \in Parts, PartInv(t), Under(t)' = Under(t), Shown(t, board') = Shown(t, board),
         records' \in Nat, records <= records', UNCHANGED <<page, pending, overflowed, view>>
  PROVE  PartInv(t)'
<1> DEFINE none == <<>>
<1>1. none \in Deltas /\ Under(t)' = Under(t) \o none
  BY UnderType, DeltasJoin
<1>2. Idle(t, none)
  BY IdleNone
<1> HIDE DEF none
<1>3. records \in Nat
  BY DEF TypeOK
<1>4. Advances(t, none, board, records, board', records')
  BY <1>1, <1>2, <1>3, IdleAdvances
<1>5. QED
  BY <1>1, <1>4, Appended

LEMMA ReaderUnder ==
  ASSUME TypeOK, NEW s \in Deltas, readerOut' = readerOut \o s, UNCHANGED <<pollerOut, queue>>
  PROVE  Under("context")' = Under("context") /\ \A t \in {"feed", "kafka"} : Under(t)' = Under(t) \o s
<1>1. Queue' = Queue /\ Queue \in Deltas /\ readerOut \in Deltas
  BY UnderWay DEF Queue
<1>2. Queue \o (readerOut \o s) = (Queue \o readerOut) \o s
  BY <1>1, DeltasJoin
<1>3. QED
  BY <1>1, <1>2 DEF Under, Out

\* The reader adds the deltas of a call.
LEMMA FeedReader ==
  ASSUME TypeOK, FeedInv, Threads', NEW s \in Deltas, readerOut' = readerOut \o s, Idle("context", s),
         \A t \in {"feed", "kafka"} : Advances(t, s, board, records, board', records'),
         Shown("context", board') = Shown("context", board), records' \in Nat, records <= records',
         UNCHANGED <<poller, pollerOut, queue, page, pending, overflowed, view>>
  PROVE  FeedInv'
<1>1. Under("context")' = Under("context") /\ \A t \in {"feed", "kafka"} : Under(t)' = Under(t) \o s
  BY ReaderUnder
<1>2. \A t \in Parts : PartInv(t)
  BY DEF FeedInv
<1>3. PartInv("context")'
  BY <1>1, <1>2, Unnoticed DEF Parts
<1>4. ASSUME NEW t \in {"feed", "kafka"} PROVE PartInv(t)'
  BY <1>1, <1>2, <1>4, Appended DEF Parts
<1>5. Apart'
  <2>1. readerOut \in Deltas
    BY UnderWay
  <2>2. Idle("context", readerOut \o s)
    BY <2>1, IdleJoin DEF FeedInv, Apart
  <2>3. QED
    BY <2>2 DEF FeedInv, Apart
<1>6. QED
  BY <1>3, <1>4, <1>5 DEF FeedInv, Parts

LEMMA FeedReadMessage ==
  ASSUME TypeOK, RepliesInv, FeedInv,
         \/ \E task \in Tasks : ReadTask(task)
         \/ \E reply \in Replies, cause \in Tasks : ReadReply(reply, cause)
  PROVE  FeedInv'
<1>1. GoodBoard(board) /\ records \in Nat /\ records + 1 \in Nat /\ Dated(board, records)
  BY BoardGood DEF TypeOK, RepliesInv
<1>2. PICK c, s : /\ ReaderAdds(c, s) /\ s \in Seq(Delta)
                  /\ c.stale = board.stale /\ Idle("kafka", s) /\ Idle("context", s)
                  /\ Advances("feed", s, board, records, c, records + 1)
  <2>1. ASSUME NEW task \in Tasks, ReadTask(task)
        PROVE  \E c, s : /\ ReaderAdds(c, s) /\ s \in Seq(Delta)
                         /\ c.stale = board.stale /\ Idle("kafka", s) /\ Idle("context", s)
                         /\ Advances("feed", s, board, records, c, records + 1)
    <3> DEFINE c == ApplyTask(board, task, records + 1)
               s == TaskDeltas(board, task, records + 1)
    <3>1. s \in Seq(Delta) /\ Idle("kafka", s) /\ Idle("context", s)
      BY <1>1, TaskDeltasType, TaskIdle
    <3>2. c.stale = board.stale
      BY <1>1, ApplyTaskFields
    <3>3. ReaderAdds(c, s)
      BY <2>1 DEF ReadTask
    <3>4. Advances("feed", s, board, records, c, records + 1)
      BY <1>1, TaskAdvances
    <3> HIDE DEF c, s
    <3>5. QED
      BY <3>1, <3>2, <3>3, <3>4
  <2>2. ASSUME NEW reply \in Replies, NEW cause \in Tasks, ReadReply(reply, cause)
        PROVE  \E c, s : /\ ReaderAdds(c, s) /\ s \in Seq(Delta)
                         /\ c.stale = board.stale /\ Idle("kafka", s) /\ Idle("context", s)
                         /\ Advances("feed", s, board, records, c, records + 1)
    <3> DEFINE c == ApplyReply(board, reply, cause, records + 1)
               s == ReplyDeltas(board, reply, cause, records + 1)
    <3>1. s \in Seq(Delta) /\ Idle("kafka", s) /\ Idle("context", s)
      BY <1>1, ReplyDeltasType, ReplyIdle
    <3>2. c.stale = board.stale
      BY <1>1, ApplyReplyFields
    <3>3. ReaderAdds(c, s)
      BY <2>2 DEF ReadReply
    <3>4. Advances("feed", s, board, records, c, records + 1)
      BY <1>1, ReplyAdvances
    <3> HIDE DEF c, s
    <3>5. QED
      BY <3>1, <3>2, <3>3, <3>4
  <2>3. QED
    BY <2>1, <2>2
<1>3. /\ reader' = "batch" /\ board' = c /\ readerOut' = readerOut \o s /\ records' = records + 1
      /\ UNCHANGED <<poller, pollerOut, bound, queue, page, pending, overflowed, view>>
  BY <1>2 DEF ReaderAdds, pollerVars, hubVars
<1>4. records' \in Nat /\ records <= records'
  BY <1>1, <1>3
<1>5. Shown("context", board') = Shown("context", board) /\ Shown("kafka", board') = Shown("kafka", board)
  BY <1>2, <1>3 DEF Shown
<1>6. Advances("kafka", s, board, records, board', records')
  BY <1>1, <1>2, <1>4, <1>5, IdleAdvances DEF Parts, Deltas
<1>7. Advances("feed", s, board, records, board', records')
  BY <1>2, <1>3
<1>8. Threads'
  BY <1>3 DEF FeedInv, Threads, Subscribers
<1>9. QED
  BY <1>2, <1>3, <1>4, <1>5, <1>6, <1>7, <1>8, FeedReader DEF Deltas

LEMMA FeedReadLatency ==
  ASSUME TypeOK, FeedInv, NEW d \in Devices, NEW decided \in 1 .. MaxSeq, ReadLatency(d, decided)
  PROVE  FeedInv'
<1> DEFINE s == LatencyDeltas(board, d, decided)
           c == ApplyLatency(board, d, decided)
<1>1. GoodBoard(board) /\ records \in Nat /\ decided \in Nat
  BY BoardGood DEF TypeOK
<1>2. c.feed = board.feed /\ c.stale = board.stale
  BY <1>1, LatencyFields
<1>3. s \in Deltas /\ \A t \in Parts : Idle(t, s)
  BY <1>1, LatencyDeltasType, LatencyIdle DEF Deltas
<1>4. ReaderAdds(c, s)
  BY DEF ReadLatency
<1> HIDE DEF s, c
<1>5. /\ reader' = "batch" /\ board' = c /\ readerOut' = readerOut \o s /\ records' = records + 1
      /\ UNCHANGED <<poller, pollerOut, bound, queue, page, pending, overflowed, view>>
  BY <1>4 DEF ReaderAdds, pollerVars, hubVars
<1>6. records' \in Nat /\ records <= records'
  BY <1>1, <1>5
<1>7. \A t \in Parts : Shown(t, board') = Shown(t, board)
  BY <1>2, <1>5 DEF Shown
<1>8. ASSUME NEW t \in Parts PROVE Advances(t, s, board, records, board', records')
  BY <1>1, <1>3, <1>6, <1>7, IdleAdvances
<1>9. Threads'
  BY <1>5 DEF FeedInv, Threads, Subscribers
<1>10. QED
  BY <1>3, <1>5, <1>6, <1>7, <1>8, <1>9, FeedReader DEF Parts

LEMMA FeedBatch ==
  ASSUME TypeOK, FeedInv,
         \/ SkipRecord
         \/ \E failed, alone, due \in BOOLEAN : ReadBatch(failed, alone, due)
         \/ ReadFails
  PROVE  FeedInv'
<1>1. GoodBoard(board) /\ records \in Nat /\ readerOut \in Deltas /\ "kafka" \in Sources
  BY BoardGood, UnderWay DEF TypeOK, Sources
<1>2. PICK flag \in BOOLEAN :
        \/ board' = Marked(board, "kafka", flag) /\ readerOut' = readerOut \o MarkDeltas(board, "kafka", flag)
        \/ board' = board /\ readerOut' = readerOut
  BY BatchMarks DEF FeedInv
<1>3. /\ UNCHANGED <<records, poller, pollerOut, bound, queue, page, pending, overflowed, view>>
      /\ reader' = "idle" => readerOut' = <<>>
  BY DEF SkipRecord, ReadBatch, ReadFails, pollerVars, hubVars, boundVars
<1>4. Threads'
  BY <1>3 DEF FeedInv, Threads, Subscribers
<1>5. PICK s \in Deltas :
        /\ readerOut' = readerOut \o s
        /\ \A t \in {"feed", "context"} : Idle(t, s) /\ Shown(t, board') = Shown(t, board)
        /\ Advances("kafka", s, board, records, board', records')
  <2>1. CASE board' = Marked(board, "kafka", flag) /\ readerOut' = readerOut \o MarkDeltas(board, "kafka", flag)
    <3> DEFINE s == MarkDeltas(board, "kafka", flag)
    <3>1. s \in Deltas
      BY <1>1, MarkedFields DEF Deltas
    <3>2. \A t \in {"feed", "context"} : Idle(t, s) /\ Shown(t, board') = Shown(t, board)
      BY <1>1, <2>1, MarkIdle DEF Parts
    <3>3. Advances("kafka", s, board, records, board', records')
      BY <1>1, <1>3, <2>1, MarkAdvances
    <3> HIDE DEF s
    <3>4. QED
      BY <2>1, <3>1, <3>2, <3>3 DEF s
  <2>2. CASE board' = board /\ readerOut' = readerOut
    <3> DEFINE s == <<>>
    <3>1. s \in Deltas /\ readerOut' = readerOut \o s
      BY <1>1, <2>2, DeltasJoin
    <3>2. \A t \in Parts : Idle(t, s)
      BY IdleNone
    <3> HIDE DEF s
    <3>3. Advances("kafka", s, board, records, board', records')
      <4>1. "kafka" \in Parts /\ Idle("kafka", s) /\ Shown("kafka", board') = Shown("kafka", board)
        BY <2>2, <3>2 DEF Parts
      <4>2. records' \in Nat /\ records <= records'
        BY <1>1, <1>3
      <4>3. QED
        BY <1>1, <3>1, <4>1, <4>2, IdleAdvances
    <3>4. QED
      BY <2>2, <3>1, <3>2, <3>3 DEF Parts
  <2>3. QED
    BY <1>2, <2>1, <2>2
<1>6. records' \in Nat /\ records <= records'
  BY <1>1, <1>3
<1>7. Advances("feed", s, board, records, board', records')
  BY <1>1, <1>5, <1>6, IdleAdvances DEF Parts
<1>8. QED
  BY <1>3, <1>4, <1>5, <1>6, <1>7, FeedReader

LEMMA FeedPoll ==
  ASSUME TypeOK, FeedInv, NEW listed \in Listings, Poll(listed)
  PROVE  FeedInv'
<1> DEFINE s == DeviceDeltas(board, listed)
           c == ApplyDevices(board, listed)
<1>1. GoodBoard(board) /\ records \in Nat
  BY BoardGood DEF TypeOK
<1>2. c.feed = board.feed /\ c.stale = board.stale
  BY <1>1, DevicesFields
<1>3. s \in Deltas /\ \A t \in Parts : Idle(t, s)
  BY <1>1, DeviceDeltasType, PollIdle DEF Deltas
<1>4. /\ poller = "idle" /\ poller' = "polled" /\ board' = c /\ pollerOut' = s
      /\ UNCHANGED <<records, reader, readerOut, bound, queue, page, pending, overflowed, view>>
  BY DEF Poll, readerVars, hubVars
<1> HIDE DEF s, c
<1>5. pollerOut = <<>> /\ Threads'
  BY <1>4 DEF FeedInv, Threads, Subscribers
<1>6. ASSUME NEW t \in Parts PROVE Shown(t, board') = Shown(t, board) /\ PartInv(t)
  BY <1>2, <1>4 DEF Shown, FeedInv
<1>7. records' \in Nat /\ records <= records'
  BY <1>1, <1>4
<1>8. ASSUME NEW t \in {"feed", "kafka"} PROVE PartInv(t)'
  <2>1. Under(t)' = Under(t)
    BY <1>4 DEF Under, Out, Queue
  <2>2. t \in Parts
    BY DEF Parts
  <2>3. QED
    BY <1>4, <1>6, <1>7, <2>1, <2>2, Unnoticed
<1>9. PartInv("context")'
  <2>1. "context" \in Parts
    BY DEF Parts
  <2>2. Queue \in Deltas /\ Queue' = Queue
    BY <1>4, UnderWay DEF Queue
  <2>3. Under("context") = Queue
    BY <1>5, <2>2, DeltasJoin DEF Under, Out
  <2>4. Under("context")' = Under("context") \o s
    BY <1>4, <2>2, <2>3 DEF Under, Out
  <2>5. Advances("context", s, board, records, board', records')
    BY <1>1, <1>3, <1>6, <1>7, <2>1, IdleAdvances
  <2>6. QED
    BY <1>3, <1>4, <1>6, <2>1, <2>4, <2>5, Appended
<1>10. Apart'
  BY <1>3, <1>4 DEF FeedInv, Apart, Parts
<1>11. QED
  BY <1>5, <1>8, <1>9, <1>10 DEF FeedInv, Parts

LEMMA FeedMark ==
  ASSUME TypeOK, FeedInv, MarkFresh \/ PollFails
  PROVE  FeedInv'
<1>1. GoodBoard(board) /\ records \in Nat /\ pollerOut \in Deltas /\ "context" \in Sources /\ Queue \in Deltas
  BY BoardGood, UnderWay DEF TypeOK, Sources
<1>2. PICK flag \in BOOLEAN :
        board' = Marked(board, "context", flag) /\ pollerOut' = MarkDeltas(board, "context", flag) \o pollerOut
  BY PollMarks DEF FeedInv
<1>3. /\ UNCHANGED <<records, reader, readerOut, bound, queue, page, pending, overflowed, view>>
      /\ poller' = "idle" => pollerOut' = <<>>
      /\ poller' # "polled"
  BY DEF MarkFresh, PollFails, readerVars, hubVars, boundVars
<1>4. Threads'
  BY <1>3 DEF FeedInv, Threads, Subscribers
<1>5. Idle("context", pollerOut)
  <2>1. CASE MarkFresh
    BY <2>1 DEF MarkFresh, FeedInv, Apart
  <2>2. CASE PollFails
    <3>1. pollerOut = <<>>
      BY <2>2 DEF PollFails, FeedInv, Threads
    <3>2. QED
      BY <3>1, IdleNone
  <2>3. QED
    BY <2>1, <2>2
<1> DEFINE s == MarkDeltas(board, "context", flag)
<1>6. s \in Deltas
  BY <1>1, MarkedFields DEF Deltas
<1>7. ASSUME NEW t \in {"feed", "kafka"} PROVE Idle(t, s) /\ Shown(t, board') = Shown(t, board)
  BY <1>1, <1>2, MarkIdle DEF Parts
<1>8. Advances("context", s, board, records, board', records')
  BY <1>1, <1>2, <1>3, MarkAdvances
<1>9. pollerOut' = s \o pollerOut
  BY <1>2
<1> HIDE DEF s
<1>10. ASSUME NEW t \in {"feed", "kafka"} PROVE PartInv(t)'
  <2>1. Under(t)' = Under(t)
    BY <1>3 DEF Under, Out, Queue
  <2>2. t \in Parts /\ PartInv(t)
    BY DEF Parts, FeedInv
  <2>3. records' \in Nat /\ records <= records'
    BY <1>1, <1>3
  <2>4. QED
    BY <1>3, <1>7, <2>1, <2>2, <2>3, Unnoticed
<1>11. PartInv("context")'
  <2>1. "context" \in Parts /\ PartInv("context")
    BY DEF Parts, FeedInv
  <2>2. Under("context") = Queue \o pollerOut
    BY DEF Under, Out
  <2>3. Under("context")' = Queue \o (s \o pollerOut)
    BY <1>3, <1>9 DEF Under, Out, Queue
  <2>4. QED
    BY <1>1, <1>3, <1>5, <1>6, <1>8, <2>1, <2>2, <2>3, Inserted
<1>12. Apart'
  <2>1. Idle("feed", s \o pollerOut) /\ Idle("kafka", s \o pollerOut)
    BY <1>1, <1>6, <1>7, IdleJoin DEF FeedInv, Apart
  <2>2. QED
    BY <1>3, <1>9, <2>1 DEF FeedInv, Apart
<1>13. QED
  BY <1>4, <1>10, <1>11, <1>12 DEF FeedInv, Parts

\* A thread publishes: what it has stays in order before what is to come, and
\* comes between what the other thread has.
LEMMA FeedPublished ==
  ASSUME TypeOK, FeedInv, NEW t \in Parts, NEW out \in Deltas, Publish(out),
         \/ Out(t) = out /\ Out(t)' = <<>>
         \/ Idle(t, out) /\ Out(t)' = Out(t),
         UNCHANGED <<board, records, page, pending, overflowed, view>>
  PROVE  PartInv(t)'
<1>1. Queue \in Deltas /\ Out(t) \in Deltas /\ queue \in Seq(Deltas)
  BY UnderType, UnderWay
<1>2. PartInv(t) /\ Shown(t, board') = Shown(t, board) /\ records' \in Nat /\ records <= records'
  BY DEF FeedInv, TypeOK
<1>3. CASE bound
  <2>1. Queue' = Queue \o out
    <3>1. queue' = Append(queue, out)
      BY <1>3 DEF Publish
    <3>2. QED
      BY <1>1, <3>1, FlatAppend DEF Queue
  <2>2. CASE Out(t) = out /\ Out(t)' = <<>>
    <3>1. (Queue \o out) \o <<>> = Queue \o out
      BY <1>1, DeltasJoin
    <3>2. Under(t)' = Under(t)
      BY <2>1, <2>2, <3>1 DEF Under
    <3>3. QED
      BY <1>2, <3>2, Unnoticed
  <2>3. CASE Idle(t, out) /\ Out(t)' = Out(t)
    <3>1. (Queue \o out) \o Out(t) = Queue \o (out \o Out(t))
      BY <1>1, DeltasJoin
    <3>2. Under(t) = Queue \o Out(t) /\ Under(t)' = Queue \o (out \o Out(t))
      BY <2>1, <2>3, <3>1 DEF Under
    <3>3. QED
      BY <1>1, <1>2, <2>3, <3>2, Widened
  <2>4. QED
    BY <2>2, <2>3
<1>4. CASE ~bound
  <2>1. queue' = queue /\ queue = <<>> /\ Subscribers = {}
    BY <1>4 DEF Publish, FeedInv, Threads
  <2>2. Queue' = Queue /\ Queue = <<>>
    BY <2>1, FlatNone DEF Queue
  <2>3. CASE Out(t) = out /\ Out(t)' = <<>>
    <3>1. Under(t)' = <<>>
      BY <2>2, <2>3, DeltasJoin DEF Under
    <3>2. PICK c \in Stages(t) : Reached(t, board, records, c)
      BY <1>2 DEF PartInv, Based
    <3>3. Leads(Stages(t), Causes(t), c, <<>>, c) /\ Reached(t, board', records', c)
      BY <3>2, LeadsNone
    <3>4. Based(t)'
      BY <3>1, <3>3 DEF Based
    <3>5. Subscribers' = {}
      BY <2>1 DEF Subscribers
    <3>6. QED
      BY <3>4, <3>5 DEF PartInv
  <2>4. CASE Out(t)' = Out(t)
    <3>1. Under(t)' = Under(t)
      BY <2>2, <2>4 DEF Under
    <3>2. QED
      BY <1>2, <3>1, Unnoticed
  <2>5. QED
    BY <2>3, <2>4
<1>5. QED
  BY <1>3, <1>4

LEMMA FeedReaderPublishes ==
  ASSUME TypeOK, FeedInv, ReaderPublishes
  PROVE  FeedInv'
<1>1. /\ Publish(readerOut) /\ readerOut' = <<>>
      /\ UNCHANGED <<board, records, bound, poller, pollerOut, page, pending, overflowed, view>>
  BY DEF ReaderPublishes, pollerVars, hubVars, boundVars
<1>2. readerOut \in Deltas
  BY UnderWay
<1>3. Threads'
  BY <1>1 DEF FeedInv, Threads, Subscribers, Publish
<1>4. Apart'
  BY <1>1, IdleNone DEF FeedInv, Apart
<1>5. ASSUME NEW t \in Parts PROVE PartInv(t)'
  <2>1. \/ Out(t) = readerOut /\ Out(t)' = <<>>
        \/ Idle(t, readerOut) /\ Out(t)' = Out(t)
    BY <1>1 DEF Out, FeedInv, Apart
  <2>2. QED
    BY <1>1, <1>2, <2>1, FeedPublished
<1>6. QED
  BY <1>3, <1>4, <1>5 DEF FeedInv

LEMMA FeedPollerPublishes ==
  ASSUME TypeOK, FeedInv, PollerPublishes
  PROVE  FeedInv'
<1>1. /\ Publish(pollerOut) /\ pollerOut' = <<>> /\ poller' = "idle"
      /\ UNCHANGED <<board, records, bound, reader, readerOut, page, pending, overflowed, view>>
  BY DEF PollerPublishes, readerVars, hubVars, boundVars
<1>2. pollerOut \in Deltas
  BY UnderWay
<1>3. Threads'
  BY <1>1 DEF FeedInv, Threads, Subscribers, Publish
<1>4. Apart'
  BY <1>1, IdleNone DEF FeedInv, Apart
<1>5. ASSUME NEW t \in Parts PROVE PartInv(t)'
  <2>1. \/ Out(t) = pollerOut /\ Out(t)' = <<>>
        \/ Idle(t, pollerOut) /\ Out(t)' = Out(t)
    BY <1>1 DEF Out, FeedInv, Apart, Parts
  <2>2. QED
    BY <1>1, <1>2, <2>1, FeedPublished
<1>6. QED
  BY <1>3, <1>4, <1>5 DEF FeedInv

LEMMA FeedDispatch ==
  ASSUME TypeOK, FeedInv, Dispatch
  PROVE  FeedInv'
<1> DEFINE h == Head(queue)
<1>1. /\ queue \in Seq(Deltas) /\ \A p \in Pages : pending[p] \in Deltas
      /\ readerOut \in Deltas /\ pollerOut \in Deltas
  BY UnderWay
<1>2. queue # <<>> /\ queue' = Tail(queue) /\ h \in Deltas /\ queue' \in Seq(Deltas)
  BY DispatchFields DEF Deltas
<1>3. /\ UNCHANGED <<board, records, reader, readerOut, poller, pollerOut, bound, page, view>>
      /\ Subscribers' = Subscribers /\ Subscribers \subseteq Pages
  BY DEF Dispatch, readerVars, pollerVars, boundVars, Subscribers
<1>4. Queue = h \o Queue' /\ Queue' \in Deltas
  BY <1>1, <1>2, FlatTail, FlatType DEF Queue
<1>5. ASSUME NEW p \in Subscribers', ~overflowed'[p]
      PROVE  p \in Subscribers /\ ~overflowed[p] /\ pending'[p] = pending[p] \o h
  <2>1. p \in Pages /\ p \in Subscribers
    BY <1>3, <1>5
  <2>2. pending'[p] = Queued(p, h).pending /\ overflowed'[p] = Queued(p, h).overflowed
    BY <2>1, DispatchFields
  <2>3. QED
    BY <1>2, <1>5, <2>1, <2>2, QueuedFields DEF Deltas
<1> HIDE DEF h
<1>6. Threads' /\ Apart'
  BY <1>2, <1>3 DEF FeedInv, Threads, Apart
<1>7. ASSUME NEW t \in Parts PROVE PartInv(t)'
  <2>1. Out(t)' = Out(t) /\ Out(t) \in Deltas
    BY <1>1, <1>3 DEF Out
  <2>2. Under(t)' \in Deltas /\ Under(t) = h \o Under(t)'
    <3> DEFINE q == Queue'
               o == Out(t)
    <3>1. Queue = h \o q /\ q \in Deltas /\ o \in Deltas
      BY <1>4, <2>1
    <3>2. Under(t) = Queue \o o /\ Under(t)' = q \o o
      BY <2>1 DEF Under
    <3> HIDE DEF q, o
    <3>3. (h \o q) \o o = h \o (q \o o) /\ q \o o \in Deltas
      BY <1>2, <3>1, DeltasJoin
    <3>4. QED
      BY <3>1, <3>2, <3>3
  <2>3. PartInv(t)
    BY DEF FeedInv
  <2>4. Based(t)'
    <3>1. PICK a, c \in Stages(t) :
            Leads(Stages(t), Causes(t), a, h \o Under(t)', c) /\ Reached(t, board, records, c)
      BY <2>2, <2>3 DEF PartInv, Based
    <3>2. PICK b \in Stages(t) : Leads(Stages(t), Causes(t), b, Under(t)', c)
      BY <1>2, <2>2, <3>1, LeadsSplit
    <3>3. Reached(t, board', records', c)
      BY <1>3, <3>1
    <3>4. QED
      BY <3>2, <3>3 DEF Based
  <2>5. ASSUME NEW p \in Subscribers', ~overflowed'[p] PROVE Follows(t, p)'
    <3>1. p \in Subscribers /\ ~overflowed[p] /\ pending'[p] = pending[p] \o h /\ p \in Pages
      BY <1>3, <1>5, <2>5
    <3>2. Follows(t, p)
      BY <2>3, <3>1 DEF PartInv
    <3>3. pending'[p] \o Under(t)' = pending[p] \o Under(t)
      <4> DEFINE w == pending[p]
                 u == Under(t)'
      <4>1. w \in Deltas /\ u \in Deltas /\ Under(t) = h \o u /\ pending'[p] = w \o h
        BY <1>1, <2>2, <3>1
      <4> HIDE DEF w, u
      <4>2. (w \o h) \o u = w \o (h \o u)
        BY <1>2, <4>1, DeltasJoin
      <4>3. QED
        BY <4>1, <4>2 DEF w, u
    <3>4. Shown(t, view'[p]) = Shown(t, view[p]) /\ Shown(t, board') = Shown(t, board)
      BY <1>3
    <3>5. QED
      BY <3>2, <3>3, <3>4 DEF Follows
  <2>6. QED
    BY <2>4, <2>5 DEF PartInv
<1>8. QED
  BY <1>6, <1>7 DEF FeedInv

LEMMA FeedPage ==
  ASSUME TypeOK, FeedInv, NEW p \in Pages, Subscribe(p) \/ Resume(p) \/ Take(p) \/ Leave(p)
  PROVE  FeedInv'
<1>1. UNCHANGED <<board, records, reader, readerOut, poller, pollerOut, bound, queue>>
  BY DEF Subscribe, Resume, Take, Leave, readerVars, pollerVars, boundVars
<1>2. Threads' /\ Apart'
  <2>1. ~bound => Subscribers' = {}
    <3>1. ASSUME ~bound PROVE \A q \in Pages : page'[q] = "gone"
      <4>1. \A q \in Pages : page[q] = "gone"
        BY <3>1 DEF FeedInv, Threads, Subscribers
      <4>2. QED
        BY <3>1, <4>1 DEF Subscribe, Resume, Take, Leave
    <3>2. QED
      BY <3>1 DEF Subscribers
  <2>2. QED
    BY <1>1, <2>1 DEF FeedInv, Threads, Apart
<1>3. ASSUME NEW q \in Pages, q # p
      PROVE  /\ page'[q] = page[q] /\ pending'[q] = pending[q] /\ overflowed'[q] = overflowed[q]
             /\ view'[q] = view[q]
  BY <1>3 DEF Subscribe, Resume, Take, Leave, TypeOK
<1>4. ASSUME NEW t \in Parts PROVE PartInv(t)'
  <2>1. PartInv(t)
    BY DEF FeedInv
  <2>2. Under(t)' = Under(t) /\ Under(t) \in Deltas /\ pending[p] \in Deltas /\ view[p] \in View
    <3>1. Under(t)' = Under(t)
      BY <1>1 DEF Under, Out, Queue
    <3>2. QED
      BY <3>1, UnderType, UnderWay
  <2>3. Based(t)'
    BY <1>1, <2>1, <2>2 DEF PartInv, Based
  <2>4. ASSUME NEW q \in Subscribers', ~overflowed'[q], q # p PROVE Follows(t, q)'
    <3>1. q \in Pages /\ q \in Subscribers /\ ~overflowed[q]
      BY <1>3, <2>4 DEF Subscribers
    <3>2. Follows(t, q)
      BY <2>1, <3>1 DEF PartInv
    <3>3. pending'[q] = pending[q] /\ view'[q] = view[q]
      BY <1>3, <2>4, <3>1
    <3>4. QED
      BY <1>1, <2>2, <3>2, <3>3 DEF Follows
  <2>5. ASSUME p \in Subscribers', ~overflowed'[p] PROVE Follows(t, p)'
    <3>1. ASSUME pending'[p] = <<>>, view'[p] = Snapshot PROVE Follows(t, p)'
      <4>1. Leads(States(t), Changes(t), Shown(t, board), Under(t), Shown(t, board))
        BY <2>1, Settled
      <4>2. pending'[p] \o Under(t)' = Under(t)
        BY <2>2, <3>1, DeltasJoin
      <4>3. Shown(t, view'[p]) = Shown(t, board)
        BY <3>1 DEF Shown, Snapshot
      <4>4. Shown(t, board') = Shown(t, board)
        BY <1>1
      <4>5. QED
        BY <4>1, <4>2, <4>3, <4>4 DEF Follows
    <3>2. CASE Subscribe(p)
      BY <3>1, <3>2 DEF Subscribe, TypeOK
    <3>3. CASE Resume(p)
      <4>1. p \in Subscribers /\ ~overflowed[p] /\ UNCHANGED <<pending, view>>
        BY <2>5, <3>3 DEF Resume, Subscribers
      <4>2. Follows(t, p)
        BY <2>1, <4>1 DEF PartInv
      <4>3. QED
        BY <1>1, <2>2, <4>1, <4>2 DEF Follows
    <3>4. CASE Take(p)
      <4>1. CASE overflowed[p]
        BY <3>1, <3>4, <4>1 DEF Take, TypeOK
      <4>2. CASE ~overflowed[p]
        <5>1. p \in Subscribers /\ pending'[p] = <<>> /\ view'[p] = AppliedAll(view[p], pending[p])
          BY <3>4, <4>2 DEF Take, Subscribers, TypeOK
        <5>2. Follows(t, p)
          BY <2>1, <4>2, <5>1 DEF PartInv
        <5>3. PICK b \in States(t) : /\ Leads(States(t), Changes(t), Shown(t, view[p]), pending[p], b)
                                     /\ Leads(States(t), Changes(t), b, Under(t), Shown(t, board))
          BY <2>2, <5>2, LeadsSplit DEF Follows
        <5>4. Shown(t, view'[p]) = b
          BY <2>2, <5>1, <5>3, ShownAll
        <5>5. pending'[p] \o Under(t)' = Under(t)
          BY <2>2, <5>1, DeltasJoin
        <5>6. Shown(t, board') = Shown(t, board)
          BY <1>1
        <5>7. QED
          BY <5>3, <5>4, <5>5, <5>6 DEF Follows
      <4>3. QED
        BY <4>1, <4>2
    <3>5. CASE Leave(p)
      BY <2>5, <3>5 DEF Leave, Subscribers, TypeOK
    <3>6. QED
      BY <3>2, <3>3, <3>4, <3>5
  <2>6. QED
    BY <2>3, <2>4, <2>5 DEF PartInv
<1>5. QED
  BY <1>2, <1>4 DEF FeedInv

LEMMA FeedInit == Init => FeedInv
<1> SUFFICES ASSUME Init PROVE FeedInv
  OBVIOUS
<1>1. Subscribers = {} /\ queue = <<>> /\ readerOut = <<>> /\ pollerOut = <<>> /\ board = EmptyBoard /\ records = 0
  BY DEF Init, Subscribers
<1>2. Threads
  BY DEF Init, Threads, Subscribers
<1>3. Apart
  BY <1>1, IdleNone DEF Apart
<1>4. ASSUME NEW t \in Parts PROVE PartInv(t)
  <2> DEFINE none == <<>>
  <2>1. Under(t) = none
    BY <1>1, FlatNone, DeltasJoin DEF Under, Out, Queue
  <2>2. \E c \in Stages(t) : Reached(t, board, records, c)
    <3>1. CASE t = "feed"
      <4> DEFINE c == [feed |-> <<>>, top |-> 0, count |-> 0]
      <4>1. c \in Stage
        BY Limits DEF Stage, Feeds
      <4>2. c.feed = board.feed /\ c.top <= records
        BY <1>1 DEF EmptyBoard
      <4>3. QED
        BY <3>1, <4>1, <4>2 DEF Stages, Reached
    <3>2. CASE t # "feed"
      <4>1. board.stale[t] = FALSE
        BY <1>1, <3>2 DEF EmptyBoard, Parts, Sources
      <4>2. QED
        BY <3>2, <4>1 DEF Stages, Reached
    <3>3. QED
      BY <3>1, <3>2
  <2> HIDE DEF none
  <2>3. \A c \in Stages(t) : Leads(Stages(t), Causes(t), c, none, c)
    BY LeadsNone DEF none
  <2>4. Based(t)
    BY <2>1, <2>2, <2>3 DEF Based
  <2>5. QED
    BY <1>1, <2>4 DEF PartInv
<1>5. QED
  BY <1>2, <1>3, <1>4 DEF FeedInv

LEMMA FeedStep == TypeOK /\ RepliesInv /\ FeedInv /\ [Next]_vars => FeedInv'
<1> SUFFICES ASSUME TypeOK, RepliesInv, FeedInv, [Next]_vars PROVE FeedInv'
  OBVIOUS
<1>1. CASE Reader
  BY <1>1, FeedReadMessage, FeedReadLatency, FeedBatch, FeedReaderPublishes DEF Reader
<1>2. CASE Poller
  BY <1>2, FeedPoll, FeedMark, FeedPollerPublishes DEF Poller
<1>3. CASE Dispatch \/ \E p \in Pages : Subscribe(p) \/ Resume(p) \/ Take(p) \/ Leave(p)
  BY <1>3, FeedDispatch, FeedPage
<1>4. CASE Bind \/ (\E source \in Sources : Outage(source) \/ Repaired(source)) \/ UNCHANGED vars
  <2>1. /\ UNCHANGED <<board, records, reader, readerOut, poller, pollerOut, queue, page, pending, overflowed, view>>
        /\ bound => bound'
    BY <1>4, OutageFrame DEF Bind, vars, readerVars, pollerVars, hubVars, boundVars
  <2>2. Threads' /\ Apart'
    BY <2>1 DEF FeedInv, Threads, Apart, Subscribers
  <2>3. ASSUME NEW t \in Parts PROVE PartInv(t)'
    <3>1. Under(t)' = Under(t) /\ Shown(t, board') = Shown(t, board)
      BY <2>1 DEF Under, Out, Queue
    <3>2. records' \in Nat /\ records <= records'
      BY <2>1 DEF TypeOK
    <3>3. PartInv(t)
      BY DEF FeedInv
    <3>4. QED
      BY <2>1, <3>1, <3>2, <3>3, Unnoticed
  <2>4. QED
    BY <2>2, <2>3 DEF FeedInv
<1>5. QED
  BY <1>1, <1>2, <1>3, <1>4 DEF Next, Loop

\* Once all that is under way has reached a page, it shows the board's feed, each
\* message once and in its place with the target the board knows, and the board's
\* flags (hub.py subscribe: the snapshot may hold messages whose deltas are still to
\* come; app.js addMessage drops them by their key), for any feed limit, any number
\* of records and pages, and any interleaving of the two threads and the loop.
THEOREM FeedSafety == Spec => []FeedFollowsBoard
<1>1. TypeOK /\ FeedInv => FeedFollowsBoard
  <2> SUFFICES ASSUME TypeOK, FeedInv, NEW p \in Subscribers, ~overflowed[p]
               PROVE  /\ Final(p, readerOut).feed = board.feed
                      /\ Final(p, readerOut).stale["kafka"] = board.stale["kafka"]
                      /\ Final(p, pollerOut).stale["context"] = board.stale["context"]
    BY DEF FeedFollowsBoard
  <2>1. p \in Pages
    BY DEF Subscribers
  <2>2. ASSUME NEW t \in Parts PROVE Shown(t, Final(p, Out(t))) = Shown(t, board)
    <3>1. Follows(t, p)
      BY DEF FeedInv, PartInv
    <3>2. view[p] \in View /\ pending[p] \in Deltas /\ Under(t) \in Deltas /\ Queue \in Deltas /\ Out(t) \in Deltas
      BY <2>1, UnderType, UnderWay
    <3>3. pending[p] \o Under(t) \in Deltas
      BY <3>2, DeltasJoin
    <3>4. Shown(t, AppliedAll(view[p], pending[p] \o Under(t))) = Shown(t, board)
      BY <3>1, <3>2, <3>3, ShownAll DEF Follows
    <3>5. (pending[p] \o Queue) \o Out(t) = pending[p] \o Under(t)
      BY <3>2, DeltasJoin DEF Under
    <3>6. Final(p, Out(t)) = AppliedAll(view[p], (pending[p] \o Queue) \o Out(t))
      BY DEF Final, Queue
    <3>7. QED
      BY <3>4, <3>5, <3>6
  <2>3. Shown("feed", Final(p, readerOut)) = Shown("feed", board)
    BY <2>2 DEF Out, Parts
  <2>4. Shown("kafka", Final(p, readerOut)) = Shown("kafka", board)
    BY <2>2 DEF Out, Parts
  <2>5. Shown("context", Final(p, pollerOut)) = Shown("context", board)
    BY <2>2 DEF Out, Parts
  <2>6. QED
    BY <2>3, <2>4, <2>5 DEF Shown
<1>2. QED
  BY <1>1, FeedInit, FeedStep, RepliesInit, RepliesStep, TypeInit, TypeStep, PTL DEF Spec
=============================================================================
