---------------------------- MODULE UiHubProofs ----------------------------
(***************************************************************************)
(* Theorems about UiHub for every number of pages, devices, records and    *)
(* polls, and every limit.                                                 *)
(*                                                                         *)
(* A page applies lists of deltas.  The first part is about such runs; the *)
(* others about the board, the threads and the pages.                      *)
(***************************************************************************)
EXTENDS UiHub, FiniteSetTheorems, WellFoundedInduction, TLAPS

-----------------------------------------------------------------------------
(* Induction and recursion up to a number *)

LEMMA LeastNat ==
  ASSUME NEW S \in SUBSET Nat, S # {}
  PROVE  \E n \in S : \A m \in S : n <= m
<1>1. PICK n \in S : \A m \in S : ~(<<m, n>> \in OpToRel(<, Nat))
  BY NatLessThanWellFounded, WFMin
<1>2. \A m \in S : ~(m < n)
  BY <1>1 DEF OpToRel
<1>3. QED
  BY <1>2

\* What holds of 0 and goes from each number to the next holds up to n.
LEMMA Induct ==
  ASSUME NEW n \in Nat, NEW G \in SUBSET (0 .. n), 0 \in G,
         \A i \in 1 .. n : i - 1 \in G => i \in G
  PROVE  \A i \in 0 .. n : i \in G
<1>1. SUFFICES ASSUME (0 .. n) \ G # {} PROVE FALSE
  OBVIOUS
<1>2. PICK k \in (0 .. n) \ G : \A m \in (0 .. n) \ G : k <= m
  <2>1. (0 .. n) \ G \in SUBSET Nat
    OBVIOUS
  <2>2. QED
    BY <1>1, <2>1, LeastNat
<1>3. k \in 1 .. n /\ k - 1 \in 0 .. n /\ ~(k <= k - 1)
  BY <1>2
<1>4. k - 1 \in G
  BY <1>2, <1>3
<1>5. QED
  BY <1>2, <1>3, <1>4

\* A function that is defined from each number to the next exists.
LEMMA Recursion ==
  ASSUME NEW S, NEW v \in S, NEW n \in Nat, NEW step \in [(1 .. n) \X S -> S]
  PROVE  \E f \in [0 .. n -> S] : f[0] = v /\ \A i \in 1 .. n : f[i] = step[<<i, f[i - 1]>>]
<1> DEFINE Has(k) == \E f \in [0 .. k -> S] : f[0] = v /\ \A i \in 1 .. k : f[i] = step[<<i, f[i - 1]>>]
           G == {k \in 0 .. n : Has(k)}
<1>1. 0 \in G
  <2>1. [i \in 0 .. 0 |-> v] \in [0 .. 0 -> S] /\ [i \in 0 .. 0 |-> v][0] = v
    OBVIOUS
  <2>2. 1 .. 0 = {} /\ 0 \in 0 .. n
    OBVIOUS
  <2>3. Has(0)
    BY <2>1, <2>2
  <2>4. QED
    BY <2>2, <2>3
<1>2. ASSUME NEW k \in 1 .. n, k - 1 \in G PROVE k \in G
  <2>1. PICK f \in [0 .. k - 1 -> S] :
          f[0] = v /\ \A i \in 1 .. k - 1 : f[i] = step[<<i, f[i - 1]>>]
    BY <1>2
  <2> DEFINE g == [i \in 0 .. k |-> IF i < k THEN f[i] ELSE step[<<k, f[k - 1]>>]]
  <2>2. f[k - 1] \in S /\ step[<<k, f[k - 1]>>] \in S
    BY <2>1
  <2>3. g \in [0 .. k -> S] /\ g[0] = v
    BY <2>1, <2>2
  <2>4. ASSUME NEW i \in 1 .. k PROVE g[i] = step[<<i, g[i - 1]>>]
    <3>1. i - 1 \in 0 .. k /\ i - 1 < k /\ g[i - 1] = f[i - 1]
      OBVIOUS
    <3>2. CASE i < k
      BY <2>1, <3>1, <3>2
    <3>3. CASE i = k
      BY <3>1, <3>3
    <3>4. QED
      BY <3>2, <3>3
  <2>5. Has(k)
    <3> HIDE DEF g
    <3>1. QED
      BY <2>3, <2>4
  <2>6. QED
    BY <2>5
<1>3. n \in G
  <2> HIDE DEF G
  <2>1. G \subseteq 0 .. n
    BY DEF G
  <2>2. QED
    BY <1>1, <1>2, <2>1, Induct
<1>4. QED
  BY <1>3

-----------------------------------------------------------------------------
(* Sequences *)

LEMMA NewestElements ==
  ASSUME NEW S, NEW s \in Seq(S), NEW n \in Nat
  PROVE  /\ Newest(s, n) \in Seq(S)
         /\ Len(Newest(s, n)) = IF Len(s) > n THEN n ELSE Len(s)
         /\ \A i \in 1 .. Len(Newest(s, n)) : Newest(s, n)[i] = s[Len(s) - Len(Newest(s, n)) + i]
<1>1. CASE Len(s) > n
  <2>1. Newest(s, n) = SubSeq(s, Len(s) - n + 1, Len(s))
    BY <1>1 DEF Newest
  <2>2. ASSUME NEW i \in Len(s) - n + 1 .. Len(s) PROVE s[i] \in S
    <3>1. i \in 1 .. Len(s)
      BY <1>1
    <3>2. QED
      BY <3>1
  <2>3. /\ SubSeq(s, Len(s) - n + 1, Len(s)) \in Seq(S)
        /\ Len(SubSeq(s, Len(s) - n + 1, Len(s))) = n
        /\ \A i \in 1 .. n : SubSeq(s, Len(s) - n + 1, Len(s))[i] = s[Len(s) - n + i]
    BY <1>1, <2>2
  <2>4. QED
    BY <1>1, <2>1, <2>3
<1>2. CASE ~(Len(s) > n)
  BY <1>2 DEF Newest
<1>3. QED
  BY <1>1, <1>2

\* What is popped is gone, the rest keeps its order.
LEMMA RemoveAtElements ==
  ASSUME NEW S, NEW s \in Seq(S), NEW k \in 1 .. Len(s)
  PROVE  /\ RemoveAt(s, k) \in Seq(S) /\ Len(RemoveAt(s, k)) = Len(s) - 1
         /\ \A i \in 1 .. Len(s) - 1 : RemoveAt(s, k)[i] = IF i < k THEN s[i] ELSE s[i + 1]
<1> DEFINE a == SubSeq(s, 1, k - 1)
           b == SubSeq(s, k + 1, Len(s))
<1>1. a \in Seq(S) /\ Len(a) = k - 1 /\ \A i \in 1 .. k - 1 : a[i] = s[i]
  OBVIOUS
<1>2. b \in Seq(S) /\ Len(b) = Len(s) - k /\ \A i \in 1 .. Len(s) - k : b[i] = s[k + i]
  OBVIOUS
<1>3. RemoveAt(s, k) = a \o b
  BY DEF RemoveAt
<1> HIDE DEF a, b
<1>4. /\ a \o b \in Seq(S) /\ Len(a \o b) = Len(s) - 1
      /\ \A i \in 1 .. Len(s) - 1 : (a \o b)[i] = IF i <= k - 1 THEN a[i] ELSE b[i - (k - 1)]
  BY <1>1, <1>2
<1>5. ASSUME NEW i \in 1 .. Len(s) - 1
      PROVE  (a \o b)[i] = IF i < k THEN s[i] ELSE s[i + 1]
  <2>1. CASE i < k
    BY <1>1, <1>4, <2>1
  <2>2. CASE ~(i < k)
    <3>1. i - (k - 1) \in 1 .. Len(s) - k /\ k + (i - (k - 1)) = i + 1
      BY <2>2
    <3>2. QED
      BY <1>2, <1>4, <2>2, <3>1
  <2>3. QED
    BY <2>1, <2>2
<1>6. QED
  BY <1>3, <1>4, <1>5

LEMMA PoppedElements ==
  ASSUME NEW S, NEW s \in Seq(S), NEW at \in SUBSET (1 .. Len(s))
  PROVE  /\ at = {} => Popped(s, at) = s
         /\ at # {} => \E k \in at :
              /\ Popped(s, at) \in Seq(S) /\ Len(Popped(s, at)) = Len(s) - 1
              /\ \A i \in 1 .. Len(s) - 1 : Popped(s, at)[i] = IF i < k THEN s[i] ELSE s[i + 1]
<1>1. CASE at = {}
  BY <1>1 DEF Popped
<1>2. CASE at # {}
  <2>1. (CHOOSE i \in at : TRUE) \in at
    BY <1>2
  <2>2. Popped(s, at) = RemoveAt(s, CHOOSE i \in at : TRUE)
    BY <1>2 DEF Popped
  <2>3. QED
    <3> DEFINE k == CHOOSE i \in at : TRUE
    <3>1. k \in at /\ k \in 1 .. Len(s) /\ Popped(s, at) = RemoveAt(s, k)
      BY <2>1, <2>2
    <3> HIDE DEF k
    <3>2. /\ RemoveAt(s, k) \in Seq(S) /\ Len(RemoveAt(s, k)) = Len(s) - 1
          /\ \A i \in 1 .. Len(s) - 1 : RemoveAt(s, k)[i] = IF i < k THEN s[i] ELSE s[i + 1]
      BY <3>1, RemoveAtElements
    <3>3. QED
      BY <1>2, <3>1, <3>2
<1>3. QED
  BY <1>1, <1>2

\* A sequence of all elements of a finite set.
LEMMA SetAsSequence ==
  ASSUME NEW S, IsFiniteSet(S)
  PROVE  SetToSeq(S) \in Seq(S) /\ Range(SetToSeq(S)) = S
<1>1. Cardinality(S) \in Nat /\ ExistsBijection(1 .. Cardinality(S), S)
  BY FS_CardinalityType
<1>2. PICK f \in Bijection(1 .. Cardinality(S), S) : TRUE
  BY <1>1 DEF ExistsBijection
<1>3. f \in [1 .. Cardinality(S) -> S] /\ IsInjective(f)
  BY <1>2 DEF Bijection, Injection, IsInjective
<1>4. /\ SetToSeq(S) \in [1 .. Cardinality(S) -> S]
      /\ \A a, b \in 1 .. Cardinality(S) : SetToSeq(S)[a] = SetToSeq(S)[b] => a = b
  BY <1>3 DEF SetToSeq, IsInjective
<1> DEFINE g == SetToSeq(S)
<1> HIDE DEF g
<1>5. g \in Injection(1 .. Cardinality(S), S)
  BY <1>4 DEF g, Injection, IsInjective
<1>6. Cardinality(1 .. Cardinality(S)) = Cardinality(S) /\ IsFiniteSet(1 .. Cardinality(S))
  BY <1>1, FS_Interval
<1>7. g \in Surjection(1 .. Cardinality(S), S)
  BY <1>5, <1>6, FS_Injection
<1>8. Range(g) = S
  BY <1>7 DEF Surjection, Range
<1>9. g \in Seq(S)
  BY <1>1, <1>4 DEF g
<1>10. QED
  BY <1>8, <1>9 DEF g

LEMMA RangeIsFinite ==
  ASSUME NEW S, NEW s \in Seq(S)
  PROVE  Range(s) \subseteq S /\ IsFiniteSet(Range(s))
<1>1. DOMAIN s = 1 .. Len(s) /\ Range(s) = {s[i] : i \in 1 .. Len(s)} /\ Range(s) \subseteq S
  BY DEF Range
<1>2. IsFiniteSet(1 .. Len(s))
  BY FS_Interval
<1>3. s \in Surjection(1 .. Len(s), Range(s))
  BY <1>1 DEF Surjection
<1>4. IsFiniteSet(Range(s))
  BY <1>2, <1>3, FS_Surjection
<1>5. QED
  BY <1>1, <1>4

LEMMA FiniteImage ==
  ASSUME NEW f, IsFiniteSet(DOMAIN f), f = [x \in DOMAIN f |-> f[x]]
  PROVE  IsFiniteSet({f[x] : x \in DOMAIN f})
<1>1. f \in Surjection(DOMAIN f, {f[x] : x \in DOMAIN f})
  BY DEF Surjection
<1>2. QED
  BY <1>1, FS_Surjection

-----------------------------------------------------------------------------
(* The board *)

\* The board with the lengths that the limits allow.
GoodBoard(b) ==
  /\ b \in Board
  /\ Len(b.feed) <= FeedLimit /\ Len(b.held) <= FeedLimit
  /\ Len(b.requesters) <= FeedLimit * RequesterFactor
  /\ Len(b.orphans) <= FeedLimit * RequesterFactor

LEMMA Limits ==
  /\ FeedLimit \in Nat \ {0} /\ RequesterFactor \in Nat \ {0}
  /\ FeedLimit * RequesterFactor \in Nat \ {0} /\ FeedLimit <= FeedLimit * RequesterFactor
<1>1. FeedLimit \in Nat \ {0} /\ RequesterFactor \in Nat \ {0}
  BY BoardAssumption
<1>2. ASSUME NEW a \in Nat \ {0}, NEW b \in Nat \ {0}
      PROVE  a * b \in Nat \ {0} /\ a <= a * b
  BY <1>2, SMTT(30)
<1>3. QED
  BY <1>1, <1>2

\* What a bounded deque or an evicting map becomes by a new element.
Pushed(s, x, n) == Newest(Append(s, x), n)

LEMMA PushedElements ==
  ASSUME NEW S, NEW s \in Seq(S), NEW x \in S, NEW n \in Nat \ {0}
  PROVE  /\ Pushed(s, x, n) \in Seq(S) /\ Len(Pushed(s, x, n)) <= n
         /\ Len(Pushed(s, x, n)) \in 1 .. Len(s) + 1
         /\ Pushed(s, x, n)[Len(Pushed(s, x, n))] = x
         /\ \A i \in 1 .. Len(Pushed(s, x, n)) - 1 :
              Pushed(s, x, n)[i] = s[Len(s) + 1 - Len(Pushed(s, x, n)) + i]
<1>1. Append(s, x) \in Seq(S) /\ Len(Append(s, x)) = Len(s) + 1 /\ Len(s) \in Nat
  OBVIOUS
<1>2. Append(s, x)[Len(s) + 1] = x /\ \A i \in 1 .. Len(s) : Append(s, x)[i] = s[i]
  OBVIOUS
<1> DEFINE a == Append(s, x)
           w == Newest(a, n)
<1>3. /\ w \in Seq(S) /\ Len(w) = IF Len(a) > n THEN n ELSE Len(a)
      /\ \A i \in 1 .. Len(w) : w[i] = a[Len(a) - Len(w) + i]
  BY <1>1, NewestElements
<1> HIDE DEF a, w
<1>4. Len(a) = Len(s) + 1 /\ a[Len(s) + 1] = x /\ \A i \in 1 .. Len(s) : a[i] = s[i]
  BY <1>1, <1>2 DEF a
<1>5. Len(w) \in 1 .. Len(s) + 1 /\ Len(w) <= n
  BY <1>1, <1>3, <1>4
<1>6. w[Len(w)] = x
  <2>1. Len(w) \in 1 .. Len(w) /\ Len(a) - Len(w) + Len(w) = Len(s) + 1
    BY <1>1, <1>4, <1>5
  <2>2. w[Len(w)] = a[Len(a) - Len(w) + Len(w)]
    BY <1>3, <2>1
  <2>3. QED
    BY <1>4, <2>1, <2>2
<1>7. ASSUME NEW i \in 1 .. Len(w) - 1 PROVE w[i] = s[Len(s) + 1 - Len(w) + i]
  <2>1. Len(a) - Len(w) + i \in 1 .. Len(s) /\ i \in 1 .. Len(w)
    BY <1>1, <1>4, <1>5
  <2>2. w[i] = a[Len(a) - Len(w) + i] /\ Len(a) - Len(w) + i = Len(s) + 1 - Len(w) + i
    <3>1. Len(a) - Len(w) + i = Len(s) + 1 - Len(w) + i
      BY <1>4
    <3>2. QED
      BY <1>3, <2>1, <3>1
  <2>3. a[Len(a) - Len(w) + i] = s[Len(a) - Len(w) + i]
    BY <1>4, <2>1
  <2>4. QED
    BY <2>2, <2>3
<1>8. QED
  BY <1>3, <1>5, <1>6, <1>7 DEF a, w, Pushed

LEMMA PushedLength ==
  ASSUME NEW S, NEW s \in Seq(S), NEW x \in S, NEW n \in Nat \ {0}
  PROVE  Len(Pushed(s, x, n)) = IF Len(s) + 1 > n THEN n ELSE Len(s) + 1
<1>1. Append(s, x) \in Seq(S) /\ Len(Append(s, x)) = Len(s) + 1 /\ n \in Nat
  OBVIOUS
<1>2. QED
  BY <1>1, NewestElements DEF Pushed

LEMMA PoppedType ==
  ASSUME NEW S, NEW s \in Seq(S), NEW at \in SUBSET (1 .. Len(s))
  PROVE  /\ Popped(s, at) \in Seq(S) /\ Len(Popped(s, at)) <= Len(s)
         /\ Len(Popped(s, at)) \in Nat
<1>1. CASE at = {}
  BY <1>1, PoppedElements
<1>2. CASE at # {}
  BY <1>2, PoppedElements
<1>3. QED
  BY <1>1, <1>2

LEMMA PostedType ==
  ASSUME NEW b, GoodBoard(b), NEW e \in Entry
  PROVE  /\ GoodBoard(Posted(b, e))
         /\ Posted(b, e).feed = Pushed(b.feed, e, FeedLimit)
         /\ Posted(b, e).held = Pushed(Popped(b.held, HeldUnder(b, e.id)),
                                              [id |-> e.id, at |-> e.at], FeedLimit)
         /\ Posted(b, e).rows = b.rows /\ Posted(b, e).decided = b.decided
         /\ Posted(b, e).requesters = b.requesters /\ Posted(b, e).orphans = b.orphans
         /\ Posted(b, e).stale = b.stale
<1>1. b \in Board /\ b.feed \in Seq(Entry) /\ b.held \in Seq(Held) /\ FeedLimit \in Nat \ {0}
  BY Limits DEF GoodBoard, Board
<1>2. /\ Pushed(b.feed, e, FeedLimit) \in Seq(Entry)
      /\ Len(Pushed(b.feed, e, FeedLimit)) <= FeedLimit
  BY <1>1, PushedElements
<1>3. HeldUnder(b, e.id) \in SUBSET (1 .. Len(b.held))
  BY <1>1 DEF HeldUnder
<1>4. Popped(b.held, HeldUnder(b, e.id)) \in Seq(Held)
  BY <1>1, <1>3, PoppedType
<1>5. [id |-> e.id, at |-> e.at] \in Held
  BY DEF Held, Entry
<1> DEFINE h == Pushed(Popped(b.held, HeldUnder(b, e.id)), [id |-> e.id, at |-> e.at], FeedLimit)
           f == Pushed(b.feed, e, FeedLimit)
<1>6. h \in Seq(Held) /\ Len(h) <= FeedLimit
  BY <1>1, <1>4, <1>5, PushedElements
<1>7. Posted(b, e) = [b EXCEPT !.feed = f, !.held = h]
  BY DEF Posted, Pushed
<1> HIDE DEF h, f
<1>8. f \in Seq(Entry) /\ Len(f) <= FeedLimit
  BY <1>2 DEF f
<1>9. QED
  BY <1>1, <1>6, <1>7, <1>8 DEF GoodBoard, Board, h, f

\* Replies that wait for a task, and the records they are held at.
LEMMA ExpectingType ==
  ASSUME NEW b, GoodBoard(b), NEW cause
  PROVE  IsFiniteSet(Expecting(b, cause)) /\ Expecting(b, cause) \subseteq Replies
<1>1. b.orphans \in Seq(Orphan)
  BY DEF GoodBoard, Board
<1>2. OrphansOf(b, cause) \in SUBSET (1 .. Len(b.orphans))
  BY <1>1 DEF OrphansOf
<1>3. ASSUME NEW i \in OrphansOf(b, cause)
      PROVE  IsFiniteSet(Range(b.orphans[i].replies)) /\ Range(b.orphans[i].replies) \subseteq Replies
  <2>1. b.orphans[i].replies \in Seq(Replies)
    <3>1. b.orphans[i] \in Orphan
      BY <1>1, <1>2
    <3>2. QED
      BY <3>1 DEF Orphan
  <2>2. QED
    BY <2>1, RangeIsFinite
<1> DEFINE f == [i \in OrphansOf(b, cause) |-> Range(b.orphans[i].replies)]
<1>4. IsFiniteSet(OrphansOf(b, cause))
  BY <1>1, <1>2, FS_Interval, FS_Subset
<1>5. IsFiniteSet({f[i] : i \in DOMAIN f})
  <2>1. DOMAIN f = OrphansOf(b, cause) /\ f = [i \in DOMAIN f |-> f[i]]
    OBVIOUS
  <2>2. QED
    BY <1>4, <2>1, FiniteImage
<1>6. {f[i] : i \in DOMAIN f} = {Range(b.orphans[i].replies) : i \in OrphansOf(b, cause)}
  OBVIOUS
<1>7. IsFiniteSet(UNION {Range(b.orphans[i].replies) : i \in OrphansOf(b, cause)})
  <2> DEFINE R == {Range(b.orphans[i].replies) : i \in OrphansOf(b, cause)}
  <2>1. IsFiniteSet(R)
    BY <1>5, <1>6
  <2>2. \A T \in R : IsFiniteSet(T)
    BY <1>3
  <2> HIDE DEF R
  <2>3. IsFiniteSet(UNION R)
    BY <2>1, <2>2, FS_UNION
  <2>4. QED
    BY <2>3 DEF R
<1>8. QED
  BY <1>3, <1>7 DEF Expecting

LEMMA WaitingType ==
  ASSUME NEW b, GoodBoard(b), NEW task
  PROVE  IsFiniteSet(Waiting(b, task)) /\ Waiting(b, task) \subseteq Nat
<1>1. b.held \in Seq(Held)
  BY DEF GoodBoard, Board
<1>2. IsFiniteSet(Range(b.held)) /\ Range(b.held) \subseteq Held
  BY <1>1, RangeIsFinite
<1> DEFINE M == {i \in Range(b.held) : i.id \in Expecting(b, task)}
           f == [h \in M |-> h.at]
<1>3. IsFiniteSet(M)
  BY <1>2, FS_Subset
<1>4. IsFiniteSet({f[h] : h \in DOMAIN f})
  <2>1. DOMAIN f = M /\ f = [h \in DOMAIN f |-> f[h]]
    OBVIOUS
  <2>2. QED
    BY <1>3, <2>1, FiniteImage
<1>5. {f[h] : h \in DOMAIN f} = {h.at : h \in M}
  OBVIOUS
<1>6. {h.at : h \in M} \subseteq Nat
  BY <1>2 DEF Held
<1>7. Waiting(b, task) = {h.at : h \in M}
  BY DEF Waiting
<1>8. QED
  BY <1>4, <1>5, <1>6, <1>7

LEMMA TargetedElements ==
  ASSUME NEW feed \in Seq(Entry), NEW ats
  PROVE  /\ Targeted(feed, ats) \in Seq(Entry) /\ Len(Targeted(feed, ats)) = Len(feed)
         /\ \A i \in 1 .. Len(feed) :
              /\ Targeted(feed, ats)[i].at = feed[i].at /\ Targeted(feed, ats)[i].id = feed[i].id
              /\ Targeted(feed, ats)[i].targeted <=> (feed[i].targeted \/ feed[i].at \in ats)
<1>1. DOMAIN feed = 1 .. Len(feed) /\ Len(feed) \in Nat
  OBVIOUS
<1>2. Targeted(feed, ats) = [i \in 1 .. Len(feed) |-> [feed[i] EXCEPT !.targeted = @ \/ feed[i].at \in ats]]
  BY <1>1 DEF Targeted
<1>3. ASSUME NEW i \in 1 .. Len(feed)
      PROVE  /\ [feed[i] EXCEPT !.targeted = @ \/ feed[i].at \in ats] \in Entry
             /\ [feed[i] EXCEPT !.targeted = @ \/ feed[i].at \in ats].at = feed[i].at
             /\ [feed[i] EXCEPT !.targeted = @ \/ feed[i].at \in ats].id = feed[i].id
             /\ [feed[i] EXCEPT !.targeted = @ \/ feed[i].at \in ats].targeted
                  <=> (feed[i].targeted \/ feed[i].at \in ats)
  <2>1. feed[i] \in Entry
    OBVIOUS
  <2>2. QED
    BY <2>1 DEF Entry
<1>4. Targeted(feed, ats) \in [1 .. Len(feed) -> Entry]
  BY <1>2, <1>3
<1>5. Targeted(feed, ats) \in Seq(Entry) /\ Len(Targeted(feed, ats)) = Len(feed)
  BY <1>1, <1>4
<1>6. QED
  BY <1>2, <1>3, <1>5

-----------------------------------------------------------------------------
(* Deltas, and runs of them over a view *)

LEMMA MessageType ==
  ASSUME NEW e \in Entry
  PROVE  [type |-> "message", entry |-> e] \in Delta
BY DEF Delta

LEMMA TargetType ==
  ASSUME NEW at \in Nat
  PROVE  [type |-> "target", at |-> at] \in Delta
BY DEF Delta

LEMMA DeviceType ==
  ASSUME NEW d \in Devices, NEW row \in Row
  PROVE  [type |-> "device", device |-> d, row |-> row] \in Delta
BY DEF Delta

LEMMA StaleType ==
  ASSUME NEW source \in Sources, NEW flag \in BOOLEAN
  PROVE  [type |-> "stale", source |-> source, flag |-> flag] \in Delta
BY DEF Delta

LEMMA DeltaKinds ==
  ASSUME NEW x \in Delta
  PROVE  \/ x.type = "device" /\ x.device \in Devices /\ x.row \in Row
         \/ x.type = "message" /\ x.entry \in Entry
         \/ x.type = "target" /\ x.at \in Nat
         \/ x.type = "stale" /\ x.source \in Sources /\ x.flag \in BOOLEAN
BY DEF Delta

\* What a delta does to a view.
LEMMA AppliedFields ==
  ASSUME NEW v \in View, NEW x \in Delta
  PROVE  /\ x.type = "device" => Applied(v, x) = [v EXCEPT !.rows[x.device] = x.row]
         /\ x.type = "message" => Applied(v, x) = [v EXCEPT !.feed =
              IF \E e \in Range(v.feed) : e.at = x.entry.at THEN v.feed
              ELSE Pushed(v.feed, x.entry, FeedLimit)]
         /\ x.type = "target" => Applied(v, x) = [v EXCEPT !.feed = Targeted(v.feed, {x.at})]
         /\ x.type = "stale" => Applied(v, x) = [v EXCEPT !.stale[x.source] = x.flag]
<1>1. \/ x.type = "device" \/ x.type = "message" \/ x.type = "target" \/ x.type = "stale"
  BY DeltaKinds
<1>2. CASE x.type = "device"
  BY <1>2 DEF Applied
<1>3. CASE x.type = "message"
  BY <1>3 DEF Applied, Pushed
<1>4. CASE x.type = "target"
  BY <1>4 DEF Applied
<1>5. CASE x.type = "stale"
  BY <1>5 DEF Applied
<1>6. QED
  BY <1>1, <1>2, <1>3, <1>4, <1>5

LEMMA AppliedType ==
  ASSUME NEW v \in View, NEW x \in Delta
  PROVE  Applied(v, x) \in View
<1>1. v.rows \in [Devices -> Row \cup {NotListed}] /\ v.feed \in Seq(Entry) /\ v.stale \in [Sources -> BOOLEAN]
  BY DEF View
<1>2. CASE x.type = "device"
  <2>1. x.device \in Devices /\ x.row \in Row
    BY <1>2, DeltaKinds
  <2>2. Applied(v, x) = [v EXCEPT !.rows[x.device] = x.row]
    BY <1>2, AppliedFields
  <2>3. [v.rows EXCEPT ![x.device] = x.row] \in [Devices -> Row \cup {NotListed}]
    BY <1>1, <2>1
  <2>4. QED
    BY <2>2, <2>3 DEF View
<1>3. CASE x.type = "message"
  <2>1. x.entry \in Entry
    BY <1>3, DeltaKinds
  <2>2. Pushed(v.feed, x.entry, FeedLimit) \in Seq(Entry)
    BY <1>1, <2>1, PushedElements, Limits
  <2> DEFINE f == IF \E e \in Range(v.feed) : e.at = x.entry.at THEN v.feed
                  ELSE Pushed(v.feed, x.entry, FeedLimit)
  <2>3. f \in Seq(Entry)
    BY <1>1, <2>2
  <2>4. Applied(v, x) = [v EXCEPT !.feed = f]
    BY <1>3, AppliedFields
  <2> HIDE DEF f
  <2>5. QED
    BY <2>3, <2>4 DEF View
<1>4. CASE x.type = "target"
  <2>1. Targeted(v.feed, {x.at}) \in Seq(Entry)
    BY <1>1, TargetedElements
  <2>2. Applied(v, x) = [v EXCEPT !.feed = Targeted(v.feed, {x.at})]
    BY <1>4, AppliedFields
  <2>3. QED
    BY <2>1, <2>2 DEF View
<1>5. CASE x.type = "stale"
  <2>1. x.source \in Sources /\ x.flag \in BOOLEAN
    BY <1>5, DeltaKinds
  <2>2. Applied(v, x) = [v EXCEPT !.stale[x.source] = x.flag]
    BY <1>5, AppliedFields
  <2>3. [v.stale EXCEPT ![x.source] = x.flag] \in [Sources -> BOOLEAN]
    BY <1>1, <2>1
  <2>4. QED
    BY <2>2, <2>3 DEF View
<1>6. QED
  BY <1>2, <1>3, <1>4, <1>5, DeltaKinds

\* The views that a list of deltas leads through.
IsRun(f, v, s) ==
  /\ f \in [0 .. Len(s) -> View] /\ f[0] = v
  /\ \A i \in 1 .. Len(s) : f[i] = Applied(f[i - 1], s[i])

LEMMA ViewRecursion ==
  ASSUME NEW n \in Nat, NEW v \in View, NEW step \in [(1 .. n) \X View -> View]
  PROVE  \E f \in [0 .. n -> View] : f[0] = v /\ \A i \in 1 .. n : f[i] = step[<<i, f[i - 1]>>]
BY Recursion

LEMMA RunExists ==
  ASSUME NEW v \in View, NEW s \in Seq(Delta)
  PROVE  \E f : IsRun(f, v, s)
<1> DEFINE step == [x \in (1 .. Len(s)) \X View |-> Applied(x[2], s[x[1]])]
<1>1. ASSUME NEW x \in (1 .. Len(s)) \X View
      PROVE  Applied(x[2], s[x[1]]) \in View
  <2>1. s[x[1]] \in Delta /\ x[2] \in View
    OBVIOUS
  <2>2. QED
    BY <2>1, AppliedType
<1>2. step \in [(1 .. Len(s)) \X View -> View] /\ Len(s) \in Nat
  BY <1>1
<1>3. \A i \in 1 .. Len(s), w \in View : step[<<i, w>>] = Applied(w, s[i])
  OBVIOUS
<1>4. PICK f \in [0 .. Len(s) -> View] : f[0] = v /\ \A i \in 1 .. Len(s) : f[i] = step[<<i, f[i - 1]>>]
  <2> HIDE DEF step
  <2>1. QED
    BY <1>2, ViewRecursion
<1> HIDE DEF step
<1>5. ASSUME NEW i \in 1 .. Len(s) PROVE f[i] = Applied(f[i - 1], s[i])
  <2>1. i - 1 \in 0 .. Len(s)
    OBVIOUS
  <2>2. f[i - 1] \in View
    BY <1>4, <2>1
  <2>3. QED
    BY <1>3, <1>4, <2>2
<1>6. IsRun(f, v, s)
  BY <1>4, <1>5 DEF IsRun
<1>7. QED
  BY <1>6

LEMMA RunResult ==
  ASSUME NEW v \in View, NEW s \in Seq(Delta), NEW f, IsRun(f, v, s)
  PROVE  AppliedAll(v, s) = f[Len(s)] /\ AppliedAll(v, s) \in View
<1>1. /\ f \in [0 .. Len(s) -> View] /\ f[0] = v /\ Len(s) \in Nat
      /\ \A i \in 1 .. Len(s) : f[i] = Applied(f[i - 1], s[i])
  BY DEF IsRun
<1>2. f = [n \in 0 .. Len(s) |-> IF n = 0 THEN v ELSE Applied(f[n - 1], s[n])]
  BY <1>1
<1> DEFINE g == CHOOSE h : h = [n \in 0 .. Len(s) |-> IF n = 0 THEN v ELSE Applied(h[n - 1], s[n])]
<1>3. AppliedAll(v, s) = g[Len(s)]
  BY DEF AppliedAll
<1>4. g = [n \in 0 .. Len(s) |-> IF n = 0 THEN v ELSE Applied(g[n - 1], s[n])]
  BY <1>2
<1> HIDE DEF g
<1> DEFINE G == {i \in 0 .. Len(s) : g[i] = f[i]}
<1>5. 0 \in G
  BY <1>1, <1>4
<1>6. ASSUME NEW i \in 1 .. Len(s), i - 1 \in G PROVE i \in G
  BY <1>1, <1>4, <1>6
<1>7. Len(s) \in G
  <2> DEFINE n == Len(s)
  <2>1. n \in Nat /\ G \in SUBSET (0 .. n) /\ 0 \in G /\ \A i \in 1 .. n : i - 1 \in G => i \in G
    BY <1>1, <1>5, <1>6
  <2> HIDE DEF G, n
  <2>2. n \in G
    BY <2>1, Induct
  <2>3. QED
    BY <2>2 DEF n
<1>8. QED
  BY <1>1, <1>3, <1>7

LEMMA AppliedAllType ==
  ASSUME NEW v \in View, NEW s \in Seq(Delta)
  PROVE  AppliedAll(v, s) \in View
BY RunExists, RunResult

LEMMA AppliedNone ==
  ASSUME NEW v \in View
  PROVE  AppliedAll(v, << >>) = v
<1>1. << >> \in Seq(Delta) /\ Len(<< >>) = 0
  OBVIOUS
<1>2. PICK f : IsRun(f, v, << >>)
  BY <1>1, RunExists
<1>3. QED
  BY <1>1, <1>2, RunResult DEF IsRun

-----------------------------------------------------------------------------
(* What the calls of the board leave and return *)

\* The senders known after a task, and the board once the task is posted.
Known(b, task) ==
  IF Requested(b, task) THEN b.requesters
  ELSE Pushed(b.requesters, task, FeedLimit * RequesterFactor)
TaskEntry(task, at) == [at |-> at, id |-> task, targeted |-> TRUE]
TaskPosted(b, task, at) == Posted([b EXCEPT !.requesters = Known(b, task)], TaskEntry(task, at))

LEMMA KnownType ==
  ASSUME NEW b, GoodBoard(b), NEW task \in Tasks
  PROVE  /\ Known(b, task) \in Seq(Tasks) /\ Len(Known(b, task)) <= FeedLimit * RequesterFactor
         /\ GoodBoard([b EXCEPT !.requesters = Known(b, task)])
<1>1. b \in Board /\ b.requesters \in Seq(Tasks) /\ Len(b.requesters) <= FeedLimit * RequesterFactor
  BY DEF GoodBoard, Board
<1>2. Known(b, task) \in Seq(Tasks) /\ Len(Known(b, task)) <= FeedLimit * RequesterFactor
  <2>1. CASE Requested(b, task)
    BY <1>1, <2>1 DEF Known
  <2>2. CASE ~Requested(b, task)
    <3>1. /\ Pushed(b.requesters, task, FeedLimit * RequesterFactor) \in Seq(Tasks)
          /\ Len(Pushed(b.requesters, task, FeedLimit * RequesterFactor)) <= FeedLimit * RequesterFactor
      BY <1>1, PushedElements, Limits
    <3>2. QED
      BY <2>2, <3>1 DEF Known
  <2>3. QED
    BY <2>1, <2>2
<1>3. QED
  BY <1>1, <1>2 DEF GoodBoard, Board

LEMMA TaskEntryType ==
  ASSUME NEW task \in Tasks, NEW at \in Nat
  PROVE  TaskEntry(task, at) \in Entry
BY DEF TaskEntry, Entry

LEMMA TaskPostedType ==
  ASSUME NEW b, GoodBoard(b), NEW task \in Tasks, NEW at \in Nat
  PROVE  LET q == TaskPosted(b, task, at) IN
         /\ GoodBoard(q)
         /\ q.feed = Pushed(b.feed, TaskEntry(task, at), FeedLimit)
         /\ q.held = Pushed(Popped(b.held, HeldUnder(b, task)), [id |-> task, at |-> at], FeedLimit)
         /\ q.rows = b.rows /\ q.decided = b.decided /\ q.stale = b.stale
         /\ q.requesters = Known(b, task) /\ q.orphans = b.orphans
<1> DEFINE k == [b EXCEPT !.requesters = Known(b, task)]
<1>1. GoodBoard(k)
  BY KnownType
<1>2. /\ k.feed = b.feed /\ k.held = b.held /\ k.rows = b.rows /\ k.decided = b.decided
      /\ k.stale = b.stale /\ k.orphans = b.orphans /\ k.requesters = Known(b, task)
  BY DEF GoodBoard, Board
<1>3. HeldUnder(k, task) = HeldUnder(b, task)
  BY <1>2 DEF HeldUnder
<1>4. TaskPosted(b, task, at) = Posted(k, TaskEntry(task, at))
  BY DEF TaskPosted
<1>5. TaskEntry(task, at).id = task /\ TaskEntry(task, at).at = at
  BY DEF TaskEntry
<1> HIDE DEF k
<1>6. QED
  BY <1>1, <1>2, <1>3, <1>4, <1>5, TaskEntryType, PostedType

LEMMA ApplyTaskFields ==
  ASSUME NEW b, GoodBoard(b), NEW task \in Tasks, NEW at \in Nat
  PROVE  LET q == TaskPosted(b, task, at) IN
         /\ GoodBoard(ApplyTask(b, task, at))
         /\ ApplyTask(b, task, at).feed = Targeted(q.feed, Waiting(q, task))
         /\ ApplyTask(b, task, at).held = q.held
         /\ ApplyTask(b, task, at).rows = b.rows /\ ApplyTask(b, task, at).decided = b.decided
         /\ ApplyTask(b, task, at).stale = b.stale
         /\ ApplyTask(b, task, at).requesters = Known(b, task)
         /\ ApplyTask(b, task, at).orphans = Popped(b.orphans, OrphansOf(b, task))
<1> DEFINE q == TaskPosted(b, task, at)
           f == Targeted(q.feed, Waiting(q, task))
           o == Popped(q.orphans, OrphansOf(b, task))
<1>1. /\ GoodBoard(q) /\ q \in Board /\ q.feed \in Seq(Entry) /\ q.orphans \in Seq(Orphan)
      /\ q.rows = b.rows /\ q.decided = b.decided /\ q.stale = b.stale
      /\ q.requesters = Known(b, task) /\ q.orphans = b.orphans
  BY TaskPostedType DEF GoodBoard, Board
<1>2. ApplyTask(b, task, at) = [q EXCEPT !.feed = f, !.orphans = o]
  BY DEF ApplyTask, TaskPosted, Known, TaskEntry, Pushed
<1>3. f \in Seq(Entry) /\ Len(f) = Len(q.feed)
  BY <1>1, TargetedElements
<1>4. o \in Seq(Orphan) /\ Len(o) <= Len(q.orphans) /\ Len(o) \in Nat
  <2>1. OrphansOf(b, task) \in SUBSET (1 .. Len(q.orphans))
    BY <1>1 DEF OrphansOf
  <2>2. QED
    BY <1>1, <2>1, PoppedType
<1> HIDE DEF q, f, o
<1>5. [q EXCEPT !.feed = f, !.orphans = o] \in Board
  BY <1>1, <1>3, <1>4 DEF Board
<1>6. Len(q.feed) <= FeedLimit /\ Len(q.orphans) <= FeedLimit * RequesterFactor
  BY <1>1 DEF GoodBoard
<1>7. Len(q.orphans) \in Nat /\ FeedLimit * RequesterFactor \in Nat
  BY <1>1, Limits
<1>8. Len(o) <= FeedLimit * RequesterFactor
  BY <1>4, <1>6, <1>7
<1>9. GoodBoard([q EXCEPT !.feed = f, !.orphans = o])
  BY <1>1, <1>3, <1>5, <1>6, <1>8 DEF GoodBoard, Board
<1>10. QED
  BY <1>1, <1>2, <1>9 DEF q, f, o, Board

LEMMA TaskDeltasAre ==
  ASSUME NEW b, GoodBoard(b), NEW task \in Tasks, NEW at \in Nat
  PROVE  LET W == Waiting(Posted(b, TaskEntry(task, at)), task) IN
         \E t \in Seq(Delta) :
           /\ TaskDeltas(b, task, at) = <<[type |-> "message", entry |-> TaskEntry(task, at)]>> \o t
           /\ Range(t) = {[type |-> "target", at |-> w] : w \in W}
<1> DEFINE q == Posted(b, TaskEntry(task, at))
           W == Waiting(q, task)
           f == [w \in W |-> [type |-> "target", at |-> w]]
           D == {[type |-> "target", at |-> w] : w \in W}
<1>1. GoodBoard(q)
  BY TaskEntryType, PostedType
<1>2. IsFiniteSet(W) /\ W \subseteq Nat
  BY <1>1, WaitingType
<1>3. IsFiniteSet({f[w] : w \in DOMAIN f})
  <2>1. DOMAIN f = W /\ f = [w \in DOMAIN f |-> f[w]]
    OBVIOUS
  <2>2. QED
    BY <1>2, <2>1, FiniteImage
<1>4. {f[w] : w \in DOMAIN f} = D
  OBVIOUS
<1>5. D \subseteq Delta
  BY <1>2, TargetType
<1>6. TaskDeltas(b, task, at) = <<[type |-> "message", entry |-> TaskEntry(task, at)]>> \o SetToSeq(D)
  BY DEF TaskDeltas, TaskEntry
<1> HIDE DEF D
<1>7. SetToSeq(D) \in Seq(Delta) /\ Range(SetToSeq(D)) = D
  <2>1. SetToSeq(D) \in Seq(D) /\ Range(SetToSeq(D)) = D
    BY <1>3, <1>4, SetAsSequence
  <2>2. QED
    BY <1>5, <2>1
<1>8. QED
  BY <1>6, <1>7 DEF D

LEMMA TaskDeltasType ==
  ASSUME NEW b, GoodBoard(b), NEW task \in Tasks, NEW at \in Nat
  PROVE  TaskDeltas(b, task, at) \in Seq(Delta)
<1> DEFINE m == [type |-> "message", entry |-> TaskEntry(task, at)]
<1>1. PICK t \in Seq(Delta) : TaskDeltas(b, task, at) = <<m>> \o t
  BY TaskDeltasAre
<1>2. m \in Delta
  BY TaskEntryType, MessageType
<1> HIDE DEF m
<1>3. <<m>> \o t \in Seq(Delta)
  BY <1>2
<1>4. QED
  BY <1>1, <1>3

LEMMA OrphanedFields ==
  ASSUME NEW b, GoodBoard(b), NEW reply \in Replies, NEW cause \in Tasks
  PROVE  LET waits == SetToSeq(Expecting(b, cause) \cup {reply})
             others == Popped(b.orphans, OrphansOf(b, cause))
         IN /\ GoodBoard(Orphaned(b, reply, cause))
            /\ waits \in Seq(Replies) /\ Range(waits) = Expecting(b, cause) \cup {reply}
            /\ [cause |-> cause, replies |-> waits] \in Orphan
            /\ others \in Seq(Orphan)
            /\ Orphaned(b, reply, cause).orphans
                 = Pushed(others, [cause |-> cause, replies |-> waits], FeedLimit * RequesterFactor)
            /\ Orphaned(b, reply, cause).feed = b.feed /\ Orphaned(b, reply, cause).held = b.held
            /\ Orphaned(b, reply, cause).rows = b.rows /\ Orphaned(b, reply, cause).decided = b.decided
            /\ Orphaned(b, reply, cause).stale = b.stale
            /\ Orphaned(b, reply, cause).requesters = b.requesters
<1> DEFINE R == Expecting(b, cause) \cup {reply}
           waits == SetToSeq(R)
           others == Popped(b.orphans, OrphansOf(b, cause))
           n == FeedLimit * RequesterFactor
           o == Pushed(others, [cause |-> cause, replies |-> waits], n)
<1>1. IsFiniteSet(R) /\ R \subseteq Replies
  BY ExpectingType, FS_AddElement
<1>2. waits \in Seq(R) /\ Range(waits) = R
  <2> HIDE DEF R
  <2>1. QED
    BY <1>1, SetAsSequence
<1>3. waits \in Seq(Replies)
  BY <1>1, <1>2
<1>4. [cause |-> cause, replies |-> waits] \in Orphan
  BY <1>3 DEF Orphan
<1>5. b \in Board /\ b.orphans \in Seq(Orphan)
  BY DEF GoodBoard, Board
<1>6. others \in Seq(Orphan)
  <2>1. OrphansOf(b, cause) \in SUBSET (1 .. Len(b.orphans))
    BY <1>5 DEF OrphansOf
  <2>2. QED
    BY <1>5, <2>1, PoppedType
<1>7. o \in Seq(Orphan) /\ Len(o) <= n
  <2> HIDE DEF others, waits
  <2>1. n \in Nat \ {0}
    BY Limits
  <2> HIDE DEF n
  <2>2. QED
    BY <1>4, <1>6, <2>1, PushedElements
<1>8. Orphaned(b, reply, cause) = [b EXCEPT !.orphans = o]
  BY DEF Orphaned, Pushed
<1> HIDE DEF R, waits, others, o
<1>9. [b EXCEPT !.orphans = o] \in Board
  BY <1>5, <1>7 DEF Board
<1>10. GoodBoard([b EXCEPT !.orphans = o])
  BY <1>5, <1>7, <1>9 DEF GoodBoard, Board
<1>11. QED
  BY <1>2, <1>3, <1>4, <1>5, <1>6, <1>8, <1>10 DEF Board, R, waits, others, o

LEMMA ReplyEntryType ==
  ASSUME NEW b, NEW reply \in Replies, NEW cause, NEW at \in Nat
  PROVE  /\ ReplyEntry(b, reply, cause, at) \in Entry
         /\ ReplyEntry(b, reply, cause, at).id = reply /\ ReplyEntry(b, reply, cause, at).at = at
         /\ ReplyEntry(b, reply, cause, at).targeted = Requested(b, cause)
<1>1. Requested(b, cause) \in BOOLEAN
  BY DEF Requested
<1>2. QED
  BY <1>1 DEF ReplyEntry, Entry

LEMMA ApplyReplyFields ==
  ASSUME NEW b, GoodBoard(b), NEW reply \in Replies, NEW cause \in Tasks, NEW at \in Nat
  PROVE  LET q == Posted(b, ReplyEntry(b, reply, cause, at))
             c == ApplyReply(b, reply, cause, at)
         IN /\ GoodBoard(c) /\ GoodBoard(q)
            /\ c.feed = Pushed(b.feed, ReplyEntry(b, reply, cause, at), FeedLimit)
            /\ c.held = Pushed(Popped(b.held, HeldUnder(b, reply)), [id |-> reply, at |-> at], FeedLimit)
            /\ c.rows = b.rows /\ c.decided = b.decided /\ c.stale = b.stale
            /\ c.requesters = b.requesters /\ q.requesters = b.requesters /\ q.orphans = b.orphans
            /\ Requested(b, cause) => c.orphans = b.orphans
            /\ ~Requested(b, cause) => c.orphans = Orphaned(q, reply, cause).orphans
<1> DEFINE q == Posted(b, ReplyEntry(b, reply, cause, at))
           c == ApplyReply(b, reply, cause, at)
<1>1. /\ GoodBoard(q)
      /\ q.feed = Pushed(b.feed, ReplyEntry(b, reply, cause, at), FeedLimit)
      /\ q.held = Pushed(Popped(b.held, HeldUnder(b, reply)), [id |-> reply, at |-> at], FeedLimit)
      /\ q.rows = b.rows /\ q.decided = b.decided /\ q.stale = b.stale
      /\ q.requesters = b.requesters /\ q.orphans = b.orphans
  BY ReplyEntryType, PostedType
<1>2. c = IF Requested(b, cause) THEN q ELSE Orphaned(q, reply, cause)
  BY DEF ApplyReply
<1> HIDE DEF q, c
<1>3. CASE Requested(b, cause)
  BY <1>1, <1>2, <1>3 DEF q, c
<1>4. CASE ~Requested(b, cause)
  <2>1. /\ GoodBoard(Orphaned(q, reply, cause))
        /\ Orphaned(q, reply, cause).feed = q.feed /\ Orphaned(q, reply, cause).held = q.held
        /\ Orphaned(q, reply, cause).rows = q.rows /\ Orphaned(q, reply, cause).decided = q.decided
        /\ Orphaned(q, reply, cause).stale = q.stale
        /\ Orphaned(q, reply, cause).requesters = q.requesters
    BY <1>1, OrphanedFields
  <2>2. QED
    BY <1>1, <1>2, <1>4, <2>1 DEF q, c
<1>5. QED
  BY <1>3, <1>4

LEMMA ReplyDeltasType ==
  ASSUME NEW b, NEW reply \in Replies, NEW cause, NEW at \in Nat
  PROVE  ReplyDeltas(b, reply, cause, at) \in Seq(Delta)
<1>1. [type |-> "message", entry |-> ReplyEntry(b, reply, cause, at)] \in Delta
  BY ReplyEntryType, MessageType
<1>2. QED
  BY <1>1 DEF ReplyDeltas

\* Of a row and of what is not one.
LEMMA RowsType ==
  ASSUME NEW b, GoodBoard(b), NEW d \in Devices
  PROVE  /\ b.rows[d] # NotListed => b.rows[d] \in Row
         /\ b.decided[d] \in Nat
BY DEF GoodBoard, Board

LEMMA LatencyFields ==
  ASSUME NEW b, GoodBoard(b), NEW d \in Devices, NEW decided \in Nat
  PROVE  LET c == ApplyLatency(b, d, decided) IN
         /\ GoodBoard(c)
         /\ c.feed = b.feed /\ c.held = b.held /\ c.requesters = b.requesters
         /\ c.orphans = b.orphans /\ c.stale = b.stale
         /\ decided < b.decided[d] => c = b
         /\ ~(decided < b.decided[d]) =>
              \A e \in Devices :
                /\ c.decided[e] = IF e = d THEN decided ELSE b.decided[e]
                /\ c.rows[e] = IF e = d /\ b.rows[d] # NotListed
                                THEN [seq |-> b.rows[d].seq, decided |-> decided] ELSE b.rows[e]
<1> DEFINE c == ApplyLatency(b, d, decided)
<1>1. CASE decided < b.decided[d]
  BY <1>1 DEF ApplyLatency
<1>2. CASE ~(decided < b.decided[d])
  <2> DEFINE r == IF b.rows[d] = NotListed THEN NotListed ELSE [b.rows[d] EXCEPT !.decided = decided]
             rows == [b.rows EXCEPT ![d] = r]
             dec == [b.decided EXCEPT ![d] = decided]
  <2>1. b \in Board /\ b.rows \in [Devices -> Row \cup {NotListed}] /\ b.decided \in [Devices -> Nat]
    BY DEF GoodBoard, Board
  <2>2. r \in Row \cup {NotListed}
    <3>1. CASE b.rows[d] = NotListed
      BY <3>1
    <3>2. CASE b.rows[d] # NotListed
      <4>1. b.rows[d] \in Row
        BY <3>2, RowsType
      <4>2. [b.rows[d] EXCEPT !.decided = decided] \in Row
        BY <4>1 DEF Row
      <4>3. QED
        BY <3>2, <4>2
    <3>3. QED
      BY <3>1, <3>2
  <2>3. c = [b EXCEPT !.decided[d] = decided, !.rows[d] = r]
    BY <1>2 DEF ApplyLatency
  <2> HIDE DEF r
  <2>4. rows \in [Devices -> Row \cup {NotListed}] /\ dec \in [Devices -> Nat]
    BY <2>1, <2>2
  <2>5. c = [b EXCEPT !.decided = dec, !.rows = rows]
    BY <2>1, <2>3 DEF Board
  <2> HIDE DEF rows, dec, c
  <2>6. [b EXCEPT !.decided = dec, !.rows = rows] \in Board
    BY <2>1, <2>4 DEF Board
  <2>7. GoodBoard(c) /\ c.decided = dec /\ c.rows = rows
        /\ c.feed = b.feed /\ c.held = b.held /\ c.requesters = b.requesters
        /\ c.orphans = b.orphans /\ c.stale = b.stale
    BY <2>1, <2>5, <2>6 DEF GoodBoard, Board
  <2>8. b.rows[d] # NotListed => r = [seq |-> b.rows[d].seq, decided |-> decided]
    <3>1. SUFFICES ASSUME b.rows[d] # NotListed PROVE r = [seq |-> b.rows[d].seq, decided |-> decided]
      OBVIOUS
    <3>2. b.rows[d] \in Row
      BY <3>1, RowsType
    <3>3. QED
      BY <3>1, <3>2 DEF r, Row
  <2>9. b.rows[d] = NotListed => r = b.rows[d]
    BY DEF r
  <2>10. \A e \in Devices : dec[e] = (IF e = d THEN decided ELSE b.decided[e])
                            /\ rows[e] = (IF e = d THEN r ELSE b.rows[e])
    BY <2>1 DEF dec, rows
  <2>11. \A e \in Devices :
           /\ c.decided[e] = IF e = d THEN decided ELSE b.decided[e]
           /\ c.rows[e] = IF e = d /\ b.rows[d] # NotListed
                           THEN [seq |-> b.rows[d].seq, decided |-> decided] ELSE b.rows[e]
    BY <2>7, <2>8, <2>9, <2>10
  <2>12. QED
    BY <1>2, <2>7, <2>11 DEF c
<1>3. QED
  BY <1>1, <1>2

LEMMA LatencyDeltasType ==
  ASSUME NEW b, GoodBoard(b), NEW d \in Devices, NEW decided \in Nat
  PROVE  LatencyDeltas(b, d, decided) \in Seq(Delta)
<1>1. CASE decided < b.decided[d] \/ b.rows[d] = NotListed
  BY <1>1 DEF LatencyDeltas
<1>2. CASE ~(decided < b.decided[d] \/ b.rows[d] = NotListed)
  <2>1. b.rows[d] \in Row /\ b.rows \in [Devices -> Row \cup {NotListed}]
    BY <1>2, RowsType DEF GoodBoard, Board
  <2>2. ApplyLatency(b, d, decided).rows[d] = [seq |-> b.rows[d].seq, decided |-> decided]
    BY <1>2, LatencyFields
  <2>3. ApplyLatency(b, d, decided).rows[d] \in Row
    BY <2>1, <2>2 DEF Row
  <2>4. QED
    BY <1>2, <2>3, DeviceType DEF LatencyDeltas
<1>3. QED
  BY <1>1, <1>2

LEMMA DevicesFields ==
  ASSUME NEW b, GoodBoard(b), NEW listed \in Listings
  PROVE  LET c == ApplyDevices(b, listed) IN
         /\ GoodBoard(c)
         /\ c.feed = b.feed /\ c.held = b.held /\ c.requesters = b.requesters
         /\ c.orphans = b.orphans /\ c.stale = b.stale /\ c.decided = b.decided
         /\ Changed(b, listed) \subseteq Devices
         /\ \A d \in Changed(b, listed) : listed[d] \in Nat /\ Listed(b, d, listed[d]) \in Row
         /\ \A d \in Devices : c.rows[d] = IF d \in Changed(b, listed) THEN Listed(b, d, listed[d])
                                                                      ELSE b.rows[d]
<1> DEFINE c == ApplyDevices(b, listed)
           rows == [d \in Devices |-> IF d \in Changed(b, listed) THEN Listed(b, d, listed[d]) ELSE b.rows[d]]
<1>1. Changed(b, listed) \subseteq Devices /\ \A d \in Changed(b, listed) : listed[d] \in Nat
  <2>1. PICK S \in SUBSET Devices : listed \in [S -> 1 .. MaxSeq]
    BY DEF Listings
  <2>2. 1 .. MaxSeq \subseteq Nat
    BY HubAssumption
  <2>3. QED
    BY <2>1, <2>2 DEF Changed
<1>2. ASSUME NEW d \in Changed(b, listed)
      PROVE  Listed(b, d, listed[d]) \in Row
  BY <1>1, RowsType DEF Listed, Row
<1>3. b \in Board /\ b.rows \in [Devices -> Row \cup {NotListed}]
  BY DEF GoodBoard, Board
<1>4. rows \in [Devices -> Row \cup {NotListed}]
  BY <1>2, <1>3
<1>5. c = [b EXCEPT !.rows = rows]
  BY DEF ApplyDevices
<1>6. \A d \in Devices : rows[d] = IF d \in Changed(b, listed) THEN Listed(b, d, listed[d]) ELSE b.rows[d]
  OBVIOUS
<1> HIDE DEF rows, c
<1>7. [b EXCEPT !.rows = rows] \in Board
  BY <1>3, <1>4 DEF Board
<1>8. /\ GoodBoard(c) /\ c.rows = rows
      /\ c.feed = b.feed /\ c.held = b.held /\ c.requesters = b.requesters
      /\ c.orphans = b.orphans /\ c.stale = b.stale /\ c.decided = b.decided
  BY <1>3, <1>5, <1>7 DEF GoodBoard, Board
<1>9. QED
  BY <1>1, <1>2, <1>6, <1>8 DEF c

LEMMA DeviceDeltasType ==
  ASSUME NEW b, GoodBoard(b), NEW listed \in Listings
  PROVE  LET D == {[type |-> "device", device |-> d, row |-> ApplyDevices(b, listed).rows[d]]
                      : d \in Changed(b, listed)}
         IN /\ DeviceDeltas(b, listed) \in Seq(Delta)
            /\ Range(DeviceDeltas(b, listed)) = D
<1> DEFINE C == Changed(b, listed)
           f == [d \in C |-> [type |-> "device", device |-> d, row |-> ApplyDevices(b, listed).rows[d]]]
           D == {[type |-> "device", device |-> d, row |-> ApplyDevices(b, listed).rows[d]] : d \in C}
<1>1. IsFiniteSet(C)
  <2>1. C \subseteq Devices
    BY DevicesFields
  <2>2. QED
    BY <2>1, BoardAssumption, FS_Subset
<1>2. IsFiniteSet({f[d] : d \in DOMAIN f})
  <2>1. DOMAIN f = C /\ f = [d \in DOMAIN f |-> f[d]]
    OBVIOUS
  <2>2. QED
    BY <1>1, <2>1, FiniteImage
<1>3. {f[d] : d \in DOMAIN f} = D
  OBVIOUS
<1>4. D \subseteq Delta
  <2>1. ASSUME NEW d \in C
        PROVE  d \in Devices /\ ApplyDevices(b, listed).rows[d] \in Row
    <3>1. d \in Devices /\ Listed(b, d, listed[d]) \in Row
      BY DevicesFields
    <3>2. ApplyDevices(b, listed).rows[d] = Listed(b, d, listed[d])
      BY <3>1, DevicesFields
    <3>3. QED
      BY <3>1, <3>2
  <2>2. QED
    BY <2>1, DeviceType
<1>5. DeviceDeltas(b, listed) = SetToSeq(D)
  BY DEF DeviceDeltas
<1> HIDE DEF D
<1>6. SetToSeq(D) \in Seq(D) /\ Range(SetToSeq(D)) = D
  BY <1>2, <1>3, SetAsSequence
<1>7. SetToSeq(D) \in Seq(Delta)
  BY <1>4, <1>6
<1>8. QED
  BY <1>5, <1>6, <1>7 DEF D

LEMMA MarkedFields ==
  ASSUME NEW b, GoodBoard(b), NEW source \in Sources, NEW flag \in BOOLEAN
  PROVE  LET c == Marked(b, source, flag) IN
         /\ GoodBoard(c)
         /\ c.feed = b.feed /\ c.held = b.held /\ c.requesters = b.requesters
         /\ c.orphans = b.orphans /\ c.rows = b.rows /\ c.decided = b.decided
         /\ c.stale = [b.stale EXCEPT ![source] = flag]
         /\ MarkDeltas(b, source, flag) \in Seq(Delta)
         /\ b.stale[source] = flag => MarkDeltas(b, source, flag) = <<>>
         /\ b.stale[source] # flag =>
              MarkDeltas(b, source, flag) = <<[type |-> "stale", source |-> source, flag |-> flag]>>
<1> DEFINE st == [b.stale EXCEPT ![source] = flag]
<1>1. b \in Board /\ b.stale \in [Sources -> BOOLEAN]
  BY DEF GoodBoard, Board
<1>2. st \in [Sources -> BOOLEAN]
  BY <1>1
<1>3. Marked(b, source, flag) = [b EXCEPT !.stale = st]
  BY DEF Marked
<1> HIDE DEF st
<1>4. [b EXCEPT !.stale = st] \in Board
  BY <1>1, <1>2 DEF Board
<1>5. LET c == Marked(b, source, flag) IN
      /\ GoodBoard(c) /\ c.stale = st
      /\ c.feed = b.feed /\ c.held = b.held /\ c.requesters = b.requesters
      /\ c.orphans = b.orphans /\ c.rows = b.rows /\ c.decided = b.decided
  BY <1>1, <1>3, <1>4 DEF GoodBoard, Board
<1>6. MarkDeltas(b, source, flag) = IF b.stale[source] = flag THEN <<>>
                                    ELSE <<[type |-> "stale", source |-> source, flag |-> flag]>>
  BY DEF MarkDeltas
<1>7. MarkDeltas(b, source, flag) \in Seq(Delta)
  BY <1>6, StaleType
<1>8. QED
  BY <1>5, <1>6, <1>7 DEF st

-----------------------------------------------------------------------------
(* The type invariant *)

LEMMA TypeInit == Init => TypeOK
<1> SUFFICES ASSUME Init PROVE TypeOK
  OBVIOUS
<1> USE HubAssumption
<1>1. EmptyBoard \in Board
  BY DEF EmptyBoard, Board
<1>2. /\ Len(EmptyBoard.feed) = 0 /\ Len(EmptyBoard.held) = 0
      /\ Len(EmptyBoard.requesters) = 0 /\ Len(EmptyBoard.orphans) = 0
  BY DEF EmptyBoard
<1>3. Blank \in View
  BY DEF Blank, View, EmptyBoard
<1>4. Len(<<>>) <= QueueLimit /\ 0 <= FeedLimit /\ 0 <= FeedLimit * RequesterFactor
  BY Limits
<1>5. /\ board \in Board
      /\ Len(board.feed) <= FeedLimit /\ Len(board.held) <= FeedLimit
      /\ Len(board.requesters) <= FeedLimit * RequesterFactor
      /\ Len(board.orphans) <= FeedLimit * RequesterFactor
  BY <1>1, <1>2, <1>4 DEF Init
<1>6. /\ page \in [Pages -> {"gone", "waiting", "sending"}] /\ pending \in [Pages -> Seq(Delta)]
      /\ \A p \in Pages : Len(pending[p]) <= QueueLimit
      /\ overflowed \in [Pages -> BOOLEAN] /\ wake \in [Pages -> BOOLEAN]
      /\ view \in [Pages -> View]
  BY <1>3, <1>4 DEF Init
<1>7. /\ reader \in {"idle", "batch", "publish"} /\ readerOut \in Seq(Delta)
      /\ down \in BOOLEAN /\ probing \in BOOLEAN
      /\ poller \in {"idle", "polled", "publish"} /\ pollerOut \in Seq(Delta)
      /\ bound \in BOOLEAN /\ queue \in Seq(Seq(Delta))
  <2>1. \A S : <<>> \in Seq(S)
    OBVIOUS
  <2>2. QED
    BY <2>1 DEF Init
<1>8. /\ fetched \in 0 .. MaxFetched
      /\ records \in 0 .. MaxRecords /\ visits \in 0 .. MaxVisits /\ polls \in 0 .. MaxPolls
      /\ outages \in 0 .. MaxOutages
  BY HubAssumption DEF Init
<1>9. reachable \subseteq Sources /\ unreported \in BOOLEAN
  BY DEF Init
<1>10. QED
  BY <1>5, <1>6, <1>7, <1>8, <1>9 DEF TypeOK

LEMMA SnapshotType ==
  ASSUME GoodBoard(board)
  PROVE  Snapshot \in View
BY DEF Snapshot, View, GoodBoard, Board

LEMMA BoardGood ==
  ASSUME TypeOK
  PROVE  GoodBoard(board)
BY DEF TypeOK, GoodBoard

\* What the client knows of the sources, and holds.
LinkTyped ==
  reachable \subseteq Sources /\ unreported \in BOOLEAN /\ fetched \in 0 .. MaxFetched

LEMMA ConsumedType ==
  ASSUME TypeOK, Consumed
  PROVE  LinkTyped'
BY HubAssumption DEF TypeOK, Consumed, LinkTyped

LEMMA LinkStays ==
  ASSUME TypeOK, UNCHANGED linkVars
  PROVE  LinkTyped'
BY DEF TypeOK, linkVars, LinkTyped

\* A step of the reader that publishes nothing.
LEMMA TypeReader ==
  ASSUME TypeOK, GoodBoard(board'), readerOut' \in Seq(Delta),
         reader' \in {"idle", "batch", "publish"}, down' \in BOOLEAN, probing' \in BOOLEAN,
         records' \in 0 .. MaxRecords, LinkTyped',
         UNCHANGED <<pollerVars, bound, queue, hubVars, visits, polls, outages>>
  PROVE  TypeOK'
BY DEF TypeOK, GoodBoard, LinkTyped, pollerVars, hubVars

\* A step of the poller that publishes nothing.
LEMMA TypePoller ==
  ASSUME TypeOK, GoodBoard(board'), pollerOut' \in Seq(Delta),
         poller' \in {"idle", "polled", "publish"}, polls' \in 0 .. MaxPolls,
         UNCHANGED <<readerVars, bound, queue, hubVars, linkVars, records, visits, outages>>
  PROVE  TypeOK'
BY DEF TypeOK, GoodBoard, readerVars, hubVars, linkVars

LEMMA TypeAdds ==
  ASSUME TypeOK, GoodBoard(board'), readerOut' \in Seq(Delta), reader' = "batch",
         records < MaxRecords, records' = records + 1, Consumed,
         UNCHANGED <<down, probing, pollerVars, bound, queue, hubVars, visits, polls, outages>>
  PROVE  TypeOK'
<1>1. /\ records' \in 0 .. MaxRecords /\ down' \in BOOLEAN /\ probing' \in BOOLEAN
      /\ LinkTyped'
  BY ConsumedType, HubAssumption DEF TypeOK
<1>2. QED
  BY <1>1, TypeReader

LEMMA TypeRead ==
  ASSUME TypeOK,
         \/ \E task \in Tasks : ReadTask(task)
         \/ \E reply \in Replies, cause \in Tasks : ReadReply(reply, cause)
         \/ \E d \in Devices, decided \in 1 .. MaxSeq : ReadLatency(d, decided)
  PROVE  TypeOK'
<1>1. GoodBoard(board) /\ records \in Nat /\ records + 1 \in Nat /\ readerOut \in Seq(Delta)
  BY BoardGood DEF TypeOK
<1>2. ASSUME NEW task \in Tasks, ReadTask(task) PROVE TypeOK'
  <2>1. GoodBoard(ApplyTask(board, task, records + 1)) /\ TaskDeltas(board, task, records + 1) \in Seq(Delta)
    BY <1>1, ApplyTaskFields, TaskDeltasType
  <2>2. GoodBoard(board') /\ readerOut' \in Seq(Delta)
    BY <1>1, <1>2, <2>1 DEF ReadTask, ReaderAdds, GoodBoard
  <2>3. QED
    BY <1>2, <2>2, TypeAdds DEF ReadTask, ReaderAdds
<1>3. ASSUME NEW reply \in Replies, NEW cause \in Tasks, ReadReply(reply, cause) PROVE TypeOK'
  <2>1. /\ GoodBoard(ApplyReply(board, reply, cause, records + 1))
        /\ ReplyDeltas(board, reply, cause, records + 1) \in Seq(Delta)
    BY <1>1, ApplyReplyFields, ReplyDeltasType
  <2>2. GoodBoard(board') /\ readerOut' \in Seq(Delta)
    BY <1>1, <1>3, <2>1 DEF ReadReply, ReaderAdds, GoodBoard
  <2>3. QED
    BY <1>3, <2>2, TypeAdds DEF ReadReply, ReaderAdds
<1>4. ASSUME NEW d \in Devices, NEW decided \in 1 .. MaxSeq, ReadLatency(d, decided) PROVE TypeOK'
  <2>1. GoodBoard(ApplyLatency(board, d, decided)) /\ LatencyDeltas(board, d, decided) \in Seq(Delta)
    <3>1. decided \in Nat
      BY HubAssumption
    <3>2. QED
      BY <1>1, <3>1, LatencyFields, LatencyDeltasType
  <2>2. GoodBoard(board') /\ readerOut' \in Seq(Delta)
    BY <1>1, <1>4, <2>1 DEF ReadLatency, ReaderAdds, GoodBoard
  <2>3. QED
    BY <1>4, <2>2, TypeAdds DEF ReadLatency, ReaderAdds
<1>5. QED
  BY <1>2, <1>3, <1>4

LEMMA TypeBatch ==
  ASSUME TypeOK,
         \/ SkipRecord
         \/ \E failed, alone, due \in BOOLEAN : ReadBatch(failed, alone, due)
         \/ ReadFails
  PROVE  TypeOK'
<1>1. GoodBoard(board) /\ readerOut \in Seq(Delta) /\ "kafka" \in Sources
  BY BoardGood DEF TypeOK, Sources
<1>2. CASE SkipRecord
  <2>1. LinkTyped'
    BY <1>2, ConsumedType DEF SkipRecord
  <2>2. QED
    BY <1>2, <2>1 DEF SkipRecord, TypeOK, LinkTyped, hubVars, pollerVars, boundVars
<1>3. ASSUME NEW failed \in BOOLEAN, NEW alone \in BOOLEAN, NEW due \in BOOLEAN, ReadBatch(failed, alone, due)
      PROVE  TypeOK'
  <2> DEFINE isDown == Lost(failed, alone)
             back == Back(reader = "batch" /\ ~failed, probing /\ ~failed, due)
  <2>1. isDown \in BOOLEAN /\ back \in BOOLEAN /\ (~back) \in BOOLEAN
    <3>1. isDown \in BOOLEAN
      BY DEF Lost
    <3>2. back \in BOOLEAN
      BY DEF Back
    <3> HIDE DEF isDown, back
    <3>3. QED
      BY <3>1, <3>2
  <2>2. /\ down' = (isDown /\ ~back) /\ probing' = (isDown /\ ~back)
        /\ board' = IF isDown THEN Marked(board, "kafka", ~back) ELSE board
        /\ readerOut' = IF isDown THEN readerOut \o MarkDeltas(board, "kafka", ~back) ELSE readerOut
        /\ reader' \in {"idle", "batch", "publish"}
        /\ UNCHANGED <<pollerVars, bound, queue, hubVars, boundVars>>
    BY <1>3 DEF ReadBatch
  <2>3. LinkTyped'
    BY <1>3 DEF ReadBatch, TypeOK, LinkTyped
  <2> HIDE DEF isDown, back
  <2>4. GoodBoard(Marked(board, "kafka", ~back)) /\ MarkDeltas(board, "kafka", ~back) \in Seq(Delta)
    BY <1>1, <2>1, MarkedFields
  <2>5. GoodBoard(board') /\ readerOut' \in Seq(Delta)
    BY <1>1, <2>2, <2>4 DEF GoodBoard
  <2>6. QED
    BY <2>1, <2>2, <2>3, <2>5, TypeReader DEF TypeOK, boundVars
<1>4. CASE ReadFails
  <2>1. GoodBoard(Marked(board, "kafka", TRUE)) /\ MarkDeltas(board, "kafka", TRUE) \in Seq(Delta)
    BY <1>1, MarkedFields
  <2>2. GoodBoard(board') /\ readerOut' \in Seq(Delta)
    BY <1>4, <2>1 DEF ReadFails, GoodBoard
  <2>3. QED
    BY <1>4, <2>2, TypeReader, LinkStays DEF ReadFails, TypeOK, boundVars
<1>5. QED
  BY <1>2, <1>3, <1>4

LEMMA TypePoll ==
  ASSUME TypeOK,
         (\E listed \in Listings : Poll(listed)) \/ MarkFresh \/ PollFails
  PROVE  TypeOK'
<1>1. GoodBoard(board) /\ pollerOut \in Seq(Delta) /\ "context" \in Sources
  BY BoardGood DEF TypeOK, Sources
<1>2. ASSUME NEW listed \in Listings, Poll(listed) PROVE TypeOK'
  <2>1. GoodBoard(ApplyDevices(board, listed)) /\ DeviceDeltas(board, listed) \in Seq(Delta)
    BY <1>1, DevicesFields, DeviceDeltasType
  <2>2. GoodBoard(board') /\ pollerOut' \in Seq(Delta)
    BY <1>2, <2>1 DEF Poll, GoodBoard
  <2>3. polls' \in 0 .. MaxPolls
    BY <1>2, HubAssumption DEF Poll, TypeOK
  <2>4. QED
    BY <1>2, <2>2, <2>3, TypePoller DEF Poll, TypeOK
<1>3. CASE MarkFresh
  <2>1. GoodBoard(Marked(board, "context", FALSE)) /\ MarkDeltas(board, "context", FALSE) \in Seq(Delta)
    BY <1>1, MarkedFields
  <2>2. GoodBoard(board') /\ pollerOut' \in Seq(Delta)
    <3>1. pollerOut' = MarkDeltas(board, "context", FALSE) \o pollerOut /\ board' = Marked(board, "context", FALSE)
      BY <1>3 DEF MarkFresh
    <3>2. GoodBoard(board')
      BY <2>1, <3>1 DEF GoodBoard
    <3>3. pollerOut' \in Seq(Delta)
      <4>1. ASSUME NEW m \in Seq(Delta) PROVE m \o pollerOut \in Seq(Delta)
        BY <1>1
      <4>2. QED
        BY <2>1, <3>1, <4>1
    <3>4. QED
      BY <3>2, <3>3
  <2>3. QED
    BY <1>3, <2>2, TypePoller DEF MarkFresh, TypeOK, boundVars
<1>4. CASE PollFails
  <2>1. GoodBoard(Marked(board, "context", TRUE)) /\ MarkDeltas(board, "context", TRUE) \in Seq(Delta)
    BY <1>1, MarkedFields
  <2>2. GoodBoard(board') /\ pollerOut' \in Seq(Delta)
    BY <1>4, <2>1 DEF PollFails, GoodBoard
  <2>3. QED
    BY <1>4, <2>2, TypePoller DEF PollFails, TypeOK, boundVars
<1>5. QED
  BY <1>2, <1>3, <1>4

LEMMA TypePublish ==
  ASSUME TypeOK, ReaderPublishes \/ PollerPublishes
  PROVE  TypeOK'
<1>1. readerOut \in Seq(Delta) /\ pollerOut \in Seq(Delta) /\ queue \in Seq(Seq(Delta))
  BY DEF TypeOK
<1>2. ASSUME NEW s \in Seq(Delta) PROVE Append(queue, s) \in Seq(Seq(Delta))
  BY <1>1
<1>3. queue' \in Seq(Seq(Delta))
  BY <1>1, <1>2 DEF ReaderPublishes, PollerPublishes, Publish
<1>4. /\ readerOut' \in Seq(Delta) /\ pollerOut' \in Seq(Delta)
      /\ reader' \in {"idle", "batch", "publish"} /\ poller' \in {"idle", "polled", "publish"}
      /\ UNCHANGED <<board, down, probing, bound, hubVars, linkVars, boundVars>>
  <2>1. <<>> \in Seq(Delta)
    OBVIOUS
  <2>2. CASE ReaderPublishes
    BY <1>1, <2>1, <2>2 DEF ReaderPublishes, pollerVars, TypeOK
  <2>3. CASE PollerPublishes
    BY <1>1, <2>1, <2>3 DEF PollerPublishes, readerVars, TypeOK
  <2>4. QED
    BY <2>2, <2>3
<1>5. QED
  BY <1>3, <1>4 DEF TypeOK, hubVars, linkVars, boundVars

\* The backlog of a subscriber is a list that fits.
LEMMA QueuedFields ==
  ASSUME TypeOK, NEW p \in Pages, NEW s \in Seq(Delta)
  PROVE  /\ Queued(p, s).pending \in Seq(Delta) /\ Len(Queued(p, s).pending) <= QueueLimit
         /\ Queued(p, s).overflowed \in BOOLEAN
         /\ overflowed[p] => Queued(p, s).pending = pending[p] /\ Queued(p, s).overflowed
         /\ ~overflowed[p] /\ TooMany(p, s) => Queued(p, s).pending = <<>> /\ Queued(p, s).overflowed
         /\ ~overflowed[p] /\ ~TooMany(p, s) =>
              Queued(p, s).pending = pending[p] \o s /\ ~Queued(p, s).overflowed
<1>1. pending[p] \in Seq(Delta) /\ Len(pending[p]) <= QueueLimit /\ overflowed[p] \in BOOLEAN
  BY DEF TypeOK
<1>2. /\ pending[p] \o s \in Seq(Delta) /\ Len(pending[p] \o s) = Len(pending[p]) + Len(s)
      /\ Len(pending[p]) \in Nat /\ Len(s) \in Nat /\ <<>> \in Seq(Delta) /\ Len(<<>>) = 0
  BY <1>1
<1>3. CASE overflowed[p]
  BY <1>1, <1>3 DEF Queued
<1>4. CASE ~overflowed[p] /\ TooMany(p, s)
  BY <1>2, <1>4, HubAssumption DEF Queued
<1>5. CASE ~overflowed[p] /\ ~TooMany(p, s)
  <2>1. Len(pending[p] \o s) <= QueueLimit
    BY <1>2, <1>5, HubAssumption DEF TooMany
  <2>2. QED
    BY <1>2, <1>5, <2>1 DEF Queued
<1>6. QED
  BY <1>3, <1>4, <1>5

\* What a dispatch does to each page.
LEMMA DispatchFields ==
  ASSUME TypeOK, Dispatch
  PROVE  /\ Head(queue) \in Seq(Delta) /\ queue' \in Seq(Seq(Delta)) /\ queue # <<>> /\ queue' = Tail(queue)
         /\ pending' \in [Pages -> Seq(Delta)] /\ overflowed' \in [Pages -> BOOLEAN]
         /\ wake' \in [Pages -> BOOLEAN]
         /\ \A p \in Pages :
              /\ Len(pending'[p]) <= QueueLimit
              /\ p \in Subscribers => /\ pending'[p] = Queued(p, Head(queue)).pending
                                      /\ overflowed'[p] = Queued(p, Head(queue)).overflowed
                                      /\ wake'[p] = (wake[p] \/ ~overflowed[p])
              /\ p \notin Subscribers => /\ pending'[p] = pending[p] /\ overflowed'[p] = overflowed[p]
                                         /\ wake'[p] = wake[p]
<1>1. queue \in Seq(Seq(Delta)) /\ queue # <<>> /\ queue' = Tail(queue)
  BY DEF Dispatch, TypeOK
<1>2. Head(queue) \in Seq(Delta) /\ queue' \in Seq(Seq(Delta))
  BY <1>1
<1> DEFINE after(p) == IF p \in Subscribers THEN Queued(p, Head(queue))
                       ELSE [pending |-> pending[p], overflowed |-> overflowed[p]]
<1>3. /\ pending' = [p \in Pages |-> after(p).pending]
      /\ overflowed' = [p \in Pages |-> after(p).overflowed]
      /\ wake' = [p \in Pages |-> wake[p] \/ (p \in Subscribers /\ ~overflowed[p])]
  BY DEF Dispatch
<1>4. ASSUME NEW p \in Pages
      PROVE  /\ after(p).pending \in Seq(Delta) /\ Len(after(p).pending) <= QueueLimit
             /\ after(p).overflowed \in BOOLEAN
             /\ p \in Subscribers => after(p) = Queued(p, Head(queue))
             /\ p \notin Subscribers => after(p).pending = pending[p] /\ after(p).overflowed = overflowed[p]
  <2>1. pending[p] \in Seq(Delta) /\ Len(pending[p]) <= QueueLimit /\ overflowed[p] \in BOOLEAN
    BY DEF TypeOK
  <2>2. CASE p \in Subscribers
    BY <1>2, <2>2, QueuedFields
  <2>3. CASE p \notin Subscribers
    BY <2>1, <2>3
  <2>4. QED
    BY <2>2, <2>3
<1> HIDE DEF after
<1>5. /\ pending' \in [Pages -> Seq(Delta)] /\ overflowed' \in [Pages -> BOOLEAN]
      /\ \A p \in Pages : pending'[p] = after(p).pending /\ overflowed'[p] = after(p).overflowed
  BY <1>3, <1>4
<1>6. ASSUME NEW p \in Pages
      PROVE  /\ p \in Subscribers => wake'[p] = (wake[p] \/ ~overflowed[p])
             /\ p \notin Subscribers => wake'[p] = wake[p]
  <2>1. wake[p] \in BOOLEAN /\ wake'[p] = (wake[p] \/ (p \in Subscribers /\ ~overflowed[p]))
    BY <1>3 DEF TypeOK
  <2>2. QED
    BY <2>1
<1>7. wake' \in [Pages -> BOOLEAN]
  BY <1>3
<1>8. QED
  BY <1>1, <1>2, <1>4, <1>5, <1>6, <1>7

LEMMA TypeHub ==
  ASSUME TypeOK, Bind \/ Dispatch \/ \E p \in Pages : Subscribe(p) \/ Resume(p) \/ Take(p) \/ Leave(p)
  PROVE  TypeOK'
<1>1. Snapshot \in View /\ Blank \in View
  BY BoardGood, SnapshotType DEF Blank, View, EmptyBoard
<1>2. CASE Bind
  BY <1>2 DEF Bind, TypeOK, readerVars, pollerVars, hubVars, linkVars, boundVars
<1>3. CASE Dispatch
  <2>1. UNCHANGED <<board, readerVars, pollerVars, bound, page, view, linkVars, boundVars>>
    BY <1>3 DEF Dispatch
  <2>2. /\ queue' \in Seq(Seq(Delta)) /\ pending' \in [Pages -> Seq(Delta)]
        /\ overflowed' \in [Pages -> BOOLEAN] /\ wake' \in [Pages -> BOOLEAN]
        /\ \A p \in Pages : Len(pending'[p]) <= QueueLimit
    BY <1>3, DispatchFields
  <2>3. QED
    BY <2>1, <2>2 DEF TypeOK, readerVars, pollerVars, linkVars, boundVars
<1>4. ASSUME NEW p \in Pages, Subscribe(p) \/ Resume(p) \/ Take(p) \/ Leave(p) PROVE TypeOK'
  <2>1. view[p] \in View /\ pending[p] \in Seq(Delta) /\ AppliedAll(view[p], pending[p]) \in View
    <3>1. view[p] \in View /\ pending[p] \in Seq(Delta)
      BY DEF TypeOK
    <3>2. QED
      BY <3>1, AppliedAllType
  <2>2. UNCHANGED <<board, readerVars, pollerVars, bound, queue, linkVars>>
    BY <1>4 DEF Subscribe, Resume, Take, Leave
  <2>3. visits' \in 0 .. MaxVisits /\ UNCHANGED <<records, polls, outages>>
    BY <1>4, HubAssumption DEF Subscribe, Resume, Take, Leave, boundVars, TypeOK
  <2>4. page' \in [Pages -> {"gone", "waiting", "sending"}]
    <3>1. \E v \in {"gone", "waiting", "sending"} : page' = [page EXCEPT ![p] = v] \/ page' = page
      BY <1>4 DEF Subscribe, Resume, Take, Leave, TypeOK
    <3>2. QED
      BY <3>1 DEF TypeOK
  <2>5. /\ overflowed' \in [Pages -> BOOLEAN] /\ wake' \in [Pages -> BOOLEAN]
    BY <1>4 DEF Subscribe, Resume, Sent, Take, Leave, TypeOK
  <2>6. pending' \in [Pages -> Seq(Delta)] /\ \A q \in Pages : Len(pending'[q]) <= QueueLimit
    <3>1. pending' = pending \/ pending' = [pending EXCEPT ![p] = <<>>]
      BY <1>4 DEF Subscribe, Resume, Take, Leave
    <3>2. <<>> \in Seq(Delta) /\ Len(<<>>) <= QueueLimit
      BY HubAssumption
    <3>3. QED
      BY <3>1, <3>2 DEF TypeOK
  <2>7. view' \in [Pages -> View]
    <3>1. \E w \in View : view' = [view EXCEPT ![p] = w] \/ view' = view
      BY <1>1, <1>4, <2>1 DEF Subscribe, Resume, Take, Leave
    <3>2. QED
      BY <3>1 DEF TypeOK
  <2>8. QED
    BY <2>2, <2>3, <2>4, <2>5, <2>6, <2>7 DEF TypeOK, readerVars, pollerVars, linkVars
<1>5. QED
  BY <1>2, <1>3, <1>4

\* What an outage and its end leave alone.
LEMMA OutageFrame ==
  ASSUME NEW source, Outage(source) \/ Repaired(source)
  PROVE  UNCHANGED <<board, readerVars, pollerVars, bound, queue, hubVars, records, visits, polls>>
BY DEF Outage, Repaired, boundVars

LEMMA TypeStep == TypeOK /\ [Next]_vars => TypeOK'
<1> SUFFICES ASSUME TypeOK, [Next]_vars PROVE TypeOK'
  OBVIOUS
<1>1. CASE Reader
  BY <1>1, TypeRead, TypeBatch, TypePublish DEF Reader
<1>2. CASE Poller
  BY <1>2, TypePoll, TypePublish DEF Poller
<1>3. CASE Loop
  BY <1>3, TypeHub DEF Loop
<1>4. ASSUME NEW source \in Sources, Outage(source) \/ Repaired(source) PROVE TypeOK'
  <2>1. outages' \in 0 .. MaxOutages
    <3>1. (outages < MaxOutages /\ outages' = outages + 1) \/ outages' = outages
      BY <1>4 DEF Outage, Repaired, boundVars
    <3>2. QED
      BY <3>1, HubAssumption DEF TypeOK
  <2>2. LinkTyped'
    <3>1. reachable' \subseteq Sources
      <4>1. reachable \subseteq Sources /\ (reachable' = reachable \ {source} \/ reachable' = reachable \cup {source})
        BY <1>4 DEF Outage, Repaired, TypeOK
      <4>2. QED
        BY <4>1
    <3>2. unreported' \in BOOLEAN
      <4>1. unreported \in BOOLEAN /\ (unreported' = TRUE \/ unreported' = FALSE \/ unreported' = unreported)
        BY <1>4 DEF Outage, Repaired, TypeOK
      <4>2. QED
        BY <4>1
    <3>3. fetched' \in 0 .. MaxFetched
      <4>1. 0 \in 0 .. MaxFetched /\ fetched \in 0 .. MaxFetched
        BY HubAssumption DEF TypeOK
      <4>2. QED
        BY <1>4, <4>1 DEF Outage, Repaired
    <3>4. QED
      BY <3>1, <3>2, <3>3 DEF LinkTyped
  <2>3. UNCHANGED <<board, readerVars, pollerVars, bound, queue, hubVars, records, visits, polls>>
    BY <1>4, OutageFrame
  <2>4. QED
    BY <2>1, <2>2, <2>3 DEF TypeOK, LinkTyped, readerVars, pollerVars, hubVars
<1>5. CASE UNCHANGED vars
  BY <1>5 DEF vars, TypeOK, readerVars, pollerVars, hubVars, linkVars, boundVars
<1>6. QED
  BY <1>1, <1>2, <1>3, <1>4, <1>5 DEF Next

\* The board keeps to its limits, a backlog to the limit of the queue, and a
\* page shows what a snapshot could hold (model.py's deques and evicting maps,
\* hub.py _dispatch), whatever the limits are and however long the service runs.
THEOREM TypeSafety == Spec => []TypeOK
<1>1. QED
  BY TypeInit, TypeStep, PTL DEF Spec

-----------------------------------------------------------------------------
(* Nobody is left asleep *)

\* Of pages that are gone, too: they have no backlog.
Awake == \A p \in Pages : pending[p] # <<>> \/ overflowed[p] => wake[p]

LEMMA AwakeStep == TypeOK /\ Awake /\ [Next]_vars => Awake'
<1> SUFFICES ASSUME TypeOK, Awake, [Next]_vars PROVE Awake'
  OBVIOUS
<1>1. CASE UNCHANGED <<pending, overflowed, wake>>
  BY <1>1 DEF Awake
<1>2. CASE Reader \/ Poller \/ Bind \/ (\E source \in Sources : Outage(source) \/ Repaired(source)) \/ UNCHANGED vars
  <2>1. UNCHANGED hubVars
    <3>1. CASE Reader
      BY <3>1 DEF Reader, ReadTask, ReadReply, ReadLatency, ReaderAdds, SkipRecord, ReadBatch, ReadFails, ReaderPublishes
    <3>2. CASE Poller
      BY <3>2 DEF Poller, Poll, MarkFresh, PollFails, PollerPublishes
    <3>3. CASE Bind \/ (\E source \in Sources : Outage(source) \/ Repaired(source)) \/ UNCHANGED vars
      BY <3>3 DEF Bind, Outage, Repaired, vars
    <3>4. QED
      BY <1>2, <3>1, <3>2, <3>3
  <2>2. QED
    BY <1>1, <2>1 DEF hubVars
<1>3. CASE Dispatch
  <2> SUFFICES ASSUME NEW p \in Pages, pending'[p] # <<>> \/ overflowed'[p] PROVE wake'[p]
    BY DEF Awake
  <2>1. CASE p \in Subscribers
    <3>1. Head(queue) \in Seq(Delta) /\ wake'[p] = (wake[p] \/ ~overflowed[p])
      BY <1>3, <2>1, DispatchFields
    <3>2. overflowed[p] => wake[p]
      BY DEF Awake
    <3>3. QED
      BY <3>1, <3>2
  <2>2. CASE p \notin Subscribers
    BY <1>3, <2>2, DispatchFields DEF Awake
  <2>3. QED
    BY <2>1, <2>2
<1>4. ASSUME NEW p \in Pages, Subscribe(p) \/ Take(p) \/ Leave(p) PROVE Awake'
  BY <1>4 DEF Subscribe, Take, Leave, Awake, TypeOK
<1>5. ASSUME NEW p \in Pages, Resume(p) PROVE Awake'
  BY <1>1, <1>5 DEF Resume, Sent
<1>6. QED
  BY <1>2, <1>3, <1>4, <1>5 DEF Next, Loop

\* A subscriber with a backlog or an overflow has been woken (hub.py subscribe:
\* the wake-up is cleared in the same turn in which the backlog is taken).
THEOREM BacklogSafety == Spec => []BacklogWakes
<1>1. Init => Awake
  BY DEF Init, Awake
<1>2. Awake => BacklogWakes
  BY DEF Awake, BacklogWakes, Subscribers
<1>3. QED
  BY <1>1, <1>2, AwakeStep, TypeInit, TypeStep, PTL DEF Spec

-----------------------------------------------------------------------------
(* What popping and dropping the oldest leave *)

LEMMA InRange ==
  ASSUME NEW S, NEW s \in Seq(S), NEW x
  PROVE  x \in Range(s) <=> \E i \in 1 .. Len(s) : s[i] = x
<1>1. DOMAIN s = 1 .. Len(s)
  OBVIOUS
<1>2. QED
  BY <1>1 DEF Range

\* An element that is not popped stays, no further from the end than it was.
LEMMA PoppedKeeps ==
  ASSUME NEW S, NEW s \in Seq(S), NEW at \in SUBSET (1 .. Len(s)), NEW j \in 1 .. Len(s), j \notin at
  PROVE  \E i \in 1 .. Len(Popped(s, at)) :
           Popped(s, at)[i] = s[j] /\ Len(Popped(s, at)) - i <= Len(s) - j
<1>1. CASE at = {}
  <2>1. Popped(s, at) = s
    BY <1>1, PoppedElements
  <2>2. QED
    BY <2>1
<1>2. CASE at # {}
  <2>1. PICK k \in at :
          /\ Len(Popped(s, at)) = Len(s) - 1
          /\ \A i \in 1 .. Len(s) - 1 : Popped(s, at)[i] = IF i < k THEN s[i] ELSE s[i + 1]
    BY <1>2, PoppedElements
  <2>2. k \in 1 .. Len(s) /\ k # j /\ Len(s) \in Nat
    OBVIOUS
  <2>3. CASE j < k
    <3>1. j \in 1 .. Len(s) - 1 /\ Len(s) - 1 - j <= Len(s) - j
      BY <2>2, <2>3
    <3>2. QED
      BY <2>1, <2>3, <3>1
  <2>4. CASE j > k
    <3>1. j - 1 \in 1 .. Len(s) - 1 /\ Len(s) - 1 - (j - 1) <= Len(s) - j /\ ~(j - 1 < k) /\ (j - 1) + 1 = j
      BY <2>2, <2>4
    <3>2. Popped(s, at)[j - 1] = s[j]
      BY <2>1, <3>1
    <3>3. QED
      BY <2>1, <3>1, <3>2
  <2>5. QED
    BY <2>2, <2>3, <2>4
<1>3. QED
  BY <1>1, <1>2

LEMMA PoppedRange ==
  ASSUME NEW S, NEW s \in Seq(S), NEW at \in SUBSET (1 .. Len(s)), NEW x \in Range(Popped(s, at))
  PROVE  x \in Range(s)
<1>1. CASE at = {}
  BY <1>1, PoppedElements
<1>2. CASE at # {}
  <2>1. PICK k \in at :
          /\ Popped(s, at) \in Seq(S) /\ Len(Popped(s, at)) = Len(s) - 1
          /\ \A i \in 1 .. Len(s) - 1 : Popped(s, at)[i] = IF i < k THEN s[i] ELSE s[i + 1]
    BY <1>2, PoppedElements
  <2>2. PICK i \in 1 .. Len(s) - 1 : Popped(s, at)[i] = x
    BY <2>1, InRange
  <2>3. i \in 1 .. Len(s) /\ i + 1 \in 1 .. Len(s) /\ (x = s[i] \/ x = s[i + 1])
    BY <2>1, <2>2
  <2>4. QED
    BY <2>3, InRange
<1>3. QED
  BY <1>1, <1>2

\* An element that is not among the oldest stays, one further from the end.
LEMMA NewestKeeps ==
  ASSUME NEW S, NEW s \in Seq(S), NEW x \in S, NEW n \in Nat \ {0}, NEW j \in 1 .. Len(s), Len(s) + 1 - j < n
  PROVE  \E i \in 1 .. Len(Pushed(s, x, n)) :
           /\ Pushed(s, x, n)[i] = s[j]
           /\ Len(Pushed(s, x, n)) - i = Len(s) + 1 - j
<1> DEFINE w == Pushed(s, x, n)
           i == j - (Len(s) + 1 - Len(w))
<1>1. /\ Len(w) = (IF Len(s) + 1 > n THEN n ELSE Len(s) + 1) /\ w \in Seq(S)
      /\ \A m \in 1 .. Len(w) - 1 : w[m] = s[Len(s) + 1 - Len(w) + m]
  <2>1. Len(w) = IF Len(s) + 1 > n THEN n ELSE Len(s) + 1
    BY PushedLength
  <2>2. w \in Seq(S) /\ \A m \in 1 .. Len(w) - 1 : w[m] = s[Len(s) + 1 - Len(w) + m]
    <3>1. w \in Seq(S)
      BY PushedElements
    <3>2. \A m \in 1 .. Len(w) - 1 : w[m] = s[Len(s) + 1 - Len(w) + m]
      BY PushedElements
    <3>3. QED
      BY <3>1, <3>2
  <2>3. QED
    BY <2>1, <2>2
<1> HIDE DEF w
<1>2. Len(s) \in Nat /\ Len(w) \in Nat /\ j \in Nat /\ n \in Nat
  BY <1>1
<1>3. i \in 1 .. Len(w) - 1 /\ Len(s) + 1 - Len(w) + i = j /\ Len(w) - i = Len(s) + 1 - j
  <2>1. Len(w) = n \/ Len(w) = Len(s) + 1
    BY <1>1
  <2>2. i \in Int /\ i >= 1 /\ i <= Len(w) - 1
    BY <1>2, <2>1
  <2>3. QED
    BY <1>2, <2>2
<1> HIDE DEF i
<1>4. w[i] = s[j] /\ i \in 1 .. Len(w)
  <2>1. w[i] = s[Len(s) + 1 - Len(w) + i]
    BY <1>1, <1>3
  <2>2. QED
    BY <1>2, <1>3, <2>1
<1>5. QED
  BY <1>3, <1>4 DEF w

LEMMA NewestRange ==
  ASSUME NEW S, NEW s \in Seq(S), NEW x \in S, NEW n \in Nat \ {0},
         NEW y \in Range(Pushed(s, x, n)), y # x
  PROVE  y \in Range(s)
<1> DEFINE w == Pushed(s, x, n)
<1>1. /\ w \in Seq(S) /\ Len(w) \in 1 .. Len(s) + 1 /\ w[Len(w)] = x
      /\ \A m \in 1 .. Len(w) - 1 : w[m] = s[Len(s) + 1 - Len(w) + m]
  <2>1. w \in Seq(S) /\ Len(w) \in 1 .. Len(s) + 1 /\ w[Len(w)] = x
    BY PushedElements
  <2>2. \A m \in 1 .. Len(w) - 1 : w[m] = s[Len(s) + 1 - Len(w) + m]
    BY PushedElements
  <2>3. QED
    BY <2>1, <2>2
<1>2. y \in Range(w)
  OBVIOUS
<1> HIDE DEF w
<1>3. PICK m \in 1 .. Len(w) : w[m] = y
  BY <1>1, <1>2, InRange
<1>4. m \in 1 .. Len(w) - 1 /\ Len(s) + 1 - Len(w) + m \in 1 .. Len(s)
  BY <1>1, <1>3
<1>5. QED
  BY <1>1, <1>3, <1>4, InRange

-----------------------------------------------------------------------------
(* Replies find their task *)

\* A message's row is held: it is the newest of its id, and not forgotten.
Holds(b, i) == [id |-> b.feed[i].id, at |-> b.feed[i].at] \in Range(b.held)

\* The reply at place i waits for a task that has not come, and what waits for
\* that task is no further from the end of its map than the reply is from the end
\* of the feed: it is not forgotten before the reply is.
Awaits(b, i) ==
  \E j \in 1 .. Len(b.orphans) :
    /\ b.feed[i].id \in Range(b.orphans[j].replies)
    /\ ~Requested(b, b.orphans[j].cause)
    /\ Len(b.orphans) - j <= Len(b.feed) - i

OrphansWait(b) == \A i \in 1 .. Len(b.feed) : ~b.feed[i].targeted /\ Holds(b, i) => Awaits(b, i)

\* Records so far are all the board knows.
Dated(b, n) ==
  /\ \A i \in 1 .. Len(b.feed) : b.feed[i].at <= n
  /\ \A h \in Range(b.held) : h.at <= n

LEMMA BoardEntries ==
  ASSUME NEW b, GoodBoard(b)
  PROVE  /\ b.feed \in Seq(Entry) /\ Len(b.feed) \in Nat
         /\ \A i \in 1 .. Len(b.feed) :
              b.feed[i].at \in Nat /\ b.feed[i].id \in Tasks \cup Replies /\ b.feed[i].targeted \in BOOLEAN
         /\ \A h \in Range(b.held) : h.at \in Nat /\ h.id \in Tasks \cup Replies
<1>1. b.feed \in Seq(Entry) /\ b.held \in Seq(Held) /\ Len(b.feed) \in Nat
  BY DEF GoodBoard, Board
<1>2. ASSUME NEW i \in 1 .. Len(b.feed)
      PROVE  b.feed[i].at \in Nat /\ b.feed[i].id \in Tasks \cup Replies /\ b.feed[i].targeted \in BOOLEAN
  <2>1. b.feed[i] \in Entry
    BY <1>1
  <2>2. QED
    BY <2>1 DEF Entry
<1>3. ASSUME NEW h \in Range(b.held)
      PROVE  h.at \in Nat /\ h.id \in Tasks \cup Replies
  <2>1. h \in Held
    BY <1>1, RangeIsFinite
  <2>2. QED
    BY <2>1 DEF Held
<1>4. QED
  BY <1>1, <1>2, <1>3

\* Rows and flags have nothing to do with it.
LEMMA OrphansFrame ==
  ASSUME NEW b, NEW c, c.feed = b.feed, c.held = b.held, c.requesters = b.requesters, c.orphans = b.orphans
  PROVE  /\ OrphansWait(b) => OrphansWait(c)
         /\ \A n, m \in Nat : Dated(b, n) /\ n <= m /\ GoodBoard(b) => Dated(c, m)
<1>1. OrphansWait(b) => OrphansWait(c)
  BY DEF OrphansWait, Holds, Awaits, Requested
<1>2. ASSUME NEW n \in Nat, NEW m \in Nat, Dated(b, n), n <= m, GoodBoard(b) PROVE Dated(c, m)
  <2>1. /\ \A i \in 1 .. Len(b.feed) : b.feed[i].at \in Nat
        /\ \A h \in Range(b.held) : h.at \in Nat
    BY <1>2, BoardEntries
  <2>2. QED
    BY <1>2, <2>1 DEF Dated
<1>3. QED
  BY <1>1, <1>2

\* A feed and held rows after a message: where each of their elements comes from.
IsPosted(f, held, b, e) ==
  /\ f \in Seq(Entry) /\ Len(f) \in 1 .. FeedLimit /\ f[Len(f)] = e
  /\ \A i \in 1 .. Len(f) - 1 : \E k \in 1 .. Len(b.feed) :
       f[i] = b.feed[k] /\ Len(b.feed) - k = Len(f) - i - 1
  /\ \A h \in Range(held) : h = [id |-> e.id, at |-> e.at] \/ h \in Range(b.held)

LEMMA PostedPlaces ==
  ASSUME NEW b, GoodBoard(b), NEW e \in Entry,
         NEW f, f = Pushed(b.feed, e, FeedLimit),
         NEW held, held = Pushed(Popped(b.held, HeldUnder(b, e.id)), [id |-> e.id, at |-> e.at], FeedLimit)
  PROVE  IsPosted(f, held, b, e)
<1>1. b.feed \in Seq(Entry) /\ b.held \in Seq(Held) /\ FeedLimit \in Nat \ {0}
  BY Limits DEF GoodBoard, Board
<1>2. /\ f \in Seq(Entry) /\ Len(f) <= FeedLimit /\ Len(f) \in 1 .. Len(b.feed) + 1 /\ f[Len(f)] = e
      /\ \A i \in 1 .. Len(f) - 1 : f[i] = b.feed[Len(b.feed) + 1 - Len(f) + i]
  <2>1. f \in Seq(Entry) /\ Len(f) <= FeedLimit /\ Len(f) \in 1 .. Len(b.feed) + 1 /\ f[Len(f)] = e
    BY <1>1, PushedElements
  <2>2. \A i \in 1 .. Len(f) - 1 : f[i] = b.feed[Len(b.feed) + 1 - Len(f) + i]
    BY <1>1, PushedElements
  <2>3. QED
    BY <2>1, <2>2
<1>3. Len(f) \in 1 .. FeedLimit
  BY <1>1, <1>2
<1>4. ASSUME NEW i \in 1 .. Len(f) - 1
      PROVE  \E k \in 1 .. Len(b.feed) : f[i] = b.feed[k] /\ Len(b.feed) - k = Len(f) - i - 1
  <2> DEFINE k == Len(b.feed) + 1 - Len(f) + i
  <2>1. Len(b.feed) \in Nat /\ Len(f) \in Nat /\ i \in Nat /\ i <= Len(f) - 1 /\ Len(f) <= Len(b.feed) + 1 /\ i >= 1
    BY <1>1, <1>2
  <2>2. k \in 1 .. Len(b.feed) /\ Len(b.feed) - k = Len(f) - i - 1
    <3>1. ASSUME NEW l \in Nat, NEW m \in Nat, i \in Nat, i <= m - 1, m <= l + 1, i >= 1
          PROVE  l + 1 - m + i \in 1 .. l /\ l - (l + 1 - m + i) = m - i - 1
      BY <3>1
    <3>2. QED
      BY <2>1, <3>1
  <2>3. f[i] = b.feed[k]
    BY <1>2
  <2>4. QED
    BY <2>2, <2>3
<1>5. ASSUME NEW h \in Range(held)
      PROVE  h = [id |-> e.id, at |-> e.at] \/ h \in Range(b.held)
  <2>1. HeldUnder(b, e.id) \in SUBSET (1 .. Len(b.held))
    BY <1>1 DEF HeldUnder
  <2>2. Popped(b.held, HeldUnder(b, e.id)) \in Seq(Held)
    BY <1>1, <2>1, PoppedType
  <2>3. [id |-> e.id, at |-> e.at] \in Held
    BY DEF Held, Entry
  <2>4. h # [id |-> e.id, at |-> e.at] => h \in Range(Popped(b.held, HeldUnder(b, e.id)))
    BY <1>1, <2>2, <2>3, NewestRange
  <2>5. QED
    BY <1>1, <2>1, <2>4, PoppedRange
<1>6. QED
  BY <1>2, <1>3, <1>4, <1>5 DEF IsPosted

LEMMA PostedDated ==
  ASSUME NEW b, GoodBoard(b), NEW e \in Entry, NEW n \in Nat, Dated(b, n), e.at = n + 1,
         NEW f, NEW held, IsPosted(f, held, b, e)
  PROVE  /\ \A i \in 1 .. Len(f) : f[i].at <= n + 1
         /\ \A h \in Range(held) : h.at <= n + 1
<1>1. /\ f \in Seq(Entry) /\ Len(f) \in 1 .. FeedLimit /\ f[Len(f)] = e
      /\ \A i \in 1 .. Len(f) - 1 : \E k \in 1 .. Len(b.feed) :
           f[i] = b.feed[k] /\ Len(b.feed) - k = Len(f) - i - 1
      /\ \A h \in Range(held) : h = [id |-> e.id, at |-> e.at] \/ h \in Range(b.held)
  BY DEF IsPosted
<1>2. /\ \A i \in 1 .. Len(b.feed) : b.feed[i].at <= n /\ b.feed[i].at \in Nat
      /\ \A h \in Range(b.held) : h.at <= n /\ h.at \in Nat
  BY BoardEntries DEF Dated
<1>3. ASSUME NEW i \in 1 .. Len(f) PROVE f[i].at <= n + 1
  <2>1. CASE i = Len(f)
    BY <1>1, <2>1
  <2>2. CASE i # Len(f)
    <3>1. i \in 1 .. Len(f) - 1
      BY <1>1, <2>2
    <3>2. PICK k \in 1 .. Len(b.feed) : f[i] = b.feed[k]
      BY <1>1, <3>1
    <3>3. QED
      BY <1>2, <3>2
  <2>3. QED
    BY <2>1, <2>2
<1>4. ASSUME NEW h \in Range(held) PROVE h.at <= n + 1
  <2>1. CASE h = [id |-> e.id, at |-> e.at]
    BY <2>1
  <2>2. CASE h \in Range(b.held)
    BY <1>2, <2>2
  <2>3. QED
    BY <1>1, <2>1, <2>2
<1>5. QED
  BY <1>3, <1>4

\* A task comes: what waited for it is targeted, the others go on waiting.
LEMMA TaskOrphans ==
  ASSUME NEW b, GoodBoard(b), NEW task \in Tasks, NEW n \in Nat, Dated(b, n), OrphansWait(b)
  PROVE  OrphansWait(ApplyTask(b, task, n + 1)) /\ Dated(ApplyTask(b, task, n + 1), n + 1)
<1> DEFINE e == TaskEntry(task, n + 1)
           q == TaskPosted(b, task, n + 1)
           c == ApplyTask(b, task, n + 1)
<1>1. n + 1 \in Nat /\ e \in Entry /\ e.id = task /\ e.at = n + 1 /\ e.targeted
  BY TaskEntryType DEF TaskEntry
<1>2. /\ GoodBoard(q) /\ q.orphans = b.orphans
      /\ q.feed = Pushed(b.feed, e, FeedLimit)
      /\ q.held = Pushed(Popped(b.held, HeldUnder(b, e.id)), [id |-> e.id, at |-> e.at], FeedLimit)
  BY <1>1, TaskPostedType
<1>3. /\ GoodBoard(c) /\ c.feed = Targeted(q.feed, Waiting(q, task)) /\ c.held = q.held
      /\ c.requesters = Known(b, task) /\ c.orphans = Popped(b.orphans, OrphansOf(b, task))
  BY <1>1, ApplyTaskFields
<1> HIDE DEF e, q, c
<1>4. IsPosted(q.feed, q.held, b, e)
  BY <1>1, <1>2, PostedPlaces
<1>5. /\ Len(c.feed) = Len(q.feed)
      /\ \A i \in 1 .. Len(c.feed) :
           /\ c.feed[i].at = q.feed[i].at /\ c.feed[i].id = q.feed[i].id
           /\ c.feed[i].targeted <=> q.feed[i].targeted \/ q.feed[i].at \in Waiting(q, task)
  BY <1>2, <1>3, TargetedElements, BoardEntries
<1>6. Dated(c, n + 1)
  <2>1. /\ \A i \in 1 .. Len(q.feed) : q.feed[i].at <= n + 1
        /\ \A h \in Range(q.held) : h.at <= n + 1
    BY <1>1, <1>4, PostedDated
  <2>2. QED
    BY <1>3, <1>5, <2>1 DEF Dated
<1>7. b.orphans \in Seq(Orphan) /\ b.requesters \in Seq(Tasks) /\ OrphansOf(b, task) \in SUBSET (1 .. Len(b.orphans))
  BY DEF GoodBoard, Board, OrphansOf
<1>8. ASSUME NEW x, Requested(c, x) PROVE Requested(b, x) \/ x = task
  <2>1. CASE Requested(b, task)
    BY <1>3, <1>8, <2>1 DEF Requested, Known
  <2>2. CASE ~Requested(b, task)
    <3>1. c.requesters = Pushed(b.requesters, task, FeedLimit * RequesterFactor)
      BY <1>3, <2>2 DEF Known, Pushed
    <3>2. x \in Range(Pushed(b.requesters, task, FeedLimit * RequesterFactor))
      BY <1>8, <3>1 DEF Requested
    <3>3. x # task => x \in Range(b.requesters)
      BY <1>7, <3>2, NewestRange, Limits
    <3>4. QED
      BY <3>3 DEF Requested
  <2>3. QED
    BY <2>1, <2>2
<1>9. ASSUME NEW i \in 1 .. Len(c.feed), ~c.feed[i].targeted, Holds(c, i)
      PROVE  Awaits(c, i)
  <2>1. i \in 1 .. Len(q.feed) /\ ~q.feed[i].targeted /\ q.feed[i].at \notin Waiting(q, task)
        /\ [id |-> q.feed[i].id, at |-> q.feed[i].at] \in Range(q.held)
    BY <1>3, <1>5, <1>9 DEF Holds
  <2>2. PICK k \in 1 .. Len(b.feed) : q.feed[i] = b.feed[k] /\ Len(b.feed) - k = Len(q.feed) - i - 1
    <3>1. i # Len(q.feed)
      BY <1>1, <1>4, <2>1 DEF IsPosted
    <3>2. i \in 1 .. Len(q.feed) - 1
      BY <1>4, <2>1, <3>1 DEF IsPosted
    <3>3. QED
      BY <1>4, <3>2 DEF IsPosted
  <2>3. b.feed[k].at <= n /\ b.feed[k].at \in Nat
    BY BoardEntries DEF Dated
  <2>4. Holds(b, k)
    <3>1. [id |-> q.feed[i].id, at |-> q.feed[i].at] # [id |-> e.id, at |-> e.at]
      BY <1>1, <2>2, <2>3
    <3>2. QED
      BY <1>4, <2>1, <2>2, <3>1 DEF IsPosted, Holds
  <2>5. PICK j \in 1 .. Len(b.orphans) :
          /\ b.feed[k].id \in Range(b.orphans[j].replies)
          /\ ~Requested(b, b.orphans[j].cause)
          /\ Len(b.orphans) - j <= Len(b.feed) - k
    BY <2>1, <2>2, <2>4 DEF OrphansWait, Awaits
  <2>6. b.orphans[j].cause # task
    <3>1. SUFFICES ASSUME b.orphans[j].cause = task PROVE FALSE
      OBVIOUS
    <3>2. j \in OrphansOf(q, task)
      BY <1>2, <1>7, <3>1 DEF OrphansOf
    <3>3. q.feed[i].id \in Expecting(q, task)
      BY <1>2, <2>2, <2>5, <3>2 DEF Expecting
    <3>4. q.feed[i].at \in Waiting(q, task)
      <4> DEFINE h == [id |-> q.feed[i].id, at |-> q.feed[i].at]
      <4>1. h \in Range(q.held) /\ h.id \in Expecting(q, task) /\ h.at = q.feed[i].at
        BY <2>1, <3>3
      <4> HIDE DEF h
      <4>2. QED
        BY <4>1 DEF Waiting
    <3>5. QED
      BY <2>1, <3>4
  <2>7. PICK m \in 1 .. Len(c.orphans) : c.orphans[m] = b.orphans[j] /\ Len(c.orphans) - m <= Len(b.orphans) - j
    <3> DEFINE left == Popped(b.orphans, OrphansOf(b, task))
    <3>1. j \notin OrphansOf(b, task)
      BY <2>6 DEF OrphansOf
    <3>2. \E m \in 1 .. Len(left) : left[m] = b.orphans[j] /\ Len(left) - m <= Len(b.orphans) - j
      BY <1>7, <3>1, PoppedKeeps
    <3>3. c.orphans = left
      BY <1>3
    <3> HIDE DEF left
    <3>4. QED
      BY <3>2, <3>3
  <2>8. ~Requested(c, c.orphans[m].cause)
    BY <1>8, <2>5, <2>6, <2>7
  <2>9. c.feed[i].id \in Range(c.orphans[m].replies)
    BY <1>5, <2>2, <2>5, <2>7
  <2>10. Len(c.orphans) - m <= Len(c.feed) - i
    <3> DEFINE x == Len(c.orphans) - m
               y == Len(b.orphans) - j
               z == Len(c.feed) - i
    <3>1. Len(c.orphans) \in Nat /\ Len(b.orphans) \in Nat /\ Len(c.feed) \in Nat
      BY <1>3, <1>7, BoardEntries DEF GoodBoard, Board
    <3>2. x \in Int /\ y \in Int /\ z \in Int
      BY <3>1
    <3>3. x <= y
      BY <2>7
    <3>4. Len(b.feed) - k = z - 1
      BY <1>5, <2>2
    <3>5. y <= z - 1
      BY <2>5, <3>4
    <3> HIDE DEF x, y, z
    <3>6. x <= z
      BY <3>2, <3>3, <3>5
    <3>7. QED
      BY <3>6 DEF x, z
  <2>11. QED
    BY <2>8, <2>9, <2>10 DEF Awaits
<1>10. QED
  BY <1>6, <1>9 DEF OrphansWait, c

\* A reply comes before its task: what waited for that task stands behind all
\* others, with the reply, and nothing that a message of the feed needs is dropped.
LEMMA ReplyOrphans ==
  ASSUME NEW b, GoodBoard(b), NEW reply \in Replies, NEW cause \in Tasks, NEW n \in Nat, Dated(b, n),
         OrphansWait(b)
  PROVE  /\ OrphansWait(ApplyReply(b, reply, cause, n + 1))
         /\ Dated(ApplyReply(b, reply, cause, n + 1), n + 1)
<1> DEFINE e == ReplyEntry(b, reply, cause, n + 1)
           q == Posted(b, e)
           c == ApplyReply(b, reply, cause, n + 1)
<1>1. n + 1 \in Nat /\ e \in Entry /\ e.id = reply /\ e.at = n + 1 /\ (e.targeted <=> Requested(b, cause))
  BY ReplyEntryType
<1>2. /\ GoodBoard(c) /\ GoodBoard(q)
      /\ c.feed = Pushed(b.feed, e, FeedLimit)
      /\ c.held = Pushed(Popped(b.held, HeldUnder(b, e.id)), [id |-> e.id, at |-> e.at], FeedLimit)
      /\ c.requesters = b.requesters /\ q.requesters = b.requesters /\ q.orphans = b.orphans
      /\ Requested(b, cause) => c.orphans = b.orphans
      /\ ~Requested(b, cause) => c.orphans = Orphaned(q, reply, cause).orphans
  BY <1>1, ApplyReplyFields
<1> HIDE DEF e, q, c
<1>3. IsPosted(c.feed, c.held, b, e)
  BY <1>1, <1>2, PostedPlaces
<1>4. Dated(c, n + 1)
  BY <1>1, <1>3, PostedDated DEF Dated
<1>5. b.orphans \in Seq(Orphan) /\ OrphansOf(q, cause) \in SUBSET (1 .. Len(b.orphans)) /\ Len(b.orphans) \in Nat
  BY <1>2 DEF GoodBoard, Board, OrphansOf
<1>6. ASSUME NEW x PROVE Requested(c, x) <=> Requested(b, x)
  BY <1>2 DEF Requested
<1>7. Len(c.feed) \in Nat /\ Len(c.orphans) \in Nat /\ Len(b.feed) \in Nat
  BY <1>2, BoardEntries DEF GoodBoard, Board
<1>8. ASSUME NEW i \in 1 .. Len(c.feed) - 1, ~c.feed[i].targeted, Holds(c, i)
      PROVE  \E j \in 1 .. Len(b.orphans) :
               /\ c.feed[i].id \in Range(b.orphans[j].replies)
               /\ ~Requested(b, b.orphans[j].cause)
               /\ Len(b.orphans) - j <= Len(c.feed) - i - 1
  <2>1. PICK k \in 1 .. Len(b.feed) : c.feed[i] = b.feed[k] /\ Len(b.feed) - k = Len(c.feed) - i - 1
    BY <1>3 DEF IsPosted
  <2>2. b.feed[k].at <= n /\ b.feed[k].at \in Nat
    BY BoardEntries DEF Dated
  <2>3. Holds(b, k)
    <3>1. [id |-> c.feed[i].id, at |-> c.feed[i].at] # [id |-> e.id, at |-> e.at]
      BY <1>1, <2>1, <2>2
    <3>2. QED
      BY <1>3, <1>8, <2>1, <3>1 DEF IsPosted, Holds
  <2>4. PICK j \in 1 .. Len(b.orphans) :
          /\ b.feed[k].id \in Range(b.orphans[j].replies)
          /\ ~Requested(b, b.orphans[j].cause)
          /\ Len(b.orphans) - j <= Len(b.feed) - k
    BY <1>8, <2>1, <2>3 DEF OrphansWait, Awaits
  <2>5. QED
    BY <2>1, <2>4
<1>9. ASSUME NEW i \in 1 .. Len(c.feed), ~c.feed[i].targeted, Holds(c, i)
      PROVE  Awaits(c, i)
  <2>1. CASE Requested(b, cause)
    <3>1. i # Len(c.feed)
      BY <1>1, <1>3, <1>9, <2>1 DEF IsPosted
    <3>2. i \in 1 .. Len(c.feed) - 1
      BY <1>7, <3>1
    <3>3. PICK j \in 1 .. Len(b.orphans) :
            /\ c.feed[i].id \in Range(b.orphans[j].replies)
            /\ ~Requested(b, b.orphans[j].cause)
            /\ Len(b.orphans) - j <= Len(c.feed) - i - 1
      BY <1>8, <1>9, <3>2
    <3>4. c.orphans = b.orphans /\ ~Requested(c, b.orphans[j].cause)
      BY <1>2, <1>6, <2>1, <3>3
    <3>5. Len(b.orphans) - j <= Len(c.feed) - i
      BY <1>5, <1>7, <3>3
    <3>6. QED
      BY <3>3, <3>4, <3>5 DEF Awaits
  <2>2. CASE ~Requested(b, cause)
    <3> DEFINE waits == SetToSeq(Expecting(q, cause) \cup {reply})
               others == Popped(q.orphans, OrphansOf(q, cause))
               o == [cause |-> cause, replies |-> waits]
               L == FeedLimit * RequesterFactor
    <3>1. /\ Range(waits) = Expecting(q, cause) \cup {reply} /\ o \in Orphan /\ others \in Seq(Orphan)
          /\ c.orphans = Pushed(others, o, L)
      BY <1>2, <2>2, OrphanedFields
    <3>2. L \in Nat \ {0} /\ FeedLimit <= L /\ FeedLimit \in Nat
      BY Limits
    <3>3. o.cause = cause /\ o.replies = waits
      OBVIOUS
    <3> HIDE DEF waits, others, o, L
    <3>4. Len(c.orphans) \in 1 .. Len(others) + 1 /\ c.orphans[Len(c.orphans)] = o
      BY <3>1, <3>2, PushedElements
    <3>5. ASSUME c.feed[i].id \in Range(waits) PROVE Awaits(c, i)
      <4>1. /\ Len(c.orphans) \in 1 .. Len(c.orphans) /\ Len(c.orphans) - Len(c.orphans) <= Len(c.feed) - i
            /\ c.feed[i].id \in Range(c.orphans[Len(c.orphans)].replies)
            /\ c.orphans[Len(c.orphans)].cause = cause
        BY <1>7, <3>3, <3>4, <3>5
      <4>2. ~Requested(c, cause)
        BY <1>6, <2>2
      <4>3. QED
        BY <4>1, <4>2 DEF Awaits
    <3>6. CASE i = Len(c.feed)
      <4>1. c.feed[i].id = reply
        BY <1>1, <1>3, <3>6 DEF IsPosted
      <4>2. QED
        BY <3>1, <3>5, <4>1
    <3>7. CASE i # Len(c.feed)
      <4>1. i \in 1 .. Len(c.feed) - 1
        BY <1>7, <3>7
      <4>2. PICK j \in 1 .. Len(b.orphans) :
              /\ c.feed[i].id \in Range(b.orphans[j].replies)
              /\ ~Requested(b, b.orphans[j].cause)
              /\ Len(b.orphans) - j <= Len(c.feed) - i - 1
        BY <1>8, <1>9, <4>1
      <4>3. CASE b.orphans[j].cause = cause
        <5>1. j \in OrphansOf(q, cause)
          BY <1>2, <1>5, <4>3 DEF OrphansOf
        <5>2. c.feed[i].id \in Expecting(q, cause)
          BY <1>2, <4>2, <5>1 DEF Expecting
        <5>3. QED
          BY <3>1, <3>5, <5>2
      <4>4. CASE b.orphans[j].cause # cause
        <5>1. j \notin OrphansOf(q, cause)
          BY <1>2, <4>4 DEF OrphansOf
        <5>2. PICK m \in 1 .. Len(others) : others[m] = b.orphans[j] /\ Len(others) - m <= Len(b.orphans) - j
          BY <1>2, <1>5, <5>1, PoppedKeeps DEF others
        <5>3. Len(others) \in Nat /\ j \in Nat /\ m \in Nat /\ i \in Nat /\ i >= 1 /\ Len(c.feed) <= FeedLimit
          BY <1>3, <3>1 DEF IsPosted
        <5>4. Len(others) + 1 - m <= Len(c.feed) - i /\ Len(others) + 1 - m < L
          <6>1. Len(b.orphans) - j <= Len(c.feed) - i - 1 /\ Len(others) - m <= Len(b.orphans) - j
            BY <4>2, <5>2
          <6>2. Len(others) - m <= Len(c.feed) - i - 1
            BY <1>5, <1>7, <5>3, <6>1
          <6>3. QED
            BY <1>7, <3>2, <5>3, <6>2
        <5>5. PICK l \in 1 .. Len(c.orphans) :
                c.orphans[l] = others[m] /\ Len(c.orphans) - l = Len(others) + 1 - m
          BY <3>1, <3>2, <5>4, NewestKeeps
        <5>6. Len(c.orphans) - l <= Len(c.feed) - i
          BY <5>4, <5>5
        <5>7. QED
          BY <1>6, <4>2, <5>2, <5>5, <5>6 DEF Awaits
      <4>5. QED
        BY <4>3, <4>4
    <3>8. QED
      BY <3>6, <3>7
  <2>3. QED
    BY <2>1, <2>2
<1>10. QED
  BY <1>4, <1>9 DEF OrphansWait, c

RepliesInv == OrphansWait(board) /\ Dated(board, records)

LEMMA RepliesInit == Init => RepliesInv
BY DEF Init, RepliesInv, OrphansWait, Dated, EmptyBoard, Range

LEMMA RepliesPrimed ==
  ASSUME OrphansWait(board'), Dated(board', records')
  PROVE  RepliesInv'
BY DEF RepliesInv, OrphansWait, Dated, Holds, Awaits, Requested

\* Whoever leaves the messages alone leaves the invariant.
LEMMA RepliesFrame ==
  ASSUME TypeOK, RepliesInv, records' \in Nat, records <= records',
         board'.feed = board.feed, board'.held = board.held,
         board'.requesters = board.requesters, board'.orphans = board.orphans
  PROVE  RepliesInv'
<1>1. GoodBoard(board) /\ records \in Nat
  BY BoardGood DEF TypeOK
<1>2. OrphansWait(board') /\ Dated(board', records')
  BY <1>1, OrphansFrame DEF RepliesInv
<1>3. QED
  BY <1>2, RepliesPrimed

LEMMA RepliesMarked ==
  ASSUME TypeOK, RepliesInv, NEW source \in Sources, NEW flag \in BOOLEAN,
         board' = Marked(board, source, flag), records' = records
  PROVE  RepliesInv'
<1>1. GoodBoard(board) /\ records \in Nat /\ records' \in Nat /\ records <= records'
  BY BoardGood DEF TypeOK
<1> DEFINE c == Marked(board, source, flag)
<1>2. /\ c.feed = board.feed /\ c.held = board.held /\ c.requesters = board.requesters
      /\ c.orphans = board.orphans
  BY <1>1 DEF Marked, GoodBoard, Board
<1> HIDE DEF c
<1>3. board' = c
  BY DEF c
<1>4. QED
  BY <1>1, <1>2, <1>3, RepliesFrame

LEMMA RepliesStep == TypeOK /\ RepliesInv /\ [Next]_vars => RepliesInv'
<1> SUFFICES ASSUME TypeOK, RepliesInv, [Next]_vars PROVE RepliesInv'
  OBVIOUS
<1>1. GoodBoard(board) /\ records \in Nat /\ records + 1 \in Nat /\ records <= records + 1
  BY BoardGood DEF TypeOK
<1>2. ASSUME NEW task \in Tasks, ReadTask(task) PROVE RepliesInv'
  <2>1. board' = ApplyTask(board, task, records + 1) /\ records' = records + 1
    BY <1>2 DEF ReadTask, ReaderAdds
  <2>2. OrphansWait(ApplyTask(board, task, records + 1)) /\ Dated(ApplyTask(board, task, records + 1), records + 1)
    BY <1>1, TaskOrphans DEF RepliesInv
  <2>3. QED
    BY <2>1, <2>2, RepliesPrimed
<1>3. ASSUME NEW reply \in Replies, NEW cause \in Tasks, ReadReply(reply, cause) PROVE RepliesInv'
  <2>1. board' = ApplyReply(board, reply, cause, records + 1) /\ records' = records + 1
    BY <1>3 DEF ReadReply, ReaderAdds
  <2>2. /\ OrphansWait(ApplyReply(board, reply, cause, records + 1))
        /\ Dated(ApplyReply(board, reply, cause, records + 1), records + 1)
    BY <1>1, ReplyOrphans DEF RepliesInv
  <2>3. QED
    BY <2>1, <2>2, RepliesPrimed
<1>4. ASSUME NEW d \in Devices, NEW decided \in 1 .. MaxSeq, ReadLatency(d, decided) PROVE RepliesInv'
  <2>1. board' = ApplyLatency(board, d, decided) /\ records' = records + 1
    BY <1>4 DEF ReadLatency, ReaderAdds
  <2> DEFINE c == ApplyLatency(board, d, decided)
  <2>2. /\ c.feed = board.feed /\ c.held = board.held /\ c.requesters = board.requesters
        /\ c.orphans = board.orphans
    BY <1>1 DEF ApplyLatency, GoodBoard, Board
  <2> HIDE DEF c
  <2>3. board' = c
    BY <2>1 DEF c
  <2>4. QED
    BY <1>1, <2>1, <2>2, <2>3, RepliesFrame
<1>5. ASSUME NEW failed \in BOOLEAN, NEW alone \in BOOLEAN, NEW due \in BOOLEAN, ReadBatch(failed, alone, due)
      PROVE  RepliesInv'
  <2> DEFINE back == Back(reader = "batch" /\ ~failed, probing /\ ~failed, due)
  <2>1. (~back) \in BOOLEAN /\ "kafka" \in Sources
    BY DEF Back, Sources
  <2>2. (board' = board \/ board' = Marked(board, "kafka", ~back)) /\ records' = records
    BY <1>5 DEF ReadBatch, boundVars
  <2> HIDE DEF back
  <2>3. CASE board' = board
    BY <1>1, <2>2, <2>3, RepliesFrame
  <2>4. CASE board' = Marked(board, "kafka", ~back)
    BY <2>1, <2>2, <2>4, RepliesMarked
  <2>5. QED
    BY <2>2, <2>3, <2>4
<1>6. CASE ReadFails
  <2>1. board' = Marked(board, "kafka", TRUE) /\ records' = records /\ "kafka" \in Sources
    BY <1>6 DEF ReadFails, boundVars, Sources
  <2>2. QED
    BY <2>1, RepliesMarked
<1>7. ASSUME NEW listed \in Listings, Poll(listed) PROVE RepliesInv'
  BY <1>1, <1>7, DevicesFields, RepliesFrame DEF Poll
<1>8. CASE MarkFresh
  <2>1. board' = Marked(board, "context", FALSE) /\ records' = records /\ "context" \in Sources
    BY <1>8 DEF MarkFresh, boundVars, Sources
  <2>2. QED
    BY <2>1, RepliesMarked
<1>9. CASE PollFails
  <2>1. board' = Marked(board, "context", TRUE) /\ records' = records /\ "context" \in Sources
    BY <1>9 DEF PollFails, boundVars, Sources
  <2>2. QED
    BY <2>1, RepliesMarked
<1>10. CASE SkipRecord \/ ReaderPublishes \/ PollerPublishes \/ Loop
            \/ (\E source \in Sources : Outage(source) \/ Repaired(source)) \/ UNCHANGED vars
  <2>1. UNCHANGED <<board, records>>
    BY <1>10 DEF SkipRecord, ReaderPublishes, PollerPublishes, Loop, Bind, Dispatch, Subscribe, Resume, Take,
                 Leave, Outage, Repaired, vars, boundVars
  <2>2. QED
    BY <1>1, <2>1, RepliesFrame
<1>11. QED
  BY <1>2, <1>3, <1>4, <1>5, <1>6, <1>7, <1>8, <1>9, <1>10 DEF Next, Reader, Poller

\* A held reply of the feed is targeted, or the board still remembers that it waits
\* for a task that has not come: whatever the order in which replies and tasks
\* arrive, and however much the evicting maps forget, which remember more than the
\* feed holds (model.py _remember_orphan, REQUESTER_FACTOR).
THEOREM RepliesSafety == Spec => []RepliesFindTheirTask
<1>1. TypeOK /\ RepliesInv => RepliesFindTheirTask
  <2> SUFFICES ASSUME TypeOK, RepliesInv,
                      NEW e \in Range(board.feed), ~e.targeted, [id |-> e.id, at |-> e.at] \in Range(board.held)
               PROVE  \E o \in Range(board.orphans) : e.id \in Range(o.replies) /\ ~Requested(board, o.cause)
    BY DEF RepliesFindTheirTask
  <2>1. board.feed \in Seq(Entry) /\ board.orphans \in Seq(Orphan)
    BY DEF TypeOK, Board
  <2>2. PICK i \in 1 .. Len(board.feed) : board.feed[i] = e
    BY <2>1, InRange
  <2>3. PICK j \in 1 .. Len(board.orphans) :
          e.id \in Range(board.orphans[j].replies) /\ ~Requested(board, board.orphans[j].cause)
    BY <2>2 DEF RepliesInv, OrphansWait, Holds, Awaits
  <2>4. board.orphans[j] \in Range(board.orphans)
    BY <2>1, InRange
  <2>5. QED
    BY <2>3, <2>4
<1>2. QED
  BY <1>1, RepliesInit, RepliesStep, TypeInit, TypeStep, PTL DEF Spec
=============================================================================
