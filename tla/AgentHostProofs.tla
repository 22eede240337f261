-------------------------- MODULE AgentHostProofs --------------------------
(***************************************************************************)
(* The one session of an agent's process, for every number of calls and    *)
(* sessions and whatever the calls of its threads meet: no session is      *)
(* lost, and nothing runs on the loop behind the shutdown.                 *)
(***************************************************************************)
EXTENDS AgentHost, SequenceTheorems, TLAPS

-----------------------------------------------------------------------------
(* The inductive invariant *)

Distinct(s) == \A i, j \in DOMAIN s : s[i] = s[j] => i = j
Within(s, e) == \E i \in DOMAIN s : s[i] = e

Active == Step \ {"new", "queued", "ended"}

\* _session_lock: the tasks in it are those under way, each once, and only its holder is past its wait.
LockOK ==
  /\ Distinct(lock)
  /\ \A t \in Tasks : step[t] \in {"new", "ended"} <=> ~Within(lock, t)
  /\ \A i \in DOMAIN lock : i > 1 => step[lock[i]] = "queued"

\* What the holder of the lock does is with _session, or _session is None meanwhile.
HolderOK ==
  \A t \in Tasks :
    /\ step[t] \in Active => of[t] \in Sessions
    /\ step[t] = "using" => of[t] = session
    /\ step[t] \in Active \ {"using"} => session = None

\* close and its task.
CloseOK ==
  /\ closed <=> closer # "none"
  /\ step[Shutdown] \in {"new", "queued", "dropping", "ended"}
  /\ step[Shutdown] = "new" <=> closer \in {"none", "submitting"}

IInv ==
  /\ TypeOK
  /\ LockOK
  /\ HolderOK
  /\ CloseOK
  /\ NoLostSession
  /\ ShutdownIsLast

-----------------------------------------------------------------------------
(* Sequences without repetition *)

LEMMA AppendDistinct ==
  ASSUME NEW S, NEW s \in Seq(S), NEW e \in S, Distinct(s), ~Within(s, e)
  PROVE  /\ Append(s, e) \in Seq(S) /\ Distinct(Append(s, e))
         /\ Len(Append(s, e)) = Len(s) + 1 /\ Append(s, e)[Len(s) + 1] = e
         /\ \A i \in DOMAIN s : Append(s, e)[i] = s[i]
         /\ \A x : Within(Append(s, e), x) <=> Within(s, x) \/ x = e
<1>1. /\ Append(s, e) \in Seq(S) /\ Len(Append(s, e)) = Len(s) + 1
      /\ \A i \in 1 .. Len(s) : Append(s, e)[i] = s[i]
      /\ Append(s, e)[Len(s) + 1] = e
  BY AppendProperties
<1>2. DOMAIN s = 1 .. Len(s) /\ DOMAIN Append(s, e) = 1 .. Len(s) + 1 /\ Len(s) \in Nat
  BY <1>1, LenProperties
<1>3. \A i \in 1 .. Len(s) + 1 : i \in 1 .. Len(s) \/ i = Len(s) + 1
  BY <1>2
<1>4. Len(s) + 1 \in 1 .. Len(s) + 1 /\ \A i \in 1 .. Len(s) : i \in 1 .. Len(s) + 1
  BY <1>2
<1>5. Distinct(Append(s, e))
  BY <1>1, <1>2, <1>3 DEF Distinct, Within
<1>6. \A x : Within(Append(s, e), x) <=> Within(s, x) \/ x = e
  BY <1>1, <1>2, <1>3, <1>4 DEF Within
<1>7. QED
  BY <1>1, <1>2, <1>5, <1>6

LEMMA TailDistinct ==
  ASSUME NEW S, NEW s \in Seq(S), s # <<>>, Distinct(s)
  PROVE  /\ Tail(s) \in Seq(S) /\ Distinct(Tail(s)) /\ Len(Tail(s)) = Len(s) - 1
         /\ \A i \in DOMAIN Tail(s) : i + 1 \in DOMAIN s /\ Tail(s)[i] = s[i + 1]
         /\ \A x : Within(Tail(s), x) <=> Within(s, x) /\ x # Head(s)
<1>1. /\ Tail(s) \in Seq(S) /\ Len(Tail(s)) = Len(s) - 1
      /\ \A i \in 1 .. Len(Tail(s)) : Tail(s)[i] = s[i + 1]
  BY HeadTailProperties
<1>2. DOMAIN s = 1 .. Len(s) /\ DOMAIN Tail(s) = 1 .. Len(s) - 1 /\ Len(s) \in Nat /\ Len(s) > 0 /\ Head(s) = s[1]
  BY <1>1, LenProperties, EmptySeq
<1>3. \A i \in 1 .. Len(s) - 1 : i \in Nat /\ i + 1 \in 1 .. Len(s) /\ i + 1 # 1
  BY <1>2
<1>4. \A i \in 1 .. Len(s) : i = 1 \/ (i - 1 \in 1 .. Len(s) - 1 /\ (i - 1) + 1 = i)
  BY <1>2
<1>5. Distinct(Tail(s))
  BY <1>1, <1>2, <1>3 DEF Distinct
<1>6. ASSUME NEW x PROVE Within(Tail(s), x) <=> Within(s, x) /\ x # Head(s)
  <2>1. ASSUME NEW i \in 1 .. Len(s) - 1, Tail(s)[i] = x
        PROVE  Within(s, x) /\ x # Head(s)
    <3>1. i + 1 \in 1 .. Len(s) /\ i + 1 # 1 /\ s[i + 1] = x /\ 1 \in 1 .. Len(s)
      BY <1>1, <1>2, <1>3, <2>1
    <3>2. QED
      BY <3>1, <1>2 DEF Within, Distinct
  <2>2. ASSUME NEW i \in 1 .. Len(s), s[i] = x, x # Head(s)
        PROVE  Within(Tail(s), x)
    <3>1. i - 1 \in 1 .. Len(s) - 1 /\ (i - 1) + 1 = i
      BY <1>2, <1>4, <2>2
    <3>2. Tail(s)[i - 1] = x
      BY <1>1, <2>2, <3>1
    <3>3. QED
      BY <3>1, <3>2, <1>2 DEF Within
  <2>3. QED
    BY <2>1, <2>2, <1>2 DEF Within
<1>7. QED
  BY <1>1, <1>2, <1>3, <1>5, <1>6

\* Where the elements of s are when its k-th has left.
LEMMA RemoveAtElements ==
  ASSUME NEW S, NEW s \in Seq(S), NEW k \in DOMAIN s
  PROVE  /\ RemoveAt(s, k) \in Seq(S) /\ Len(RemoveAt(s, k)) = Len(s) - 1
         /\ \A i \in 1 .. Len(s) - 1 : RemoveAt(s, k)[i] = IF i < k THEN s[i] ELSE s[i + 1]
<1>1. DOMAIN s = 1 .. Len(s) /\ Len(s) \in Nat /\ k \in 1 .. Len(s)
  BY LenProperties
<1>2. \A i \in 1 .. k - 1 : s[i] \in S
  BY <1>1
<1>3. \A i \in k + 1 .. Len(s) : s[i] \in S
  BY <1>1
<1> DEFINE a == SubSeq(s, 1, k - 1)
           b == SubSeq(s, k + 1, Len(s))
<1>4. /\ a \in Seq(S) /\ Len(a) = (IF 1 <= k - 1 THEN k - 1 - 1 + 1 ELSE 0)
      /\ \A i \in 1 .. k - 1 - 1 + 1 : a[i] = s[1 + i - 1]
  BY <1>1, <1>2, SubSeqProperties
<1>5. /\ b \in Seq(S) /\ Len(b) = (IF k + 1 <= Len(s) THEN Len(s) - (k + 1) + 1 ELSE 0)
      /\ \A i \in 1 .. Len(s) - (k + 1) + 1 : b[i] = s[k + 1 + i - 1]
  BY <1>1, <1>3, SubSeqProperties
<1> HIDE DEF a, b
<1>6. Len(a) = k - 1 /\ Len(b) = Len(s) - k
  BY <1>1, <1>4, <1>5
<1>7. \A i \in 1 .. k - 1 : a[i] = s[i]
  BY <1>1, <1>4
<1>8. \A i \in 1 .. Len(s) - k : b[i] = s[k + i]
  <2>1. Len(s) - (k + 1) + 1 = Len(s) - k /\ \A i \in 1 .. Len(s) - k : k + 1 + i - 1 = k + i
    BY <1>1
  <2>2. QED
    BY <2>1, <1>5
<1>9. /\ a \o b \in Seq(S) /\ Len(a \o b) = Len(a) + Len(b)
      /\ \A i \in 1 .. Len(a) + Len(b) : (a \o b)[i] = IF i <= Len(a) THEN a[i] ELSE b[i - Len(a)]
  BY <1>4, <1>5, ConcatProperties
<1>10. RemoveAt(s, k) = a \o b
  BY DEF RemoveAt, a, b
<1>11. Len(a) + Len(b) = Len(s) - 1
  BY <1>1, <1>6
<1>12. ASSUME NEW i \in 1 .. Len(s) - 1
       PROVE  (a \o b)[i] = IF i < k THEN s[i] ELSE s[i + 1]
  <2>1. CASE i < k
    <3>1. i \in 1 .. k - 1 /\ i <= Len(a)
      BY <1>1, <1>6, <2>1
    <3>2. QED
      BY <1>7, <1>9, <1>11, <2>1, <3>1
  <2>2. CASE ~(i < k)
    <3>1. i - Len(a) \in 1 .. Len(s) - k /\ ~(i <= Len(a)) /\ k + (i - Len(a)) = i + 1
      BY <1>1, <1>6, <2>2
    <3>2. QED
      BY <1>8, <1>9, <1>11, <2>2, <3>1
  <2>3. QED
    BY <2>1, <2>2
<1>13. QED
  BY <1>9, <1>10, <1>11, <1>12

LEMMA RemoveAtDistinct ==
  ASSUME NEW S, NEW s \in Seq(S), NEW k \in DOMAIN s, Distinct(s)
  PROVE  /\ RemoveAt(s, k) \in Seq(S) /\ Distinct(RemoveAt(s, k)) /\ Len(RemoveAt(s, k)) = Len(s) - 1
         /\ \A i \in DOMAIN RemoveAt(s, k) :
              \E j \in DOMAIN s :
                j >= i /\ RemoveAt(s, k)[i] = s[j] /\ (j = Len(s) => i = Len(s) - 1)
         /\ \A x : Within(RemoveAt(s, k), x) <=> Within(s, x) /\ x # s[k]
<1> DEFINE r == RemoveAt(s, k)
<1>1. /\ r \in Seq(S) /\ Len(r) = Len(s) - 1
      /\ \A i \in 1 .. Len(s) - 1 : r[i] = IF i < k THEN s[i] ELSE s[i + 1]
  BY RemoveAtElements
<1> HIDE DEF r
<1>2. DOMAIN s = 1 .. Len(s) /\ Len(s) \in Nat /\ k \in 1 .. Len(s) /\ DOMAIN r = 1 .. Len(s) - 1
  BY <1>1, LenProperties
<1> DEFINE at(i) == IF i < k THEN i ELSE i + 1
<1>3. ASSUME NEW i \in 1 .. Len(s) - 1
      PROVE  at(i) \in 1 .. Len(s) /\ at(i) >= i /\ at(i) # k /\ (at(i) = Len(s) => i = Len(s) - 1)
  <2>1. PICK n \in Nat : n = Len(s)
    BY <1>2
  <2>2. i \in 1 .. n - 1 /\ k \in 1 .. n
    BY <1>2, <2>1
  <2>3. CASE i < k
    <3>1. i \in 1 .. n /\ i >= i /\ i # k /\ i # n
      BY <2>2, <2>3
    <3>2. QED
      BY <2>1, <2>3, <3>1
  <2>4. CASE ~(i < k)
    <3>1. i + 1 \in 1 .. n /\ i + 1 >= i /\ i + 1 # k /\ (i + 1 = n => i = n - 1)
      BY <2>2, <2>4
    <3>2. QED
      BY <2>1, <2>4, <3>1
  <2>5. QED
    BY <2>3, <2>4
<1>4. \A i, j \in 1 .. Len(s) - 1 : at(i) = at(j) => i = j
  BY <1>2
<1>5. \A j \in 1 .. Len(s) : j # k => \E i \in 1 .. Len(s) - 1 : at(i) = j
  <2>1. TAKE j \in 1 .. Len(s)
  <2>2. CASE j < k
    <3>1. j \in 1 .. Len(s) - 1 /\ at(j) = j
      BY <1>2, <2>2
    <3>2. QED
      BY <3>1
  <2>3. CASE j > k
    <3>1. j - 1 \in 1 .. Len(s) - 1 /\ at(j - 1) = j
      BY <1>2, <2>3
    <3>2. QED
      BY <3>1
  <2>4. QED
    BY <2>2, <2>3, <1>2
<1>6. \A i \in 1 .. Len(s) - 1 : r[i] = s[at(i)]
  BY <1>1
<1> HIDE DEF at
<1>7. Distinct(r)
  BY <1>2, <1>3, <1>4, <1>6 DEF Distinct
<1>8. \A i \in DOMAIN r : \E j \in DOMAIN s : j >= i /\ r[i] = s[j] /\ (j = Len(s) => i = Len(s) - 1)
  <2>1. TAKE i \in DOMAIN r
  <2>2. at(i) \in DOMAIN s /\ at(i) >= i /\ r[i] = s[at(i)] /\ (at(i) = Len(s) => i = Len(s) - 1)
    BY <1>2, <1>3, <1>6
  <2>3. QED
    BY <2>2
<1>9. ASSUME NEW x PROVE Within(r, x) <=> Within(s, x) /\ x # s[k]
  <2>1. ASSUME NEW i \in 1 .. Len(s) - 1, r[i] = x PROVE Within(s, x) /\ x # s[k]
    BY <1>2, <1>3, <1>6, <2>1 DEF Within, Distinct
  <2>2. ASSUME NEW j \in 1 .. Len(s), s[j] = x, x # s[k] PROVE Within(r, x)
    BY <1>2, <1>5, <1>6, <2>2 DEF Within
  <2>3. QED
    BY <2>1, <2>2, <1>2 DEF Within
<1>10. QED
  BY <1>1, <1>7, <1>8, <1>9 DEF r
-----------------------------------------------------------------------------
(* Steps *)

\* A step of the process is one of these, or leaves the context alone.
SyncStep ==
  \/ \E c \in Calls : \/ Submit(c) \/ GiveUp(c) \/ Acquire(c) \/ Opened(c) \/ OpenFails(c) \/ Answers(c)
                      \/ Fails(c) \/ Redropped(c) \/ DropEnds(c) \/ Aborted(c) \/ TimesOut(c) \/ Cancelled(c)
  \/ \E s \in Sessions : Enters(s) \/ CannotEnter(s) \/ Closes(s) \/ OwnerCancelled(s)
  \/ Close \/ SubmitShutdown \/ ShutdownDrops \/ ShutdownEnds \/ StopLoop
  \/ UNCHANGED syncVars

LEMMA NextIsSyncStep ==
  ASSUME [Next]_vars
  PROVE  SyncStep
<1>1. ASSUME \E c \in Calls : Submit(c)
      PROVE  SyncStep
  BY <1>1 DEF SyncStep
<1>2. CASE PollThread
  <2>1. Own \subseteq Calls
    BY DEF Own
  <2>2. (\E c \in Own : NextCall(c) /\ Submit(c)) => SyncStep
    BY <1>1, <2>1
  <2>3. CASE Probes \/ Handles
    BY <2>2, <2>3 DEF Probes, Handles
  <2>4. CASE Consumes \/ PollEnds
    BY <2>4 DEF Consumes, PollEnds, SyncStep
  <2>5. QED
    BY <1>2, <2>3, <2>4 DEF PollThread
<1>3. CASE Stop \/ JoinTimesOut \/ CloseBus
  BY <1>3 DEF Stop, JoinTimesOut, CloseBus, SyncStep
<1>4. CASE CloseContext
  BY <1>4 DEF CloseContext, SyncStep
<1>5. CASE OtherCall
  BY <1>1, <1>5, HostAssumption DEF OtherCall
<1>6. CASE Context
  BY <1>6 DEF Context, LoopStep, SyncStep
<1>7. CASE UNCHANGED vars
  BY <1>7 DEF vars, SyncStep
<1>8. QED
  BY <1>2, <1>3, <1>4, <1>5, <1>6, <1>7 DEF Next, Closing

LEMMA ShutdownIsNoCall == Shutdown \notin Calls /\ Shutdown \in Tasks /\ Calls \subseteq Tasks /\ None \notin Sessions
BY SyncContextAssumption DEF Calls, Tasks, Sessions

\* Only the holder of the lock is past its wait for it.
LEMMA HolderIsHead ==
  ASSUME TypeOK, LockOK, NEW t \in Tasks, step[t] \in Active
  PROVE  lock # <<>> /\ Head(lock) = t
<1>1. lock \in Seq(Tasks) /\ DOMAIN lock = 1 .. Len(lock) /\ Len(lock) \in Nat
  BY LenProperties DEF TypeOK, SyncTypeOK
<1>2. step[t] \notin {"new", "ended"} /\ step[t] # "queued"
  BY DEF Active
<1>3. PICK i \in DOMAIN lock : lock[i] = t
  BY <1>2 DEF LockOK, Within
<1>4. ~(i > 1)
  BY <1>2, <1>3 DEF LockOK
<1>5. i = 1 /\ Len(lock) > 0
  BY <1>1, <1>4
<1>6. QED
  BY <1>1, <1>3, <1>5

LEMMA OthersWait ==
  ASSUME TypeOK, LockOK, NEW t \in Tasks, lock # <<>>, Head(lock) = t
  PROVE  \A u \in Tasks : u # t => step[u] \notin Active
BY HolderIsHead

\* What a step does to the lock and to the tasks' places.
AtHead(t) == t \in Tasks /\ lock # <<>> /\ Head(lock) = t
Joins(t) ==
  /\ t \in Tasks /\ step[t] = "new" /\ lock' = Append(lock, t) /\ Goes(t, "queued")
  /\ t = Shutdown \/ ~closed
Moves(t, s) == AtHead(t) /\ s \in Active /\ lock' = lock /\ Goes(t, s)
Leaves(t) == AtHead(t) /\ lock' = Tail(lock) /\ Goes(t, "ended")
LeavesQueue(t) ==
  /\ t \in Tasks /\ step[t] = "queued" /\ Goes(t, "ended")
  /\ \E i \in DOMAIN lock : lock[i] = t /\ lock' = RemoveAt(lock, i)

\* What the lock is made of stays, whatever the step.
LEMMA JoinsLock ==
  ASSUME TypeOK, LockOK, NEW t, Joins(t)
  PROVE  lock' \in Seq(Tasks) /\ step' \in [Tasks -> Step] /\ LockOK'
<1>1. lock \in Seq(Tasks) /\ step \in [Tasks -> Step] /\ t \in Tasks
  BY DEF TypeOK, SyncTypeOK, Joins
<1>2. Distinct(lock) /\ ~Within(lock, t)
  BY DEF LockOK, Joins
<1>3. /\ lock' \in Seq(Tasks) /\ Distinct(lock')
      /\ Len(lock') = Len(lock) + 1 /\ lock'[Len(lock) + 1] = t
      /\ \A i \in DOMAIN lock : lock'[i] = lock[i]
      /\ \A x : Within(lock', x) <=> Within(lock, x) \/ x = t
  BY <1>1, <1>2, AppendDistinct DEF Joins
<1>4. step' = [step EXCEPT ![t] = "queued"]
  BY DEF Joins, Goes
<1>5. step' \in [Tasks -> Step]
  BY <1>1, <1>4 DEF Step
<1>6. \A u \in Tasks : step'[u] \in {"new", "ended"} <=> ~Within(lock', u)
  BY <1>1, <1>3, <1>4 DEF LockOK
<1>7. \A i \in DOMAIN lock' : i > 1 => step'[lock'[i]] = "queued"
  <2>1. DOMAIN lock = 1 .. Len(lock) /\ DOMAIN lock' = 1 .. Len(lock) + 1 /\ Len(lock) \in Nat
    BY <1>1, <1>3, LenProperties
  <2>2. TAKE i \in DOMAIN lock'
  <2>3. CASE i \in DOMAIN lock
    <3>1. lock'[i] = lock[i] /\ lock[i] \in Tasks /\ lock[i] # t
      BY <1>1, <1>2, <1>3, <2>1, <2>3 DEF Within
    <3>2. QED
      BY <1>1, <1>4, <2>3, <3>1 DEF LockOK
  <2>4. CASE i = Len(lock) + 1
    BY <1>1, <1>3, <1>4, <2>4
  <2>5. QED
    BY <2>1, <2>3, <2>4
<1>8. QED
  BY <1>3, <1>5, <1>6, <1>7 DEF LockOK

LEMMA MovesLock ==
  ASSUME TypeOK, LockOK, NEW t, NEW s, Moves(t, s)
  PROVE  lock' \in Seq(Tasks) /\ step' \in [Tasks -> Step] /\ LockOK'
<1>1. lock \in Seq(Tasks) /\ step \in [Tasks -> Step] /\ t \in Tasks /\ s \in Step \ {"new", "queued", "ended"}
  BY DEF TypeOK, SyncTypeOK, Moves, AtHead, Active
<1>2. DOMAIN lock = 1 .. Len(lock) /\ 1 \in DOMAIN lock /\ lock[1] = t
  BY <1>1, EmptySeq, LenProperties DEF Moves, AtHead
<1>3. step' = [step EXCEPT ![t] = s] /\ lock' = lock
  BY DEF Moves, Goes
<1>4. Within(lock, t)
  BY <1>2 DEF Within
<1>5. \A u \in Tasks : step'[u] \in {"new", "ended"} <=> ~Within(lock, u)
  BY <1>1, <1>3, <1>4 DEF LockOK
<1>6. \A i \in DOMAIN lock : i > 1 => step'[lock[i]] = "queued"
  <2>1. TAKE i \in DOMAIN lock
  <2>2. HAVE i > 1
  <2>3. lock[i] # t /\ lock[i] \in Tasks
    BY <1>1, <1>2, <2>2 DEF LockOK, Distinct
  <2>4. QED
    BY <1>1, <1>3, <2>2, <2>3 DEF LockOK
<1>7. QED
  BY <1>1, <1>3, <1>5, <1>6 DEF LockOK

LEMMA LeavesLock ==
  ASSUME TypeOK, LockOK, NEW t, Leaves(t)
  PROVE  lock' \in Seq(Tasks) /\ step' \in [Tasks -> Step] /\ LockOK'
<1>1. lock \in Seq(Tasks) /\ step \in [Tasks -> Step] /\ t \in Tasks /\ lock # <<>> /\ Head(lock) = t /\ Distinct(lock)
  BY DEF TypeOK, SyncTypeOK, Leaves, AtHead, LockOK
<1>2. /\ lock' \in Seq(Tasks) /\ Distinct(lock')
      /\ \A i \in DOMAIN lock' : i + 1 \in DOMAIN lock /\ lock'[i] = lock[i + 1]
      /\ \A x : Within(lock', x) <=> Within(lock, x) /\ x # t
  BY <1>1, TailDistinct DEF Leaves
<1>3. step' = [step EXCEPT ![t] = "ended"]
  BY DEF Leaves, Goes
<1>4. step' \in [Tasks -> Step]
  BY <1>1, <1>3 DEF Step
<1>5. \A u \in Tasks : step'[u] \in {"new", "ended"} <=> ~Within(lock', u)
  BY <1>1, <1>2, <1>3 DEF LockOK
<1>6. \A i \in DOMAIN lock' : i > 1 => step'[lock'[i]] = "queued"
  <2>1. TAKE i \in DOMAIN lock'
  <2>2. HAVE i > 1
  <2>3. i \in Nat
    BY <1>2, LenProperties
  <2>4. i + 1 > 1 /\ i + 1 \in DOMAIN lock /\ lock'[i] = lock[i + 1]
    BY <1>2, <2>2, <2>3
  <2>5. Within(lock', lock'[i])
    BY DEF Within
  <2>6. lock'[i] # t /\ lock'[i] \in Tasks
    BY <1>2, <2>5, LenProperties, ElementOfSeq
  <2>7. QED
    BY <1>1, <1>3, <2>4, <2>6 DEF LockOK
<1>7. QED
  BY <1>2, <1>4, <1>5, <1>6 DEF LockOK

LEMMA LeavesQueueLock ==
  ASSUME TypeOK, LockOK, NEW t, LeavesQueue(t)
  PROVE  lock' \in Seq(Tasks) /\ step' \in [Tasks -> Step] /\ LockOK'
<1>1. lock \in Seq(Tasks) /\ step \in [Tasks -> Step] /\ t \in Tasks /\ Distinct(lock)
  BY DEF TypeOK, SyncTypeOK, LeavesQueue, LockOK
<1>2. PICK k \in DOMAIN lock : lock[k] = t /\ lock' = RemoveAt(lock, k)
  BY DEF LeavesQueue
<1>3. /\ lock' \in Seq(Tasks) /\ Distinct(lock')
      /\ \A i \in DOMAIN lock' : \E j \in DOMAIN lock : j >= i /\ lock'[i] = lock[j]
      /\ \A x : Within(lock', x) <=> Within(lock, x) /\ x # t
  <2> DEFINE r == RemoveAt(lock, k)
  <2>1. /\ r \in Seq(Tasks) /\ Distinct(r)
        /\ \A i \in DOMAIN r :
             \E j \in DOMAIN lock : j >= i /\ r[i] = lock[j] /\ (j = Len(lock) => i = Len(lock) - 1)
        /\ \A x : Within(r, x) <=> Within(lock, x) /\ x # lock[k]
    BY <1>1, RemoveAtDistinct
  <2>2. lock' = r /\ lock[k] = t
    BY <1>2
  <2> HIDE DEF r
  <2>3. \A i \in DOMAIN r : \E j \in DOMAIN lock : j >= i /\ r[i] = lock[j]
    BY <2>1, Zenon
  <2>4. QED
    BY <2>1, <2>2, <2>3
<1>4. step' = [step EXCEPT ![t] = "ended"]
  BY DEF LeavesQueue, Goes
<1>5. step' \in [Tasks -> Step]
  BY <1>1, <1>4 DEF Step
<1>6. \A u \in Tasks : step'[u] \in {"new", "ended"} <=> ~Within(lock', u)
  BY <1>1, <1>3, <1>4 DEF LockOK
<1>7. \A i \in DOMAIN lock' : i > 1 => step'[lock'[i]] = "queued"
  <2>1. TAKE i \in DOMAIN lock'
  <2>2. HAVE i > 1
  <2>3. PICK j \in DOMAIN lock : j >= i /\ lock'[i] = lock[j]
    BY <1>3
  <2>4. i \in Int /\ j \in Int
    BY <1>1, <1>3, LenProperties
  <2>5. step[lock[j]] = "queued"
    BY <2>2, <2>3, <2>4 DEF LockOK
  <2>6. Within(lock', lock'[i])
    BY DEF Within
  <2>7. lock'[i] # t /\ lock'[i] \in Tasks
    BY <1>3, <2>6, LenProperties, ElementOfSeq
  <2>8. QED
    BY <1>1, <1>4, <2>3, <2>5, <2>7
<1>8. QED
  BY <1>3, <1>5, <1>6, <1>7 DEF LockOK
-----------------------------------------------------------------------------
(* Every step of the context is a step of this kind on the lock *)

LockStep ==
  \/ UNCHANGED <<lock, step>>
  \/ \E t \in Tasks : Joins(t) \/ Leaves(t) \/ LeavesQueue(t) \/ \E s \in Active : Moves(t, s)

LEMMA LockStepKeepsLock ==
  ASSUME TypeOK, LockOK, LockStep
  PROVE  lock' \in Seq(Tasks) /\ step' \in [Tasks -> Step] /\ LockOK'
<1>1. CASE UNCHANGED <<lock, step>>
  BY <1>1 DEF LockOK, TypeOK, SyncTypeOK
<1>2. CASE \E t \in Tasks : Joins(t) \/ Leaves(t) \/ LeavesQueue(t) \/ \E s \in Active : Moves(t, s)
  BY <1>2, JoinsLock, LeavesLock, LeavesQueueLock, MovesLock
<1>3. QED
  BY <1>1, <1>2 DEF LockStep

LEMMA HoldsAtHead ==
  ASSUME NEW t \in Tasks, NEW s, Holds(t, s)
  PROVE  AtHead(t) /\ step[t] = s
BY DEF Holds, AtHead

LEMMA EndsLeaves ==
  ASSUME NEW t \in Tasks, AtHead(t), NEW how, Ends(t, how)
  PROVE  LockStep
BY DEF Ends, Leaves, LockStep

LEMMA ActiveSteps == {"opening", "aborting", "using", "redropping", "dropping"} = Active
BY DEF Active, Step

LEMMA GoesMoves ==
  ASSUME NEW t \in Tasks, AtHead(t), NEW s \in Active, Goes(t, s), lock' = lock
  PROVE  LockStep
BY DEF Moves, LockStep

LEMMA InterruptedLock ==
  ASSUME TypeOK, LockOK, NEW c \in Calls, Interrupted(c)
  PROVE  LockStep
<1>1. c \in Tasks /\ step[c] \in Active
  BY ShutdownIsNoCall, ActiveSteps DEF Interrupted
<1>2. AtHead(c)
  BY <1>1, HolderIsHead DEF AtHead
<1>3. "aborting" \in Active /\ "dropping" \in Active
  BY ActiveSteps
<1>4. CASE Goes(c, "aborting") /\ lock' = lock
  BY <1>1, <1>2, <1>3, <1>4, GoesMoves
<1>5. CASE Goes(c, "dropping") /\ lock' = lock
  BY <1>1, <1>2, <1>3, <1>5, GoesMoves
<1>6. CASE Ends(c, "failed")
  BY <1>1, <1>2, <1>6, EndsLeaves
<1>7. QED
  BY <1>4, <1>5, <1>6 DEF Interrupted, Drops

LEMMA SyncStepIsLockStep ==
  ASSUME IInv, SyncStep
  PROVE  LockStep
<1> USE DEF IInv
<1>1. Calls \subseteq Tasks /\ Shutdown \in Tasks
  BY ShutdownIsNoCall
<1>2. ASSUME NEW c \in Calls, Submit(c) PROVE LockStep
  BY <1>1, <1>2 DEF Submit, LockStep, Joins, Goes
<1>3. ASSUME NEW c \in Calls, GiveUp(c) PROVE LockStep
  BY <1>3 DEF GiveUp, LockStep
<1>4. ASSUME NEW c \in Calls, Acquire(c) PROVE LockStep
  <2>1. AtHead(c) /\ lock' = lock
    BY <1>1, <1>4, HoldsAtHead DEF Acquire
  <2>2. Goes(c, "opening") \/ Goes(c, "using")
    BY <1>4 DEF Acquire, Opens
  <2>3. QED
    BY <1>1, <2>1, <2>2, GoesMoves, ActiveSteps
<1>5. ASSUME NEW c \in Calls, Opened(c) PROVE LockStep
  <2>1. AtHead(c) /\ lock' = lock /\ Goes(c, "using")
    BY <1>1, <1>5, HoldsAtHead DEF Opened
  <2>2. QED
    BY <1>1, <2>1, GoesMoves, ActiveSteps
<1>6. ASSUME NEW c \in Calls, OpenFails(c) \/ Answers(c) \/ DropEnds(c) \/ Aborted(c) PROVE LockStep
  <2>1. AtHead(c) /\ \E how \in Outcome : Ends(c, how)
    BY <1>1, <1>6, HoldsAtHead DEF OpenFails, Answers, DropEnds, Aborted, Outcome
  <2>2. QED
    BY <1>1, <2>1, EndsLeaves
<1>7. ASSUME NEW c \in Calls, Fails(c) PROVE LockStep
  <2>1. AtHead(c) /\ lock' = lock /\ (Goes(c, "redropping") \/ Goes(c, "dropping"))
    BY <1>1, <1>7, HoldsAtHead DEF Fails, Drops
  <2>2. QED
    BY <1>1, <2>1, GoesMoves, ActiveSteps
<1>8. ASSUME NEW c \in Calls, Redropped(c) PROVE LockStep
  <2>1. AtHead(c) /\ lock' = lock /\ Goes(c, "opening")
    BY <1>1, <1>8, HoldsAtHead DEF Redropped, Opens
  <2>2. QED
    BY <1>1, <2>1, GoesMoves, ActiveSteps
<1>9. ASSUME NEW c \in Calls, TimesOut(c) PROVE LockStep
  <2>1. CASE Interrupted(c)
    BY <2>1, InterruptedLock
  <2>2. CASE UNCHANGED taskVars
    BY <2>2 DEF taskVars, LockStep
  <2>3. QED
    BY <1>9, <2>1, <2>2 DEF TimesOut
<1>10. ASSUME NEW c \in Calls, Cancelled(c) PROVE LockStep
  <2>1. CASE Interrupted(c)
    BY <2>1, InterruptedLock
  <2>2. CASE UNCHANGED taskVars
    BY <2>2 DEF taskVars, LockStep
  <2>3. CASE step[c] = "dropping" /\ Ends(c, "failed")
    <3>1. AtHead(c)
      BY <1>1, <2>3, HolderIsHead, ActiveSteps DEF AtHead
    <3>2. QED
      BY <1>1, <2>3, <3>1, EndsLeaves
  <2>4. CASE /\ step[c] = "queued" /\ Goes(c, "ended")
             /\ \E i \in DOMAIN lock : lock[i] = c /\ lock' = RemoveAt(lock, i)
    <3>1. LeavesQueue(c)
      BY <1>1, <2>4 DEF LeavesQueue
    <3>2. QED
      BY <1>1, <3>1 DEF LockStep
  <2>5. QED
    BY <1>10, <2>1, <2>2, <2>3, <2>4 DEF Cancelled
<1>11. ASSUME NEW s \in Sessions, Enters(s) \/ CannotEnter(s) \/ Closes(s) \/ OwnerCancelled(s) PROVE LockStep
  BY <1>11 DEF Enters, CannotEnter, Closes, OwnerCancelled, OwnerGoes, taskVars, LockStep
<1>12. CASE Close \/ StopLoop
  BY <1>12 DEF Close, StopLoop, taskVars, LockStep
<1>13. CASE SubmitShutdown
  <2>1. step[Shutdown] = "new"
    BY <1>13 DEF SubmitShutdown, CloseOK
  <2>2. Joins(Shutdown)
    BY <1>1, <1>13, <2>1 DEF SubmitShutdown, Joins
  <2>3. QED
    BY <1>1, <2>2 DEF LockStep
<1>14. CASE ShutdownDrops
  <2>1. AtHead(Shutdown)
    BY <1>1, <1>14, HoldsAtHead DEF ShutdownDrops
  <2>2. CASE Ends(Shutdown, "ok")
    BY <1>1, <2>1, <2>2, EndsLeaves
  <2>3. CASE lock' = lock /\ Goes(Shutdown, "dropping")
    BY <1>1, <2>1, <2>3, GoesMoves, ActiveSteps
  <2>4. QED
    BY <1>14, <2>2, <2>3 DEF ShutdownDrops, Drops
<1>15. CASE ShutdownEnds
  <2>1. AtHead(Shutdown) /\ Ends(Shutdown, "ok")
    BY <1>1, <1>15, HoldsAtHead DEF ShutdownEnds
  <2>2. QED
    BY <1>1, <2>1, EndsLeaves
<1>16. CASE UNCHANGED syncVars
  BY <1>16 DEF syncVars, taskVars, LockStep
<1>17. QED
  BY <1>2, <1>3, <1>4, <1>5, <1>6, <1>7, <1>8, <1>9, <1>10, <1>11, <1>12, <1>13, <1>14, <1>15, <1>16 DEF SyncStep
-----------------------------------------------------------------------------
(* Types *)

LEMMA EndsType ==
  ASSUME TypeOK, NEW t \in Tasks, NEW how \in Outcome, Ends(t, how)
  PROVE  waiting' \subseteq Calls /\ of' \in [Tasks -> Sessions \cup {None}] /\ outcome' \in [Calls -> Outcome]
<1>1. waiting \subseteq Calls /\ of \in [Tasks -> Sessions \cup {None}] /\ outcome \in [Calls -> Outcome]
  BY DEF TypeOK, SyncTypeOK
<1>2. outcome' \in [Calls -> Outcome]
  <2>1. CASE t \in waiting
    BY <1>1, <2>1 DEF Ends
  <2>2. CASE t \notin waiting
    BY <1>1, <2>2 DEF Ends
  <2>3. QED
    BY <2>1, <2>2
<1>3. QED
  BY <1>1, <1>2 DEF Ends

LEMMA OpensType ==
  ASSUME TypeOK, NEW t \in Tasks, Opens(t)
  PROVE  /\ of' \in [Tasks -> Sessions \cup {None}]
         /\ owner' \in [Sessions -> {"none", "entering", "open", "ended"}]
BY DEF TypeOK, SyncTypeOK, Opens

LEMMA DropsType ==
  ASSUME TypeOK, NEW t \in Tasks, NEW s, Drops(t, s), session \in Sessions
  PROVE  /\ of' \in [Tasks -> Sessions \cup {None}] /\ stop' \subseteq Sessions
         /\ session' \in Sessions \cup {None}
BY DEF TypeOK, SyncTypeOK, Drops

\* What the types of the context say beside the lock and the tasks' places.
RestOK ==
  /\ closed \in BOOLEAN /\ closer \in {"none", "submitting", "waiting", "left"} /\ running \in BOOLEAN
  /\ waiting \subseteq Calls /\ cancelled \subseteq Calls /\ kept \subseteq Calls
  /\ of \in [Tasks -> Sessions \cup {None}] /\ outcome \in [Calls -> Outcome]
  /\ session \in Sessions \cup {None} /\ owner \in [Sessions -> {"none", "entering", "open", "ended"}]
  /\ stop \subseteq Sessions /\ killed \subseteq Sessions

LEMMA InterruptedType ==
  ASSUME TypeOK, HolderOK, NEW c \in Calls, Interrupted(c)
  PROVE  /\ waiting' \subseteq Calls /\ kept' \subseteq Calls /\ of' \in [Tasks -> Sessions \cup {None}]
         /\ outcome' \in [Calls -> Outcome] /\ session' \in Sessions \cup {None}
         /\ owner' \in [Sessions -> {"none", "entering", "open", "ended"}]
         /\ stop' \subseteq Sessions /\ killed' \subseteq Sessions
<1>1. RestOK /\ c \in Tasks
  BY ShutdownIsNoCall DEF TypeOK, SyncTypeOK, RestOK
<1>2. step[c] \in Active => of[c] \in Sessions
  BY <1>1 DEF HolderOK
<1>3. CASE step[c] = "opening" /\ stop' = stop \cup {of[c]} /\ UNCHANGED <<lock, waiting, of, kept, outcome, session, owner, killed>>
  BY <1>1, <1>2, <1>3, ActiveSteps DEF RestOK
<1>4. CASE step[c] = "using" /\ Drops(c, "dropping") /\ UNCHANGED <<lock, waiting, kept, outcome, owner, killed>>
  <2>1. session \in Sessions
    BY <1>1, <1>2, <1>4, ActiveSteps DEF HolderOK
  <2>2. QED
    BY <1>1, <1>4, <2>1, DropsType DEF RestOK
<1>5. CASE Ends(c, "failed") /\ UNCHANGED <<kept, sessionVars>>
  BY <1>1, <1>5, EndsType DEF RestOK, sessionVars, Outcome
<1>6. QED
  BY <1>3, <1>4, <1>5 DEF Interrupted

LEMMA SyncStepKeepsRest ==
  ASSUME IInv, SyncStep
  PROVE  RestOK'
<1> USE DEF IInv
<1>1. RestOK /\ Calls \subseteq Tasks /\ Shutdown \in Tasks
  BY ShutdownIsNoCall DEF TypeOK, SyncTypeOK, RestOK
<1>2. \A t \in Tasks : step[t] \in Active => of[t] \in Sessions
  BY DEF HolderOK
<1>3. \A t \in Tasks : step[t] = "using" => session \in Sessions
  BY <1>2, ActiveSteps DEF HolderOK
<1>4. {"ok", "failed"} \subseteq Outcome
  BY DEF Outcome
<1>5. ASSUME NEW c \in Calls, Submit(c) \/ GiveUp(c) PROVE RestOK'
  BY <1>1, <1>4, <1>5 DEF Submit, GiveUp, RestOK, closeVars, sessionVars
<1>6. ASSUME NEW c \in Calls, Acquire(c) PROVE RestOK'
  <2>1. CASE session = None /\ Opens(c) /\ UNCHANGED kept
    BY <1>1, <1>6, <2>1, OpensType DEF Acquire, RestOK, closeVars
  <2>2. CASE /\ of' = [of EXCEPT ![c] = session] /\ kept' = kept \cup {c} /\ UNCHANGED owner
    BY <1>1, <1>6, <2>2 DEF Acquire, RestOK, closeVars
  <2>3. QED
    BY <1>6, <2>1, <2>2 DEF Acquire
<1>7. ASSUME NEW c \in Calls, Opened(c) PROVE RestOK'
  BY <1>1, <1>7 DEF Opened, RestOK, closeVars
<1>8. ASSUME NEW c \in Calls, OpenFails(c) \/ Answers(c) \/ Aborted(c) PROVE RestOK'
  <2>1. \E how \in Outcome : Ends(c, how)
    BY <1>4, <1>8 DEF OpenFails, Answers, Aborted
  <2>2. QED
    BY <1>1, <1>8, <2>1, EndsType DEF OpenFails, Answers, Aborted, RestOK, closeVars, sessionVars
<1>9. ASSUME NEW c \in Calls, Fails(c) PROVE RestOK'
  <2>1. session \in Sessions /\ \E s \in Step : Drops(c, s)
    BY <1>1, <1>3, <1>9 DEF Fails, Holds, Step
  <2>2. QED
    BY <1>1, <1>9, <2>1, DropsType DEF Fails, RestOK, closeVars
<1>10. ASSUME NEW t \in Tasks, step[t] \in Active, Dropped(t) PROVE killed' \subseteq Sessions
  BY <1>1, <1>2, <1>10 DEF Dropped, RestOK
<1>11. ASSUME NEW c \in Calls, Redropped(c) PROVE RestOK'
  <2>1. killed' \subseteq Sessions
    BY <1>1, <1>10, <1>11, ActiveSteps DEF Redropped, Holds
  <2>2. QED
    BY <1>1, <1>11, <2>1, OpensType DEF Redropped, RestOK, closeVars
<1>12. ASSUME NEW c \in Calls, DropEnds(c) PROVE RestOK'
  <2>1. killed' \subseteq Sessions
    BY <1>1, <1>10, <1>12, ActiveSteps DEF DropEnds, Holds
  <2>2. QED
    BY <1>1, <1>4, <1>12, <2>1, EndsType DEF DropEnds, RestOK, closeVars
<1>13. ASSUME NEW c \in Calls, step[c] = "aborting", CancelsOwner(c) PROVE killed' \subseteq Sessions
  BY <1>1, <1>2, <1>13, ActiveSteps DEF CancelsOwner, RestOK
<1>14. ASSUME NEW c \in Calls, TimesOut(c) PROVE RestOK'
  <2>1. CASE Interrupted(c)
    BY <1>1, <1>14, <2>1, InterruptedType DEF TimesOut, RestOK, closeVars
  <2>2. CASE step[c] = "aborting" /\ CancelsOwner(c) /\ UNCHANGED <<taskVars, waiting, session, owner, stop>>
    BY <1>1, <1>13, <1>14, <2>2 DEF TimesOut, RestOK, closeVars, taskVars
  <2>3. QED
    BY <1>14, <2>1, <2>2 DEF TimesOut
<1>15. ASSUME NEW c \in Calls, Cancelled(c) PROVE RestOK'
  <2>1. CASE Interrupted(c)
    BY <1>1, <1>15, <2>1, InterruptedType DEF Cancelled, RestOK, closeVars
  <2>2. CASE step[c] = "aborting" /\ CancelsOwner(c) /\ UNCHANGED <<taskVars, waiting, session, owner, stop>>
    BY <1>1, <1>13, <1>15, <2>2 DEF Cancelled, RestOK, closeVars, taskVars
  <2>3. CASE Ends(c, "failed") /\ UNCHANGED <<kept, sessionVars>>
    BY <1>1, <1>4, <1>15, <2>3, EndsType DEF Cancelled, RestOK, closeVars, sessionVars
  <2>4. CASE UNCHANGED <<waiting, of, kept, outcome, sessionVars>>
    BY <1>1, <1>15, <2>4 DEF Cancelled, RestOK, closeVars, sessionVars
  <2>5. CASE UNCHANGED <<taskVars, waiting, sessionVars>>
    BY <1>1, <1>15, <2>5 DEF Cancelled, RestOK, closeVars, sessionVars, taskVars
  <2>6. QED
    BY <1>15, <2>1, <2>2, <2>3, <2>4, <2>5 DEF Cancelled
<1>16. ASSUME NEW s \in Sessions, Enters(s) \/ CannotEnter(s) \/ Closes(s) \/ OwnerCancelled(s) PROVE RestOK'
  <2>1. PICK from, to \in {"open", "ended", "entering"} : OwnerGoes(s, from, to)
    BY <1>16 DEF Enters, CannotEnter, Closes, OwnerCancelled
  <2>2. QED
    BY <1>1, <2>1 DEF OwnerGoes, RestOK, closeVars, taskVars
<1>17. CASE Close \/ StopLoop \/ SubmitShutdown
  BY <1>1, <1>17 DEF Close, StopLoop, SubmitShutdown, RestOK, closeVars, taskVars, sessionVars
<1>18. CASE ShutdownDrops
  <2>1. CASE session = None /\ Ends(Shutdown, "ok") /\ UNCHANGED <<session, stop>>
    BY <1>1, <1>4, <1>18, <2>1, EndsType DEF ShutdownDrops, RestOK, closeVars
  <2>2. CASE session # None /\ Drops(Shutdown, "dropping") /\ UNCHANGED <<lock, waiting, outcome>>
    <3>1. session \in Sessions
      BY <1>1, <2>2 DEF RestOK
    <3>2. QED
      BY <1>1, <1>18, <2>2, <3>1, DropsType DEF ShutdownDrops, RestOK, closeVars
  <2>3. QED
    BY <1>18, <2>1, <2>2 DEF ShutdownDrops
<1>19. CASE ShutdownEnds
  <2>1. killed' \subseteq Sessions
    BY <1>1, <1>10, <1>19, ActiveSteps DEF ShutdownEnds, Holds
  <2>2. QED
    BY <1>1, <1>4, <1>19, <2>1, EndsType DEF ShutdownEnds, RestOK, closeVars
<1>20. CASE UNCHANGED syncVars
  BY <1>1, <1>20 DEF syncVars, RestOK, closeVars, taskVars, sessionVars
<1>21. QED
  BY <1>5, <1>6, <1>7, <1>8, <1>9, <1>11, <1>12, <1>14, <1>15, <1>16, <1>17, <1>18, <1>19, <1>20 DEF SyncStep

LEMMA NextKeepsTypes ==
  ASSUME IInv, [Next]_vars
  PROVE  TypeOK' /\ LockOK'
<1>1. SyncStep
  BY NextIsSyncStep
<1>2. RestOK' /\ lock' \in Seq(Tasks) /\ step' \in [Tasks -> Step] /\ LockOK'
  BY <1>1, SyncStepKeepsRest, SyncStepIsLockStep, LockStepKeepsLock DEF IInv
<1>3. SyncTypeOK'
  BY <1>2 DEF RestOK, SyncTypeOK
<1>4. /\ poll' \in {"probing", "consuming", "ended"} /\ stopping' \in BOOLEAN
      /\ stopper' \in {"none", "joining", "closing", "left"} /\ busOpen' \in BOOLEAN
  <2>1. TypeOK
    BY DEF IInv
  <2>2. CASE PollThread \/ OtherCall \/ Context \/ UNCHANGED vars
    BY <2>1, <2>2 DEF PollThread, Probes, Consumes, Handles, PollEnds, OtherCall, Context, vars, hostVars, TypeOK
  <2>3. CASE Stop \/ JoinTimesOut \/ Closing
    BY <2>1, <2>3 DEF Stop, JoinTimesOut, Closing, CloseBus, CloseContext, TypeOK
  <2>4. QED
    BY <2>2, <2>3 DEF Next
<1>5. QED
  BY <1>2, <1>3, <1>4 DEF TypeOK
-----------------------------------------------------------------------------
(* The holder and its session *)

LEMMA HolderMoves ==
  ASSUME TypeOK, LockOK, NEW t, AtHead(t), NEW s \in Step, Goes(t, s),
         s \in Active => of'[t] \in Sessions,
         s = "using" => of'[t] = session',
         s \in Active \ {"using"} => session' = None
  PROVE  HolderOK'
<1>1. t \in Tasks /\ step' = [step EXCEPT ![t] = s] /\ step \in [Tasks -> Step]
  BY DEF AtHead, Goes, TypeOK, SyncTypeOK
<1>2. \A u \in Tasks : u # t => step'[u] \notin Active
  BY <1>1, OthersWait DEF AtHead
<1>3. "using" \in Active
  BY ActiveSteps
<1>4. step'[t] = s
  BY <1>1
<1>5. QED
  BY <1>2, <1>3, <1>4 DEF HolderOK

LEMMA HolderStays ==
  ASSUME HolderOK, UNCHANGED <<of, session>>, \A u \in Tasks : step'[u] \in Active => step'[u] = step[u]
  PROVE  HolderOK'
<1>1. "using" \in Active
  BY ActiveSteps
<1>2. QED
  BY <1>1 DEF HolderOK

LEMMA HolderEnds ==
  ASSUME TypeOK, LockOK, NEW t, AtHead(t), NEW how, Ends(t, how)
  PROVE  HolderOK'
<1>1. Goes(t, "ended") /\ "ended" \in Step /\ "ended" \notin Active
  BY DEF Ends, Step, Active
<1>2. QED
  BY <1>1, HolderMoves

\* A task that drops the session holds it, or is the shutdown, and then there is none.
LEMMA HolderDrops ==
  ASSUME TypeOK, LockOK, NEW t, AtHead(t), session \in Sessions, NEW s \in {"dropping", "redropping"}, Drops(t, s)
  PROVE  HolderOK'
<1>1. Goes(t, s) /\ s \in Step /\ session' = None /\ s # "using"
  BY DEF Drops, Step
<1>2. of'[t] \in Sessions
  BY DEF Drops, TypeOK, SyncTypeOK, AtHead
<1>3. QED
  BY <1>1, <1>2, HolderMoves

LEMMA HolderOpens ==
  ASSUME TypeOK, LockOK, NEW t, AtHead(t), Opens(t), session' = None
  PROVE  HolderOK'
<1>1. Goes(t, "opening") /\ "opening" \in Step
  BY DEF Opens, Step
<1>2. of'[t] \in Sessions
  BY DEF Opens, TypeOK, SyncTypeOK, AtHead
<1>3. QED
  BY <1>1, <1>2, HolderMoves

LEMMA HolderInterrupted ==
  ASSUME TypeOK, LockOK, HolderOK, NEW c \in Calls, Interrupted(c)
  PROVE  HolderOK'
<1>1. c \in Tasks /\ step[c] \in Active
  BY ShutdownIsNoCall, ActiveSteps DEF Interrupted
<1>2. AtHead(c)
  BY <1>1, HolderIsHead DEF AtHead
<1>3. CASE step[c] = "opening" /\ Goes(c, "aborting") /\ UNCHANGED <<of, session>>
  <2>1. of[c] \in Sessions /\ session = None
    BY <1>1, <1>3 DEF HolderOK
  <2>2. "aborting" \in Step
    BY DEF Step
  <2>3. QED
    BY <1>2, <1>3, <2>1, <2>2, HolderMoves
<1>4. CASE step[c] = "using" /\ Drops(c, "dropping")
  <2>1. session \in Sessions
    BY <1>1, <1>4 DEF HolderOK
  <2>2. QED
    BY <1>2, <1>4, <2>1, HolderDrops
<1>5. CASE Ends(c, "failed")
  BY <1>2, <1>5, HolderEnds
<1>6. QED
  BY <1>3, <1>4, <1>5 DEF Interrupted

LEMMA SyncStepKeepsHolder ==
  ASSUME IInv, SyncStep
  PROVE  HolderOK'
<1> USE DEF IInv
<1>1. Calls \subseteq Tasks /\ Shutdown \in Tasks /\ None \notin Sessions /\ session \in Sessions \cup {None}
  BY ShutdownIsNoCall DEF TypeOK, SyncTypeOK
<1>2. step \in [Tasks -> Step] /\ {"queued", "ended"} \cap Active = {}
  BY DEF TypeOK, SyncTypeOK, Active
<1>3. ASSUME NEW t \in Tasks, Goes(t, "queued") \/ Goes(t, "ended"), UNCHANGED <<of, session>> PROVE HolderOK'
  <2>1. \A u \in Tasks : step'[u] \in Active => step'[u] = step[u]
    BY <1>2, <1>3 DEF Goes
  <2>2. QED
    BY <1>3, <2>1, HolderStays
<1>4. ASSUME UNCHANGED <<step, of, session>> PROVE HolderOK'
  BY <1>4, HolderStays
<1>5. ASSUME NEW c \in Calls, Submit(c) PROVE HolderOK'
  BY <1>1, <1>3, <1>5 DEF Submit, sessionVars, Goes
<1>6. ASSUME NEW c \in Calls, GiveUp(c) PROVE HolderOK'
  BY <1>4, <1>6 DEF GiveUp, sessionVars
<1>7. ASSUME NEW c \in Calls, Acquire(c) PROVE HolderOK'
  <2>1. AtHead(c)
    BY <1>1, <1>7, HoldsAtHead DEF Acquire
  <2>2. CASE session = None /\ Opens(c)
    BY <1>7, <2>1, <2>2, HolderOpens DEF Acquire
  <2>3. CASE session # None /\ of' = [of EXCEPT ![c] = session] /\ Goes(c, "using")
    <3>1. session \in Sessions /\ of'[c] = session /\ session' = session
      BY <1>1, <1>7, <2>3 DEF Acquire, TypeOK, SyncTypeOK
    <3>2. "using" \in Step
      BY DEF Step
    <3>3. QED
      BY <2>1, <2>3, <3>1, <3>2, HolderMoves
  <2>4. QED
    BY <1>7, <2>2, <2>3 DEF Acquire
<1>8. ASSUME NEW c \in Calls, Opened(c) PROVE HolderOK'
  <2>1. AtHead(c) /\ step[c] = "opening"
    BY <1>1, <1>8, HoldsAtHead DEF Opened
  <2>2. of[c] \in Sessions
    BY <1>1, <2>1, ActiveSteps DEF HolderOK
  <2>3. "using" \in Step /\ Goes(c, "using") /\ session' = of[c] /\ of' = of
    BY <1>8 DEF Step, Opened
  <2>4. QED
    BY <2>1, <2>2, <2>3, HolderMoves
<1>9. ASSUME NEW c \in Calls, OpenFails(c) \/ Answers(c) \/ DropEnds(c) \/ Aborted(c) PROVE HolderOK'
  <2>1. AtHead(c) /\ \E how \in Outcome : Ends(c, how)
    BY <1>1, <1>9, HoldsAtHead DEF OpenFails, Answers, DropEnds, Aborted, Outcome
  <2>2. QED
    BY <2>1, HolderEnds
<1>10. ASSUME NEW c \in Calls, Fails(c) PROVE HolderOK'
  <2>1. AtHead(c) /\ step[c] = "using"
    BY <1>1, <1>10, HoldsAtHead DEF Fails
  <2>2. session \in Sessions
    BY <1>1, <2>1, ActiveSteps DEF HolderOK
  <2>3. \E s \in {"dropping", "redropping"} : Drops(c, s)
    BY <1>10 DEF Fails
  <2>4. QED
    BY <2>1, <2>2, <2>3, HolderDrops
<1>11. ASSUME NEW c \in Calls, Redropped(c) PROVE HolderOK'
  <2>1. AtHead(c) /\ step[c] = "redropping"
    BY <1>1, <1>11, HoldsAtHead DEF Redropped
  <2>2. session = None
    BY <1>1, <2>1, ActiveSteps DEF HolderOK
  <2>3. QED
    BY <1>11, <2>1, <2>2, HolderOpens DEF Redropped
<1>12. ASSUME NEW c \in Calls, TimesOut(c) PROVE HolderOK'
  BY <1>4, <1>12, HolderInterrupted DEF TimesOut, taskVars
<1>13. ASSUME NEW c \in Calls, Cancelled(c) PROVE HolderOK'
  <2>1. CASE Interrupted(c)
    BY <2>1, HolderInterrupted
  <2>2. CASE UNCHANGED <<taskVars, session>>
    BY <1>4, <2>2 DEF taskVars
  <2>3. CASE step[c] = "dropping" /\ Ends(c, "failed")
    <3>1. AtHead(c)
      BY <1>1, <2>3, HolderIsHead, ActiveSteps DEF AtHead
    <3>2. QED
      BY <2>3, <3>1, HolderEnds
  <2>4. CASE Goes(c, "ended") /\ UNCHANGED <<of, session>>
    BY <1>1, <1>3, <2>4
  <2>5. QED
    BY <1>13, <2>1, <2>2, <2>3, <2>4 DEF Cancelled, sessionVars
<1>14. ASSUME NEW s \in Sessions, Enters(s) \/ CannotEnter(s) \/ Closes(s) \/ OwnerCancelled(s) PROVE HolderOK'
  BY <1>4, <1>14 DEF Enters, CannotEnter, Closes, OwnerCancelled, OwnerGoes, taskVars
<1>15. CASE Close \/ StopLoop
  BY <1>4, <1>15 DEF Close, StopLoop, taskVars, sessionVars
<1>16. CASE SubmitShutdown
  BY <1>1, <1>3, <1>16 DEF SubmitShutdown, sessionVars
<1>17. CASE ShutdownDrops
  <2>1. AtHead(Shutdown)
    BY <1>1, <1>17, HoldsAtHead DEF ShutdownDrops
  <2>2. CASE Ends(Shutdown, "ok")
    BY <2>1, <2>2, HolderEnds
  <2>3. CASE session # None /\ Drops(Shutdown, "dropping")
    BY <1>1, <2>1, <2>3, HolderDrops
  <2>4. QED
    BY <1>17, <2>2, <2>3 DEF ShutdownDrops
<1>18. CASE ShutdownEnds
  <2>1. AtHead(Shutdown) /\ Ends(Shutdown, "ok")
    BY <1>1, <1>18, HoldsAtHead DEF ShutdownEnds
  <2>2. QED
    BY <2>1, HolderEnds
<1>19. CASE UNCHANGED syncVars
  BY <1>4, <1>19 DEF syncVars, taskVars, sessionVars
<1>20. QED
  BY <1>5, <1>6, <1>7, <1>8, <1>9, <1>10, <1>11, <1>12, <1>13, <1>14, <1>15, <1>16, <1>17, <1>18, <1>19 DEF SyncStep

-----------------------------------------------------------------------------
(* close *)

\* The calls' tasks and the owners leave close and its task alone.
LEMMA CallsLeaveClose ==
  ASSUME TypeOK, NEW c \in Calls,
         \/ Submit(c) \/ GiveUp(c) \/ Acquire(c) \/ Opened(c) \/ OpenFails(c) \/ Answers(c)
         \/ Fails(c) \/ Redropped(c) \/ DropEnds(c) \/ Aborted(c) \/ TimesOut(c) \/ Cancelled(c)
  PROVE  UNCHANGED closeVars /\ step'[Shutdown] = step[Shutdown]
<1>1. c # Shutdown /\ Shutdown \in Tasks /\ step \in [Tasks -> Step]
  BY ShutdownIsNoCall DEF TypeOK, SyncTypeOK
<1>2. ASSUME NEW s, Goes(c, s) PROVE step'[Shutdown] = step[Shutdown]
  BY <1>1, <1>2 DEF Goes
<1>3. ASSUME NEW s, Drops(c, s) PROVE step'[Shutdown] = step[Shutdown]
  BY <1>2, <1>3 DEF Drops
<1>4. ASSUME NEW how, Ends(c, how) PROVE step'[Shutdown] = step[Shutdown]
  BY <1>2, <1>4 DEF Ends
<1>5. CASE Submit(c) \/ GiveUp(c) \/ Acquire(c) \/ Opened(c) \/ Redropped(c)
  BY <1>2, <1>5 DEF Submit, GiveUp, Acquire, Opened, Redropped, Opens, Goes
<1>6. CASE OpenFails(c) \/ Answers(c) \/ DropEnds(c) \/ Aborted(c)
  BY <1>4, <1>6 DEF OpenFails, Answers, DropEnds, Aborted
<1>7. CASE Fails(c)
  BY <1>3, <1>7 DEF Fails
<1>8. ASSUME Interrupted(c) PROVE step'[Shutdown] = step[Shutdown]
  BY <1>2, <1>3, <1>4, <1>8 DEF Interrupted
<1>9. CASE TimesOut(c)
  BY <1>8, <1>9 DEF TimesOut, taskVars
<1>10. CASE Cancelled(c)
  BY <1>2, <1>4, <1>8, <1>10 DEF Cancelled, taskVars
<1>11. QED
  BY <1>5, <1>6, <1>7, <1>9, <1>10

LEMMA SyncStepKeepsClose ==
  ASSUME IInv, SyncStep
  PROVE  CloseOK'
<1>1. TypeOK /\ CloseOK /\ Shutdown \in Tasks /\ step \in [Tasks -> Step]
  BY ShutdownIsNoCall DEF IInv, TypeOK, SyncTypeOK
<1>2. CASE UNCHANGED closeVars /\ step'[Shutdown] = step[Shutdown]
  BY <1>1, <1>2 DEF CloseOK, closeVars
<1>3. ASSUME NEW s \in Sessions, Enters(s) \/ CannotEnter(s) \/ Closes(s) \/ OwnerCancelled(s) PROVE CloseOK'
  BY <1>2, <1>3 DEF Enters, CannotEnter, Closes, OwnerCancelled, OwnerGoes, taskVars
<1>4. CASE Close \/ StopLoop
  BY <1>1, <1>4 DEF Close, StopLoop, taskVars, CloseOK
<1>5. CASE SubmitShutdown
  BY <1>1, <1>5 DEF SubmitShutdown, Goes, CloseOK
<1>6. CASE ShutdownDrops
  <2>1. step[Shutdown] = "queued" /\ UNCHANGED closeVars /\ (Goes(Shutdown, "ended") \/ Goes(Shutdown, "dropping"))
    BY <1>6 DEF ShutdownDrops, Ends, Drops, Holds
  <2>2. QED
    BY <1>1, <2>1 DEF Goes, CloseOK, closeVars
<1>7. CASE ShutdownEnds
  <2>1. step[Shutdown] = "dropping" /\ UNCHANGED closeVars /\ Goes(Shutdown, "ended")
    BY <1>7 DEF ShutdownEnds, Ends, Holds
  <2>2. QED
    BY <1>1, <2>1 DEF Goes, CloseOK, closeVars
<1>8. CASE UNCHANGED syncVars
  BY <1>2, <1>8 DEF syncVars, taskVars
<1>9. QED
  BY <1>1, <1>2, <1>3, <1>4, <1>5, <1>6, <1>7, <1>8, CallsLeaveClose DEF SyncStep
-----------------------------------------------------------------------------
(* No session is lost *)

Runs(s) == owner[s] \in {"entering", "open"} /\ s \notin stop
BeingOpened(s) == \E c \in Calls : step[c] = "opening" /\ of[c] = s

\* A step that opens no session, opens none of those that run and leaves _session to a session that runs.
LEMMA NoneLost ==
  ASSUME NoLostSession, running' => running,
         \A s \in Sessions : Runs(s)' => Runs(s),
         \A s \in Sessions : Runs(s)' /\ (s = session \/ BeingOpened(s)) => (s = session)' \/ BeingOpened(s)'
  PROVE  NoLostSession'
<1>1. SUFFICES ASSUME running', NEW s \in Sessions, Runs(s)'
               PROVE  (s = session)' \/ BeingOpened(s)'
  BY DEF NoLostSession, Runs, BeingOpened
<1>2. Runs(s)
  BY <1>1
<1>3. s = session \/ BeingOpened(s)
  BY <1>1, <1>2 DEF NoLostSession, Runs, BeingOpened
<1>4. QED
  BY <1>1, <1>3

\* Where the holder is not opening a session, none is being opened.
LEMMA OnlyHolderOpens ==
  ASSUME TypeOK, LockOK, NEW t, AtHead(t), step[t] # "opening"
  PROVE  \A s \in Sessions : ~BeingOpened(s)
<1>1. \A u \in Tasks : u # t => step[u] # "opening"
  BY OthersWait, ActiveSteps DEF AtHead
<1>2. QED
  BY <1>1, ShutdownIsNoCall DEF BeingOpened

LEMMA OpensLosesNone ==
  ASSUME TypeOK, LockOK, NoLostSession, NEW c \in Calls, AtHead(c), step[c] # "opening", session = None,
         Opens(c), UNCHANGED <<running, stop>>
  PROVE  NoLostSession'
<1>1. c \in Tasks /\ None \notin Sessions /\ step \in [Tasks -> Step] /\ of \in [Tasks -> Sessions \cup {None}]
      /\ owner \in [Sessions -> {"none", "entering", "open", "ended"}]
  BY ShutdownIsNoCall DEF TypeOK, SyncTypeOK
<1>2. PICK n \in Sessions : owner' = [owner EXCEPT ![n] = "entering"] /\ of' = [of EXCEPT ![c] = n] /\ Goes(c, "opening")
  BY DEF Opens
<1>3. BeingOpened(n)'
  BY <1>1, <1>2 DEF BeingOpened, Goes
<1>4. running => \A s \in Sessions : ~Runs(s)
  BY <1>1, OnlyHolderOpens DEF NoLostSession, Runs, BeingOpened
<1>5. ASSUME running', NEW s \in Sessions, Runs(s)' PROVE s = n
  BY <1>1, <1>2, <1>4, <1>5 DEF Runs
<1>6. QED
  BY <1>3, <1>5 DEF NoLostSession, Runs, BeingOpened

LEMMA DropsLosesNone ==
  ASSUME TypeOK, LockOK, NoLostSession, NEW t, AtHead(t), step[t] # "opening", NEW s, Drops(t, s),
         UNCHANGED <<running, owner>>
  PROVE  NoLostSession'
<1>1. \A r \in Sessions : Runs(r)' => Runs(r) /\ r # session
  BY DEF Runs, Drops
<1>2. \A r \in Sessions : ~BeingOpened(r)
  BY OnlyHolderOpens
<1>3. QED
  BY <1>1, <1>2, NoneLost

\* A task that ends was not opening a session that runs.
LEMMA EndsLosesNone ==
  ASSUME TypeOK, LockOK, NoLostSession, NEW t, AtHead(t), NEW how, Ends(t, how),
         UNCHANGED <<running, session, owner, stop>>,
         step[t] = "opening" => owner[of[t]] = "ended"
  PROVE  NoLostSession'
<1>1. \A r \in Sessions : Runs(r)' => Runs(r)
  BY DEF Runs
<1>2. \A r \in Sessions : Runs(r) => ~BeingOpened(r)
  <2>1. CASE step[t] # "opening"
    BY <2>1, OnlyHolderOpens
  <2>2. CASE step[t] = "opening"
    <3>1. \A u \in Calls : u # t => step[u] # "opening"
      BY OthersWait, ActiveSteps, ShutdownIsNoCall DEF AtHead
    <3>2. QED
      BY <2>2, <3>1 DEF BeingOpened, Runs
  <2>3. QED
    BY <2>1, <2>2
<1>3. QED
  BY <1>1, <1>2, NoneLost

LEMMA InterruptedLosesNone ==
  ASSUME TypeOK, LockOK, NoLostSession, NEW c \in Calls, Interrupted(c), UNCHANGED running
  PROVE  NoLostSession'
<1>1. c \in Tasks /\ step[c] \in Active /\ AtHead(c)
  BY ShutdownIsNoCall, ActiveSteps, HolderIsHead DEF Interrupted, AtHead
<1>2. CASE step[c] = "opening" /\ stop' = stop \cup {of[c]} /\ UNCHANGED <<session, owner>>
  <2>1. \A r \in Sessions : Runs(r)' => Runs(r) /\ r # of[c]
    BY <1>2 DEF Runs
  <2>2. \A u \in Calls : u # c => step[u] # "opening"
    BY <1>1, OthersWait, ActiveSteps, ShutdownIsNoCall DEF AtHead
  <2>3. \A r \in Sessions : r # of[c] => ~BeingOpened(r)
    BY <2>2 DEF BeingOpened
  <2>4. QED
    BY <1>2, <2>1, <2>3, NoneLost
<1>3. CASE step[c] = "using" /\ Drops(c, "dropping") /\ UNCHANGED owner
  BY <1>1, <1>3, DropsLosesNone
<1>4. CASE step[c] = "redropping" /\ Ends(c, "failed") /\ UNCHANGED sessionVars
  BY <1>1, <1>4, EndsLosesNone DEF sessionVars
<1>5. QED
  BY <1>2, <1>3, <1>4 DEF Interrupted

LEMMA SyncStepLosesNone ==
  ASSUME IInv, SyncStep
  PROVE  NoLostSession'
<1> USE DEF IInv
<1>1. Calls \subseteq Tasks /\ Shutdown \in Tasks /\ Shutdown \notin Calls /\ step \in [Tasks -> Step]
      /\ owner \in [Sessions -> {"none", "entering", "open", "ended"}]
  BY ShutdownIsNoCall DEF TypeOK, SyncTypeOK
\* Steps that leave the sessions alone, and move a task that opens none.
<1>2. ASSUME UNCHANGED <<running, session, owner, stop, of>>,
             \A c \in Calls : step[c] = "opening" => step'[c] = "opening"
      PROVE  NoLostSession'
  BY <1>2, NoneLost DEF Runs, BeingOpened
<1>3. ASSUME NEW c \in Calls, Submit(c) \/ GiveUp(c) PROVE NoLostSession'
  BY <1>1, <1>2, <1>3 DEF Submit, GiveUp, closeVars, sessionVars
<1>4. ASSUME NEW c \in Calls, Acquire(c) PROVE NoLostSession'
  <2>1. AtHead(c) /\ step[c] = "queued"
    BY <1>1, <1>4, HoldsAtHead DEF Acquire
  <2>2. CASE session = None /\ Opens(c)
    BY <1>4, <2>1, <2>2, OpensLosesNone DEF Acquire, closeVars
  <2>3. CASE UNCHANGED owner
    <3>1. \A s \in Sessions : ~BeingOpened(s)
      BY <2>1, OnlyHolderOpens
    <3>2. UNCHANGED <<running, session, owner, stop>>
      BY <1>4, <2>3 DEF Acquire, closeVars
    <3>3. QED
      BY <3>1, <3>2, NoneLost DEF Runs
  <2>4. QED
    BY <1>4, <2>2, <2>3 DEF Acquire
<1>5. ASSUME NEW c \in Calls, Opened(c) PROVE NoLostSession'
  <2>1. AtHead(c) /\ step[c] = "opening" /\ session = None
    BY <1>1, <1>5, HoldsAtHead, ActiveSteps DEF Opened, HolderOK
  <2>2. \A u \in Calls : u # c => step[u] # "opening"
    BY <1>1, <2>1, OthersWait, ActiveSteps DEF AtHead
  <2>3. UNCHANGED <<running, owner, stop>> /\ session' = of[c]
    BY <1>5 DEF Opened, closeVars
  <2>4. \A s \in Sessions : s = session \/ BeingOpened(s) => s = session'
    BY <2>1, <2>2, <2>3, ShutdownIsNoCall DEF BeingOpened
  <2>5. QED
    BY <2>3, <2>4, NoneLost DEF Runs
<1>6. ASSUME NEW c \in Calls, OpenFails(c) \/ Answers(c) \/ DropEnds(c) \/ Aborted(c) PROVE NoLostSession'
  <2>1. AtHead(c) /\ (step[c] = "opening" => owner[of[c]] = "ended")
    BY <1>1, <1>6, HoldsAtHead DEF OpenFails, Answers, DropEnds, Aborted
  <2>2. \E how \in Outcome : Ends(c, how)
    BY <1>6 DEF OpenFails, Answers, DropEnds, Aborted, Outcome
  <2>3. UNCHANGED <<running, session, owner, stop>>
    BY <1>6 DEF OpenFails, Answers, DropEnds, Aborted, sessionVars, closeVars
  <2>4. QED
    BY <2>1, <2>2, <2>3, EndsLosesNone
<1>7. ASSUME NEW c \in Calls, Fails(c) PROVE NoLostSession'
  <2>1. AtHead(c) /\ step[c] = "using"
    BY <1>1, <1>7, HoldsAtHead DEF Fails
  <2>2. UNCHANGED <<running, owner>> /\ \E s \in Step : Drops(c, s)
    BY <1>7 DEF Fails, closeVars, Step
  <2>3. QED
    BY <2>1, <2>2, DropsLosesNone
<1>8. ASSUME NEW c \in Calls, Redropped(c) PROVE NoLostSession'
  <2>1. AtHead(c) /\ step[c] = "redropping" /\ session = None
    BY <1>1, <1>8, HoldsAtHead, ActiveSteps DEF Redropped, HolderOK
  <2>2. QED
    BY <1>8, <2>1, OpensLosesNone DEF Redropped, closeVars
<1>9. ASSUME NEW c \in Calls, TimesOut(c) PROVE NoLostSession'
  <2>1. CASE Interrupted(c)
    BY <1>9, <2>1, InterruptedLosesNone DEF TimesOut, closeVars
  <2>2. CASE UNCHANGED <<taskVars, waiting, session, owner, stop>>
    BY <1>2, <1>9, <2>2 DEF TimesOut, taskVars, closeVars
  <2>3. QED
    BY <1>9, <2>1, <2>2 DEF TimesOut
<1>10. ASSUME NEW c \in Calls, Cancelled(c) PROVE NoLostSession'
  <2>1. UNCHANGED running
    BY <1>10 DEF Cancelled, closeVars
  <2>2. CASE Interrupted(c)
    BY <2>1, <2>2, InterruptedLosesNone
  <2>3. CASE UNCHANGED <<taskVars, waiting, session, owner, stop>>
    BY <1>2, <2>1, <2>3 DEF taskVars
  <2>4. CASE step[c] = "dropping" /\ Ends(c, "failed") /\ UNCHANGED sessionVars
    <3>1. AtHead(c)
      BY <1>1, <2>4, HolderIsHead, ActiveSteps DEF AtHead
    <3>2. QED
      BY <2>1, <2>4, <3>1, EndsLosesNone DEF sessionVars
  <2>5. CASE step[c] = "queued" /\ Goes(c, "ended") /\ UNCHANGED <<of, sessionVars>>
    BY <1>1, <1>2, <2>1, <2>5 DEF Goes, sessionVars
  <2>6. CASE UNCHANGED <<taskVars, waiting, sessionVars>>
    BY <1>2, <2>1, <2>6 DEF taskVars, sessionVars
  <2>7. QED
    BY <1>10, <2>2, <2>3, <2>4, <2>5, <2>6 DEF Cancelled
<1>11. ASSUME NEW s \in Sessions, Enters(s) \/ CannotEnter(s) \/ Closes(s) \/ OwnerCancelled(s) PROVE NoLostSession'
  <2>1. PICK from \in {"entering", "open"}, to \in {"open", "ended"} : OwnerGoes(s, from, to)
    BY <1>11 DEF Enters, CannotEnter, Closes, OwnerCancelled
  <2>2. \A r \in Sessions : Runs(r)' => Runs(r)
    BY <1>1, <2>1 DEF OwnerGoes, Runs
  <2>3. UNCHANGED <<running, session, step, of>>
    BY <2>1 DEF OwnerGoes, closeVars, taskVars
  <2>4. QED
    BY <2>2, <2>3, NoneLost DEF BeingOpened
<1>12. CASE Close
  BY <1>2, <1>12 DEF Close, taskVars, sessionVars
<1>13. CASE StopLoop
  BY <1>13 DEF StopLoop, NoLostSession
<1>14. CASE SubmitShutdown
  BY <1>1, <1>2, <1>14 DEF SubmitShutdown, sessionVars, Goes
<1>15. CASE ShutdownDrops
  <2>1. AtHead(Shutdown) /\ step[Shutdown] = "queued" /\ UNCHANGED <<running, owner>>
    BY <1>1, <1>15, HoldsAtHead DEF ShutdownDrops, closeVars
  <2>2. CASE Ends(Shutdown, "ok") /\ UNCHANGED <<session, stop>>
    BY <2>1, <2>2, EndsLosesNone
  <2>3. CASE Drops(Shutdown, "dropping")
    BY <2>1, <2>3, DropsLosesNone
  <2>4. QED
    BY <1>15, <2>2, <2>3 DEF ShutdownDrops
<1>16. CASE ShutdownEnds
  <2>1. AtHead(Shutdown) /\ step[Shutdown] = "dropping" /\ UNCHANGED <<running, session, owner, stop>>
    BY <1>1, <1>16, HoldsAtHead DEF ShutdownEnds, closeVars
  <2>2. Ends(Shutdown, "ok")
    BY <1>16 DEF ShutdownEnds
  <2>3. QED
    BY <2>1, <2>2, EndsLosesNone
<1>17. CASE UNCHANGED syncVars
  BY <1>2, <1>17 DEF syncVars, closeVars, taskVars, sessionVars
<1>18. QED
  BY <1>3, <1>4, <1>5, <1>6, <1>7, <1>8, <1>9, <1>10, <1>11, <1>12, <1>13, <1>14, <1>15, <1>16, <1>17 DEF SyncStep
-----------------------------------------------------------------------------
(* Nothing runs behind the shutdown *)

ShutdownAtEnd == \A i \in DOMAIN lock : lock[i] = Shutdown => i = Len(lock)
LeftNothing == step[Shutdown] = "ended" => session = None /\ lock = <<>>

\* Only the shutdown joins the lock once it is in it.
LEMMA SyncStepKeepsLast ==
  ASSUME IInv, SyncStep
  PROVE  ShutdownAtEnd'
<1> USE DEF IInv
<1>1. /\ lock \in Seq(Tasks) /\ DOMAIN lock = 1 .. Len(lock) /\ Len(lock) \in Nat
      /\ Distinct(lock) /\ ShutdownAtEnd /\ Shutdown \in Tasks /\ Shutdown \notin Calls /\ Calls \subseteq Tasks
  BY LenProperties, ShutdownIsNoCall DEF TypeOK, SyncTypeOK, LockOK, ShutdownIsLast, ShutdownAtEnd
<1>2. ASSUME NEW t \in Tasks, Joins(t) PROVE ShutdownAtEnd'
  <2>1. ~Within(lock, t)
    BY <1>2 DEF Joins, LockOK
  <2>2. /\ lock' \in Seq(Tasks) /\ Len(lock') = Len(lock) + 1 /\ lock'[Len(lock) + 1] = t
        /\ \A i \in DOMAIN lock : lock'[i] = lock[i]
    BY <1>1, <1>2, <2>1, AppendDistinct DEF Joins
  <2>3. DOMAIN lock' = 1 .. Len(lock) + 1
    BY <2>2, LenProperties
  \* Once close has set _closed, no call is accepted.
  <2>4. ~Within(lock, Shutdown)
    <3>1. CASE ~closed
      BY <1>1, <3>1 DEF CloseOK, LockOK
    <3>2. QED
      BY <1>2, <2>1, <3>1 DEF Joins
  <2>5. ASSUME NEW i \in DOMAIN lock', lock'[i] = Shutdown PROVE i = Len(lock')
    <3>1. i \notin DOMAIN lock
      BY <2>2, <2>4, <2>5 DEF Within
    <3>2. QED
      BY <1>1, <2>2, <2>3, <3>1
  <2>6. QED
    BY <2>5 DEF ShutdownAtEnd
<1>3. ASSUME NEW t \in Tasks, Leaves(t) PROVE ShutdownAtEnd'
  <2>1. /\ lock' \in Seq(Tasks) /\ Len(lock') = Len(lock) - 1
        /\ \A i \in DOMAIN lock' : i + 1 \in DOMAIN lock /\ lock'[i] = lock[i + 1]
    BY <1>1, <1>3, TailDistinct DEF Leaves, AtHead
  <2>2. ASSUME NEW i \in DOMAIN lock', lock'[i] = Shutdown PROVE i = Len(lock')
    <3>1. i \in Nat
      BY <2>1, LenProperties
    <3>2. i + 1 = Len(lock)
      BY <1>1, <2>1, <2>2 DEF ShutdownAtEnd
    <3>3. QED
      BY <1>1, <2>1, <3>1, <3>2
  <2>3. QED
    BY <2>2 DEF ShutdownAtEnd
<1>4. ASSUME NEW t \in Tasks, LeavesQueue(t) PROVE ShutdownAtEnd'
  <2>1. PICK k \in DOMAIN lock : lock' = RemoveAt(lock, k)
    BY <1>4 DEF LeavesQueue
  <2> DEFINE r == RemoveAt(lock, k)
  <2>2. /\ Len(r) = Len(lock) - 1
        /\ \A i \in DOMAIN r :
             \E j \in DOMAIN lock : j >= i /\ r[i] = lock[j] /\ (j = Len(lock) => i = Len(lock) - 1)
    BY <1>1, RemoveAtDistinct
  <2>3. lock' = r
    BY <2>1
  <2> HIDE DEF r
  <2>4. QED
    BY <1>1, <2>2, <2>3 DEF ShutdownAtEnd
<1>5. CASE lock' = lock
  BY <1>1, <1>5 DEF ShutdownAtEnd
<1>6. LockStep
  BY SyncStepIsLockStep
<1>7. QED
  BY <1>2, <1>3, <1>4, <1>5, <1>6 DEF LockStep, Moves

LEMMA SyncStepLeavesNothing ==
  ASSUME IInv, SyncStep
  PROVE  LeftNothing'
<1> USE DEF IInv
<1>1. /\ lock \in Seq(Tasks) /\ DOMAIN lock = 1 .. Len(lock) /\ Len(lock) \in Nat /\ step \in [Tasks -> Step]
      /\ ShutdownAtEnd /\ LeftNothing /\ CloseOK /\ Shutdown \in Tasks /\ Shutdown \notin Calls /\ Calls \subseteq Tasks
  BY LenProperties, ShutdownIsNoCall DEF TypeOK, SyncTypeOK, ShutdownIsLast, ShutdownAtEnd, LeftNothing
\* The shutdown holds the lock as the last: it leaves it to nobody.
<1>2. ASSUME AtHead(Shutdown), Ends(Shutdown, "ok") PROVE lock' = <<>>
  <2>1. lock # <<>> /\ lock[1] = Shutdown /\ lock' = Tail(lock)
    BY <1>1, <1>2 DEF AtHead, Ends
  <2>2. Len(lock) = 1
    BY <1>1, <2>1, EmptySeq DEF ShutdownAtEnd
  <2>3. Tail(lock) \in Seq(Tasks) /\ Len(Tail(lock)) = 0
    BY <1>1, <2>1, <2>2, HeadTailProperties
  <2>4. QED
    BY <2>1, <2>3, EmptySeq
<1>3. CASE ShutdownDrops
  <2>1. AtHead(Shutdown)
    BY <1>1, <1>3, HoldsAtHead DEF ShutdownDrops
  <2>2. CASE session = None /\ Ends(Shutdown, "ok") /\ UNCHANGED session
    BY <1>2, <2>1, <2>2 DEF LeftNothing
  <2>3. CASE Goes(Shutdown, "dropping")
    BY <1>1, <2>3 DEF LeftNothing, Goes
  <2>4. QED
    BY <1>3, <2>2, <2>3 DEF ShutdownDrops, Drops
<1>4. CASE ShutdownEnds
  <2>1. AtHead(Shutdown) /\ step[Shutdown] = "dropping" /\ Ends(Shutdown, "ok") /\ UNCHANGED session
    BY <1>1, <1>4, HoldsAtHead DEF ShutdownEnds
  <2>2. session = None
    BY <1>1, <2>1, ActiveSteps DEF HolderOK
  <2>3. QED
    BY <1>2, <2>1, <2>2 DEF LeftNothing
<1>5. CASE SubmitShutdown
  BY <1>1, <1>5 DEF SubmitShutdown, Goes, LeftNothing
<1>6. CASE UNCHANGED <<session, lock, step>>
  BY <1>1, <1>6 DEF LeftNothing
<1>7. ASSUME NEW s \in Sessions, Enters(s) \/ CannotEnter(s) \/ Closes(s) \/ OwnerCancelled(s) PROVE LeftNothing'
  BY <1>6, <1>7 DEF Enters, CannotEnter, Closes, OwnerCancelled, OwnerGoes, taskVars
<1>8. CASE Close \/ StopLoop \/ UNCHANGED syncVars
  BY <1>6, <1>8 DEF Close, StopLoop, syncVars, taskVars, sessionVars
\* After the shutdown's end no task is under way, and no call is accepted.
<1>9. ASSUME NEW c \in Calls,
             \/ Submit(c) \/ GiveUp(c) \/ Acquire(c) \/ Opened(c) \/ OpenFails(c) \/ Answers(c)
             \/ Fails(c) \/ Redropped(c) \/ DropEnds(c) \/ Aborted(c) \/ TimesOut(c) \/ Cancelled(c)
      PROVE  LeftNothing'
  <2>1. step'[Shutdown] = step[Shutdown]
    BY <1>9, CallsLeaveClose
  <2>2. SUFFICES ASSUME step[Shutdown] = "ended" PROVE UNCHANGED <<session, lock, step>>
    BY <1>6, <2>1 DEF LeftNothing
  <2>3. lock = <<>> /\ session = None /\ closed
    BY <1>1, <2>2 DEF LeftNothing, CloseOK
  <2>4. \A i \in DOMAIN lock : FALSE
    BY <1>1, <2>3, EmptySeq
  <2>5. step[c] \in {"new", "ended"}
    BY <1>1, <2>4 DEF LockOK, Within
  <2>6. ~Interrupted(c)
    BY <2>5 DEF Interrupted
  <2>7. CASE GiveUp(c)
    BY <2>7 DEF GiveUp, sessionVars
  <2>8. CASE TimesOut(c) \/ Cancelled(c)
    BY <2>5, <2>6, <2>8 DEF TimesOut, Cancelled, taskVars, sessionVars
  <2>9. QED
    BY <1>9, <2>3, <2>7, <2>8
       DEF Submit, Acquire, Opened, OpenFails, Answers, Fails, Redropped, DropEnds, Aborted, Holds
<1>10. QED
  BY <1>3, <1>4, <1>5, <1>7, <1>8, <1>9 DEF SyncStep

-----------------------------------------------------------------------------
(* Theorems *)

LEMMA InitIInv ==
  ASSUME Init
  PROVE  IInv
<1> USE DEF Init, SyncInit
<1>1. TypeOK
  BY EmptySeq DEF TypeOK, SyncTypeOK, Step, Outcome
<1>2. DOMAIN lock = {}
  OBVIOUS
<1>3. LockOK
  BY <1>2 DEF LockOK, Distinct, Within
<1>4. \A t \in Tasks : step[t] \notin Active /\ step[t] = "new"
  BY DEF Active
<1>5. HolderOK
  BY <1>4 DEF HolderOK
<1>6. CloseOK
  BY <1>4, ShutdownIsNoCall DEF CloseOK
<1>7. NoLostSession
  BY DEF NoLostSession
<1>8. ShutdownIsLast
  BY <1>2, <1>4, ShutdownIsNoCall DEF ShutdownIsLast
<1>9. QED
  BY <1>1, <1>3, <1>5, <1>6, <1>7, <1>8 DEF IInv

LEMMA NextKeepsIInv ==
  ASSUME IInv, [Next]_vars
  PROVE  IInv'
<1>1. SyncStep
  BY NextIsSyncStep
<1>2. TypeOK' /\ LockOK' /\ HolderOK' /\ CloseOK' /\ NoLostSession'
  BY <1>1, NextKeepsTypes, SyncStepKeepsHolder, SyncStepKeepsClose, SyncStepLosesNone
<1>3. ShutdownIsLast'
  BY <1>1, SyncStepKeepsLast, SyncStepLeavesNothing DEF ShutdownIsLast, ShutdownAtEnd, LeftNothing
<1>4. QED
  BY <1>2, <1>3 DEF IInv

LEMMA Invariance == Spec => []IInv
<1>1. Init => IInv
  BY InitIInv
<1>2. IInv /\ [Next]_vars => IInv'
  BY NextKeepsIInv
<1>3. QED
  BY <1>1, <1>2, PTL DEF Spec

\* The variables have their types, whatever the calls, threads and sessions.
THEOREM TypeSafety == Spec => []TypeOK
<1>1. IInv => TypeOK
  BY DEF IInv
<1>2. QED
  BY <1>1, Invariance, PTL

\* context.py's _open, _drop and _with_session: a session that runs and was not told to stop
\* is the kept one or is being opened.
THEOREM NoLostSessionSafety == Spec => []NoLostSession
<1>1. IInv => NoLostSession
  BY DEF IInv
<1>2. QED
  BY <1>1, Invariance, PTL

\* context.py's _call and close: nothing is queued behind the shutdown, and it leaves no session.
THEOREM ShutdownSafety == Spec => []ShutdownIsLast
<1>1. IInv => ShutdownIsLast
  BY DEF IInv
<1>2. QED
  BY <1>1, Invariance, PTL
=============================================================================
