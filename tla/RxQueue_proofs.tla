--------------------------- MODULE RxQueue_proofs ---------------------------
(* What the queue of RxQueue keeps, for every value of its constants: lemmas *)
(* for the two pumps built on it.                                            *)
EXTENDS RxQueue, TLAPS

LEMMA HeadTail ==
  ASSUME NEW S, NEW s \in Seq(S), s # <<>>
  PROVE  /\ Head(s) \in S /\ Tail(s) \in Seq(S) /\ Len(s) \in Nat /\ Len(s) >= 1
         /\ Head(s) = s[1] /\ Len(Tail(s)) = Len(s) - 1
         /\ \A i \in 1 .. Len(s) - 1 : Tail(s)[i] = s[i + 1]
OBVIOUS

LEMMA Extended ==
  ASSUME NEW S, NEW s \in Seq(S), NEW x \in S
  PROVE  /\ Append(s, x) \in Seq(S) /\ Len(Append(s, x)) = Len(s) + 1
         /\ Len(s) \in Nat /\ DOMAIN s = 1 .. Len(s)
         /\ \A i \in 1 .. Len(s) : Append(s, x)[i] = s[i]
         /\ Append(s, x)[Len(s) + 1] = x
OBVIOUS

LEMMA Concatenated ==
  ASSUME NEW S, NEW s \in Seq(S), NEW t \in Seq(S)
  PROVE  /\ s \o t \in Seq(S) /\ Len(s \o t) = Len(s) + Len(t)
         /\ Len(s) \in Nat /\ Len(t) \in Nat
         /\ \A i \in 1 .. Len(s) : (s \o t)[i] = s[i]
         /\ \A i \in 1 .. Len(t) : (s \o t)[Len(s) + i] = t[i]
OBVIOUS

\* A sequence without its element i has every other one.
LEMMA Removed ==
  ASSUME NEW S, NEW s \in Seq(S), NEW i \in DOMAIN s
  PROVE  /\ RemoveAt(s, i) \in Seq(S)
         /\ \A j \in DOMAIN s : j # i
              => \E k \in DOMAIN RemoveAt(s, i) : RemoveAt(s, i)[k] = s[j]
  <1> DEFINE a == SubSeq(s, 1, i - 1)  b == SubSeq(s, i + 1, Len(s))
  <1>1. Len(s) \in Nat /\ DOMAIN s = 1 .. Len(s) /\ i \in 1 .. Len(s)
    OBVIOUS
  <1>2. /\ a \in Seq(S) /\ Len(a) = i - 1
        /\ \A k \in 1 .. i - 1 : a[k] = s[k]
    BY <1>1
  <1>3. /\ b \in Seq(S) /\ Len(b) = Len(s) - i
        /\ \A k \in 1 .. Len(s) - i : b[k] = s[i + k]
    BY <1>1
  <1> HIDE DEF a, b
  <1>4. /\ a \o b \in Seq(S) /\ DOMAIN (a \o b) = 1 .. Len(s) - 1
        /\ \A k \in 1 .. Len(a) : (a \o b)[k] = a[k]
        /\ \A k \in 1 .. Len(b) : (a \o b)[Len(a) + k] = b[k]
    <2>1. /\ a \o b \in Seq(S) /\ Len(a \o b) = Len(a) + Len(b)
          /\ \A k \in 1 .. Len(a) : (a \o b)[k] = a[k]
          /\ \A k \in 1 .. Len(b) : (a \o b)[Len(a) + k] = b[k]
      <3>1. a \in Seq(S) /\ b \in Seq(S)
        BY <1>2, <1>3
      <3> QED
        BY ONLY <3>1, Concatenated
    <2>2. Len(a) + Len(b) = Len(s) - 1
      BY <1>1, <1>2, <1>3
    <2> QED
      BY <2>1, <2>2
  <1>6. ASSUME NEW j \in DOMAIN s, j # i
        PROVE  \E k \in DOMAIN (a \o b) : (a \o b)[k] = s[j]
    <2>1. CASE j < i
      <3>1. j \in 1 .. Len(a) /\ a[j] = s[j] /\ j \in 1 .. Len(s) - 1
        BY <1>1, <1>2, <2>1
      <3> QED
        BY <3>1, <1>4
    <2>2. CASE j > i
      <3>0. j \in Nat /\ i \in Nat /\ Len(a) = i - 1 /\ Len(b) = Len(s) - i /\ j <= Len(s)
        BY <1>1, <1>2, <1>3
      <3>1. j - i \in 1 .. Len(b) /\ i + (j - i) = j /\ j - 1 \in 1 .. Len(s) - 1
            /\ Len(a) + (j - i) = j - 1
        BY <1>1, <3>0, <2>2
      <3>2. b[j - i] = s[j]
        BY <1>3, <3>1
      <3>3. (a \o b)[j - 1] = s[j]
        BY <1>4, <3>1, <3>2
      <3> QED
        BY <1>4, <3>1, <3>3
    <2> QED
      BY <1>1, <1>6, <2>1, <2>2
  <1> QED
    BY <1>4, <1>6 DEF RemoveAt, a, b
----------------------------------------------------------------------------
(* What a sequence without repetitions holds.                               *)

LEMMA RangeOfTail ==
  ASSUME NEW S, NEW s \in Seq(S), s # <<>>
  PROVE  /\ Head(s) \in Range(s) /\ Range(Tail(s)) \subseteq Range(s)
         /\ Range(s) \subseteq Range(Tail(s)) \cup {Head(s)}
         /\ IsInjective(s) => /\ IsInjective(Tail(s))
                              /\ Range(Tail(s)) = Range(s) \ {Head(s)}
  <1>1. /\ Len(s) \in Nat /\ Len(s) >= 1 /\ DOMAIN s = 1 .. Len(s) /\ Head(s) = s[1]
        /\ DOMAIN Tail(s) = 1 .. Len(s) - 1
        /\ \A i \in 1 .. Len(s) - 1 : Tail(s)[i] = s[i + 1]
    BY HeadTail
  <1>2. Head(s) \in Range(s)
    BY <1>1 DEF Range
  <1>3. ASSUME NEW x \in Range(Tail(s))
        PROVE  \E j \in 2 .. Len(s) : x = s[j]
    <2>1. PICK i \in 1 .. Len(s) - 1 : x = Tail(s)[i]
      BY <1>1, <1>3 DEF Range
    <2>2. i + 1 \in 2 .. Len(s) /\ x = s[i + 1]
      BY <1>1, <2>1
    <2> QED
      BY <2>2
  <1>4. ASSUME NEW x \in Range(s)
        PROVE  x \in Range(Tail(s)) \/ x = Head(s)
    <2>1. PICK j \in 1 .. Len(s) : x = s[j]
      BY <1>1, <1>4 DEF Range
    <2>2. CASE j = 1
      BY <1>1, <2>1, <2>2
    <2>3. CASE j # 1
      <3>1. j - 1 \in 1 .. Len(s) - 1 /\ (j - 1) + 1 = j
        BY <1>1, <2>3
      <3>2. Tail(s)[j - 1] = x
        BY <1>1, <2>1, <3>1
      <3> QED
        BY <1>1, <3>1, <3>2 DEF Range
    <2> QED
      BY <2>2, <2>3
  <1>5. Range(Tail(s)) \subseteq Range(s)
    BY <1>1, <1>3 DEF Range
  <1>6. ASSUME IsInjective(s)
        PROVE  IsInjective(Tail(s)) /\ Head(s) \notin Range(Tail(s))
    <2>1. \A i, j \in 1 .. Len(s) : s[i] = s[j] => i = j
      BY <1>1, <1>6 DEF IsInjective
    <2>2. ASSUME NEW i \in 1 .. Len(s) - 1, NEW j \in 1 .. Len(s) - 1,
                 Tail(s)[i] = Tail(s)[j]
          PROVE  i = j
      <3>1. s[i + 1] = s[j + 1] /\ i + 1 \in 1 .. Len(s) /\ j + 1 \in 1 .. Len(s)
        BY <1>1, <2>2
      <3> QED
        BY <2>1, <3>1
    <2>3. IsInjective(Tail(s))
      BY <1>1, <2>2 DEF IsInjective
    <2>4. Head(s) \notin Range(Tail(s))
      <3>1. \A j \in 2 .. Len(s) : j \in 1 .. Len(s) /\ 1 \in 1 .. Len(s) /\ j # 1
        BY <1>1
      <3> QED
        BY <1>1, <1>3, <2>1, <3>1
    <2> QED
      BY <2>3, <2>4
  <1> QED
    BY <1>2, <1>4, <1>5, <1>6

LEMMA RangeOfConcatenation ==
  ASSUME NEW S, NEW s \in Seq(S), NEW t \in Seq(S)
  PROVE  /\ Range(s \o t) = Range(s) \cup Range(t)
         /\ IsInjective(s) /\ IsInjective(t) /\ Range(s) \cap Range(t) = {}
              => IsInjective(s \o t)
  <1> DEFINE u == s \o t
  <1>1. /\ Len(s) \in Nat /\ Len(t) \in Nat /\ DOMAIN s = 1 .. Len(s) /\ DOMAIN t = 1 .. Len(t)
        /\ DOMAIN u = 1 .. Len(s) + Len(t)
        /\ \A i \in 1 .. Len(s) : u[i] = s[i]
        /\ \A i \in 1 .. Len(t) : u[Len(s) + i] = t[i]
    BY Concatenated
  <1> HIDE DEF u
  <1>2. ASSUME NEW i \in 1 .. Len(s) + Len(t)
        PROVE  \/ i \in 1 .. Len(s) /\ u[i] = s[i] /\ u[i] \in Range(s)
               \/ \E j \in 1 .. Len(t) : i = Len(s) + j /\ u[i] = t[j] /\ u[i] \in Range(t)
    <2>1. CASE i <= Len(s)
      BY <1>1, <2>1 DEF Range
    <2>2. CASE i > Len(s)
      <3>1. i - Len(s) \in 1 .. Len(t) /\ i = Len(s) + (i - Len(s))
        BY <1>1, <2>2
      <3>2. u[i] = t[i - Len(s)]
        BY <1>1, <3>1
      <3>3. t[i - Len(s)] \in Range(t)
        BY <1>1, <3>1 DEF Range
      <3> QED
        BY <3>1, <3>2, <3>3
    <2> QED
      BY <1>1, <2>1, <2>2
  <1>3. Range(u) = Range(s) \cup Range(t)
    <2>1. Range(u) \subseteq Range(s) \cup Range(t)
      BY <1>1, <1>2 DEF Range
    <2>2. Range(s) \subseteq Range(u)
      BY <1>1 DEF Range
    <2>3. Range(t) \subseteq Range(u)
      <3>1. \A j \in 1 .. Len(t) : Len(s) + j \in 1 .. Len(s) + Len(t)
        BY <1>1
      <3> QED
        BY <1>1, <3>1 DEF Range
    <2> QED
      BY <2>1, <2>2, <2>3
  <1>4. ASSUME IsInjective(s), IsInjective(t), Range(s) \cap Range(t) = {}
        PROVE  IsInjective(u)
    <2>1. ASSUME NEW i \in 1 .. Len(s) + Len(t), NEW j \in 1 .. Len(s) + Len(t), u[i] = u[j]
          PROVE  i = j
      <3>1. CASE i \in 1 .. Len(s) /\ u[i] = s[i] /\ u[i] \in Range(s)
        <4>1. u[j] \notin Range(t)
          BY <1>4, <2>1, <3>1
        <4>2. j \in 1 .. Len(s) /\ u[j] = s[j]
          BY <1>2, <4>1
        <4> QED
          BY <1>1, <1>4, <2>1, <3>1, <4>2 DEF IsInjective
      <3>2. CASE \E k \in 1 .. Len(t) : i = Len(s) + k /\ u[i] = t[k] /\ u[i] \in Range(t)
        <4>1. PICK k \in 1 .. Len(t) : i = Len(s) + k /\ u[i] = t[k] /\ u[i] \in Range(t)
          BY <3>2
        <4>2. u[j] \notin Range(s)
          BY <1>4, <2>1, <4>1
        <4>3. PICK l \in 1 .. Len(t) : j = Len(s) + l /\ u[j] = t[l]
          BY <1>2, <4>2
        <4>4. k = l
          BY <1>1, <1>4, <2>1, <4>1, <4>3 DEF IsInjective
        <4> QED
          BY <4>1, <4>3, <4>4
      <3> QED
        BY <1>2, <3>1, <3>2
    <2> QED
      BY <1>1, <2>1 DEF IsInjective
  <1> QED
    BY <1>3, <1>4 DEF u

LEMMA BatchTypes ==
  ASSUME QueueTypeOK, NEW b \in Batches
  PROVE  b \in Seq(Frames) /\ Range(b) \subseteq air /\ IsInjective(b)
  <1>1. PICK n \in 0 .. MaxAgg : b \in [1 .. n -> air]
    BY DEF Batches
  <1>2. n \in Nat /\ air \subseteq Frames
    BY <1>1, MaxAggAssumption DEF QueueTypeOK
  <1>3. b \in Seq(Frames)
    BY <1>1, <1>2
  <1>4. Range(b) \subseteq air
    BY <1>1 DEF Range
  <1> QED
    BY <1>3, <1>4 DEF Batches
----------------------------------------------------------------------------
(* The queue's types.                                                       *)

LEMMA NotifyOneTypes ==
  ASSUME QueueTypeOK, NotifyOne, UNCHANGED <<owner, pumped, air, pending, got>>
  PROVE  QueueTypeOK'
  <1>1. CASE waiters = <<>>
    BY <1>1 DEF QueueTypeOK, NotifyOne
  <1>2. CASE waiters # <<>>
    <2>1. Head(waiters) \in Consumers /\ Tail(waiters) \in Seq(Consumers)
      BY <1>2, HeadTail DEF QueueTypeOK
    <2> QED
      BY <1>2, <2>1 DEF QueueTypeOK, NotifyOne
  <1> QED
    BY <1>1, <1>2

LEMMA LeaveTypes ==
  ASSUME QueueTypeOK, NEW c \in Consumers, NEW to \in {"poll", "gone"}, Leave(c, to)
  PROVE  QueueTypeOK'
  <1>1. CASE cons[c] = "asleep"
    <2>1. PICK i \in DOMAIN waiters : waiters' = RemoveAt(waiters, i)
      BY <1>1 DEF Leave
    <2>2. waiters' \in Seq(Consumers)
      BY <2>1, Removed DEF QueueTypeOK
    <2> QED
      BY <1>1, <2>2 DEF QueueTypeOK, Leave
  <1>2. CASE cons[c] = "notified" /\ waiters = <<>>
    BY <1>2 DEF QueueTypeOK, Leave
  <1>3. CASE cons[c] = "notified" /\ waiters # <<>>
    <2>1. Head(waiters) \in Consumers /\ Tail(waiters) \in Seq(Consumers)
      BY <1>3, HeadTail DEF QueueTypeOK
    <2> QED
      BY <1>3, <2>1 DEF QueueTypeOK, Leave
  <1> QED
    BY <1>1, <1>2, <1>3 DEF Leave

LEMMA QueueStepTypes ==
  ASSUME QueueTypeOK, QueueStep
  PROVE  QueueTypeOK'
  <1> PICK c \in Consumers : Receive(c) \/ WaitExpires(c) \/ Cancel(c)
    BY DEF QueueStep
  <1>1. CASE Recv(c)
    BY <1>1 DEF QueueTypeOK, Recv, Away
  <1>2. CASE TryPop(c)
    <2>1. CASE pending = <<>>
      BY <1>2, <2>1 DEF QueueTypeOK, TryPop
    <2>2. CASE pending # <<>>
      <3>1. Head(pending) \in Frames /\ Tail(pending) \in Seq(Frames)
        BY <2>2, HeadTail DEF QueueTypeOK
      <3>2. got' \in [Consumers -> SUBSET Frames]
        BY <1>2, <2>2, <3>1 DEF QueueTypeOK, TryPop
      <3> QED
        BY <1>2, <2>2, <3>1, <3>2 DEF QueueTypeOK, TryPop
    <2> QED
      BY <2>1, <2>2
  <1>3. CASE Await(c)
    <2>1. Append(waiters, c) \in Seq(Consumers)
      BY Extended DEF QueueTypeOK
    <2> QED
      BY <1>3, <2>1 DEF QueueTypeOK, Await
  <1>4. CASE Woken(c)
    BY <1>4 DEF QueueTypeOK, Woken
  <1>5. CASE WaitExpires(c) \/ Cancel(c)
    BY <1>5, LeaveTypes DEF WaitExpires, Cancel
  <1> QED
    BY <1>1, <1>2, <1>3, <1>4, <1>5 DEF Receive

----------------------------------------------------------------------------
(* The wake of recv.                                                        *)

\* The permit is stored only when nobody sleeps, and whoever sleeps is in the
\* wait list.
WaitListKept ==
  /\ permit => waiters = <<>>
  /\ \A c \in Consumers : cons[c] = "asleep" => \E i \in DOMAIN waiters : waiters[i] = c

\* A frame in the queue will be looked for: a permit is stored, or a consumer is
\* on its way to the queue or free to come, one that gave up not counted.
WakeOwed ==
  pending # <<>> => permit \/ \E c \in Consumers : cons[c] \in {"idle", "poll", "notified"}

LEMMA InTail ==
  ASSUME NEW S, NEW s \in Seq(S), s # <<>>, NEW x, x # Head(s),
         \E i \in DOMAIN s : s[i] = x
  PROVE  \E i \in DOMAIN Tail(s) : Tail(s)[i] = x
  <1>1. x \in Range(s)
    BY DEF Range
  <1>2. x \in Range(Tail(s))
    BY <1>1, RangeOfTail
  <1> QED
    BY <1>2 DEF Range

\* Waking the first sleeper keeps the others in the list.
LEMMA WakeFirst ==
  ASSUME QueueTypeOK, WaitListKept, waiters # <<>>, waiters' = Tail(waiters), permit' = permit,
         NEW d \in Consumers,
         \A c \in Consumers : c # d /\ c # Head(waiters) => cons'[c] = cons[c],
         cons'[d] # "asleep", cons'[Head(waiters)] # "asleep"
  PROVE  WaitListKept'
  <1>1. ~permit
    BY DEF WaitListKept
  <1>2. ASSUME NEW c \in Consumers, cons'[c] = "asleep"
        PROVE  \E i \in DOMAIN Tail(waiters) : Tail(waiters)[i] = c
    <2>1. c # Head(waiters) /\ cons[c] = "asleep"
      BY <1>2
    <2>2. \E i \in DOMAIN waiters : waiters[i] = c
      BY <2>1 DEF WaitListKept
    <2>3. waiters \in Seq(Consumers)
      BY DEF QueueTypeOK
    <2> QED
      BY ONLY waiters # <<>>, <2>1, <2>2, <2>3, InTail
  <1> QED
    BY <1>1, <1>2 DEF WaitListKept

LEMMA NotifyOneWakes ==
  ASSUME QueueTypeOK, WaitListKept, NotifyOne, UNCHANGED pending
  PROVE  WaitListKept' /\ WakeOwed'
  <1>1. CASE waiters = <<>>
    BY <1>1 DEF QueueTypeOK, NotifyOne, WaitListKept, WakeOwed
  <1>2. CASE waiters # <<>>
    <2>1. Head(waiters) \in Consumers /\ cons'[Head(waiters)] = "notified"
      BY <1>2, HeadTail DEF QueueTypeOK, NotifyOne
    <2>2. \A c \in Consumers : c # Head(waiters) => cons'[c] = cons[c]
      BY <1>2, <2>1 DEF QueueTypeOK, NotifyOne
    <2>3. waiters' = Tail(waiters) /\ permit' = permit
      BY <1>2 DEF NotifyOne
    <2>4. WaitListKept'
      BY <1>2, <2>1, <2>2, <2>3, WakeFirst
    <2> QED
      BY <2>1, <2>4 DEF WakeOwed
  <1> QED
    BY <1>1, <1>2

LEMMA LeaveWakes ==
  ASSUME QueueTypeOK, WaitListKept, NEW c \in Consumers, NEW to \in {"poll", "gone"}, Leave(c, to)
  PROVE  WaitListKept' /\ (WakeOwed => WakeOwed')
  <1>1. CASE cons[c] = "asleep"
    <2>1. PICK i \in DOMAIN waiters : waiters[i] = c /\ waiters' = RemoveAt(waiters, i)
      BY <1>1 DEF Leave
    <2>2. cons' = [cons EXCEPT ![c] = to] /\ permit' = permit
      BY <1>1 DEF Leave
    <2>3. waiters # <<>> /\ ~permit
      BY <2>1 DEF WaitListKept
    <2>4. ASSUME NEW d \in Consumers, cons'[d] = "asleep"
          PROVE  \E k \in DOMAIN waiters' : waiters'[k] = d
      <3>1. d # c /\ cons[d] = "asleep"
        BY <2>2, <2>4 DEF QueueTypeOK
      <3>2. PICK j \in DOMAIN waiters : waiters[j] = d
        BY <3>1 DEF WaitListKept
      <3>3. j # i
        BY <2>1, <3>1, <3>2
      <3> QED
        BY <2>1, <3>2, <3>3, Removed DEF QueueTypeOK
    <2>5. ASSUME NEW d \in Consumers, cons[d] \in {"idle", "poll", "notified"}
          PROVE  cons'[d] = cons[d]
      BY <1>1, <2>2, <2>5 DEF QueueTypeOK
    <2>6. pending' = pending
      BY <1>1 DEF Leave
    <2>7. WakeOwed => WakeOwed'
      BY <2>3, <2>5, <2>6 DEF WakeOwed
    <2> QED
      BY <2>2, <2>3, <2>4, <2>7 DEF WaitListKept
  <1>2. CASE cons[c] = "notified" /\ waiters = <<>>
    BY <1>2 DEF QueueTypeOK, Leave, WaitListKept, WakeOwed
  <1>3. CASE cons[c] = "notified" /\ waiters # <<>>
    <2>1. Head(waiters) \in Consumers
      BY <1>3, HeadTail DEF QueueTypeOK
    <2>2. /\ cons' = [cons EXCEPT ![c] = to, ![Head(waiters)] = "notified"]
          /\ waiters' = Tail(waiters) /\ permit' = permit
      BY <1>3 DEF Leave
    <2>3. /\ cons'[Head(waiters)] = "notified"
          /\ cons'[c] # "asleep"
          /\ \A d \in Consumers : d # c /\ d # Head(waiters) => cons'[d] = cons[d]
      BY <2>1, <2>2 DEF QueueTypeOK
    <2>4. WaitListKept'
      BY <1>3, <2>2, <2>3, WakeFirst
    <2> QED
      BY <2>1, <2>3, <2>4 DEF WakeOwed
  <1> QED
    BY <1>1, <1>2, <1>3 DEF Leave

\* No step of a consumer loses the wake of a frame that waits.
LEMMA QueueStepWakes ==
  ASSUME QueueTypeOK, WaitListKept, QueueStep
  PROVE  WaitListKept' /\ (WakeOwed => WakeOwed')
  <1> PICK c \in Consumers : Receive(c) \/ WaitExpires(c) \/ Cancel(c)
    BY DEF QueueStep
  <1>1. CASE Recv(c)
    BY <1>1 DEF QueueTypeOK, Recv, Away, WaitListKept, WakeOwed
  <1>2. CASE TryPop(c)
    BY <1>2 DEF QueueTypeOK, TryPop, WaitListKept, WakeOwed
  <1>3. CASE Await(c) /\ permit
    BY <1>3 DEF QueueTypeOK, Await, WaitListKept, WakeOwed
  <1>4. CASE Await(c) /\ ~permit
    <2>1. /\ cons' = [cons EXCEPT ![c] = "asleep"] /\ cons[c] = "await"
          /\ waiters' = Append(waiters, c) /\ permit' = permit /\ pending' = pending
      BY <1>4 DEF Await
    <2>2. /\ Len(waiters) \in Nat /\ DOMAIN waiters = 1 .. Len(waiters)
          /\ Append(waiters, c) \in Seq(Consumers)
          /\ Len(Append(waiters, c)) = Len(waiters) + 1
          /\ \A i \in 1 .. Len(waiters) : Append(waiters, c)[i] = waiters[i]
          /\ Append(waiters, c)[Len(waiters) + 1] = c
      BY Extended DEF QueueTypeOK
    <2>3. DOMAIN waiters' = 1 .. Len(waiters) + 1
      BY <2>1, <2>2
    <2>4. ASSUME NEW d \in Consumers, cons'[d] = "asleep"
          PROVE  \E i \in DOMAIN waiters' : waiters'[i] = d
      <3>1. CASE d = c
        BY <2>1, <2>2, <2>3, <3>1
      <3>2. CASE d # c
        <4>1. cons[d] = "asleep"
          BY <2>1, <2>4, <3>2 DEF QueueTypeOK
        <4>2. PICK i \in 1 .. Len(waiters) : waiters[i] = d
          BY <2>2, <4>1 DEF WaitListKept
        <4> QED
          BY <2>1, <2>2, <2>3, <4>2
      <3> QED
        BY <3>1, <3>2
    <2>5. WakeOwed => WakeOwed'
      BY <1>4, <2>1 DEF QueueTypeOK, WakeOwed
    <2> QED
      BY <1>4, <2>1, <2>4, <2>5 DEF WaitListKept
  <1>5. CASE Woken(c)
    BY <1>5 DEF QueueTypeOK, Woken, WaitListKept, WakeOwed
  <1>6. CASE WaitExpires(c) \/ Cancel(c)
    BY <1>6, LeaveWakes DEF WaitExpires, Cancel
  <1> QED
    BY <1>1, <1>2, <1>3, <1>4, <1>5, <1>6 DEF Receive

\* One asleep means that the list is not empty and no permit is stored: with the
\* others asleep or gone, the wake owed is the one of a notify still to come.
LEMMA OwedIsNotLost ==
  ASSUME NEW notifying \in BOOLEAN, WaitListKept, notifying \/ WakeOwed
  PROVE  NoLostWake(notifying)
  <1> SUFFICES ASSUME pending # <<>>, \E c \in Consumers : cons[c] = "asleep",
                      \A c \in Consumers : cons[c] \in {"asleep", "gone"}, ~notifying
               PROVE  FALSE
    BY DEF NoLostWake
  <1>1. PICK c \in Consumers : cons[c] = "asleep"
    OBVIOUS
  <1>2. \E i \in DOMAIN waiters : waiters[i] = c
    BY <1>1 DEF WaitListKept
  <1>3. ~permit
    BY <1>2 DEF WaitListKept
  <1> QED
    BY <1>3 DEF WakeOwed

----------------------------------------------------------------------------
(* What a consumer takes.                                                   *)

\* A step of a consumer takes nothing, or the first frame of the queue.
LEMMA QueueStepTakes ==
  ASSUME QueueTypeOK, QueueStep
  PROVE  /\ air' = air /\ pumped' = pumped /\ owner' = owner
         /\ \/ pending' = pending /\ got' = got
            \/ \E c \in Consumers :
                 /\ pending # <<>> /\ pending' = Tail(pending)
                 /\ got' = [got EXCEPT ![c] = @ \cup {Head(pending)}]
  <1> PICK c \in Consumers : Receive(c) \/ WaitExpires(c) \/ Cancel(c)
    BY DEF QueueStep
  <1>1. CASE Recv(c) \/ Await(c) \/ Woken(c)
    BY <1>1 DEF Recv, Await, Woken
  <1>2. CASE TryPop(c)
    BY <1>2 DEF TryPop
  <1>3. CASE WaitExpires(c) \/ Cancel(c)
    BY <1>3 DEF WaitExpires, Cancel, Leave
  <1> QED
    BY <1>1, <1>2, <1>3 DEF Receive

=============================================================================
