--------------------------- MODULE SyncPump_proofs ---------------------------
(* Theorems about SyncPump, for every value of its constants. *)
EXTENDS SyncPump, RxQueue_proofs

\* Before the pump is spawned no reader is under way, and one that has not given
\* up may fail once more.
ReadersKept ==
  /\ ~pumped => \A r \in Readers : reader[r] = "none" /\ consec[r] = 0
  /\ \A r \in Readers : reader[r] # "exited" => consec[r] <= MAX_CONSEC

LEMMA InitTypeOK == Init => TypeOK /\ ReadersKept
  <1> SUFFICES ASSUME Init PROVE TypeOK /\ ReadersKept
    OBVIOUS
  <1>1. QueueTypeOK
    <2>1. pending \in Seq(Frames) /\ waiters \in Seq(Consumers)
      BY DEF Init, QueueInit
    <2> QED
      BY <2>1 DEF Init, QueueInit, QueueTypeOK
  <1>2. /\ reader \in [Readers -> {"none", "top", "read", "push", "notify", "exited"}]
        /\ buf \in [Readers -> Seq(Frames)]
        /\ rx_errors \in Nat /\ device \in BOOLEAN
    BY DEF Init
  <1>3. consec \in [Readers -> 0 .. MAX_CONSEC + 1] /\ ReadersKept
    BY ErrorsAssumption DEF Init, ReadersKept
  <1> QED
    BY <1>1, <1>2, <1>3 DEF TypeOK

\* A step of a reader that leaves the queue alone.
LEMMA ReaderTypeOK ==
  ASSUME TypeOK, UNCHANGED queueVars, NEW r \in Readers,
         NEW to \in {"none", "top", "read", "push", "notify", "exited"},
         reader' = [reader EXCEPT ![r] = to],
         buf' = buf,
         consec' \in [Readers -> 0 .. MAX_CONSEC + 1], rx_errors' \in Nat, device' \in BOOLEAN
  PROVE  TypeOK'
  BY DEF TypeOK, QueueTypeOK, queueVars

LEMMA NextTypeOK == TypeOK /\ ReadersKept /\ [Next]_vars => TypeOK' /\ ReadersKept'
  <1> SUFFICES ASSUME TypeOK, ReadersKept, [Next]_vars PROVE TypeOK' /\ ReadersKept'
    OBVIOUS
  <1>0. QueueTypeOK /\ MAX_CONSEC \in Nat
    BY ErrorsAssumption DEF TypeOK
  <1>1. CASE UNCHANGED vars
    BY <1>1 DEF TypeOK, QueueTypeOK, ReadersKept, vars, queueVars, pumpVars
  <1>2. CASE QueueStep /\ UNCHANGED pumpVars
    BY <1>0, <1>2, QueueStepTypes, QueueStepTakes DEF TypeOK, ReadersKept, pumpVars
  <1>3. CASE DropOwner /\ UNCHANGED pumpVars
    BY <1>3 DEF TypeOK, QueueTypeOK, ReadersKept, DropOwner, pumpVars
  <1>4. CASE Spawn
    <2>1. TypeOK'
      BY <1>4 DEF TypeOK, QueueTypeOK, Spawn
    <2>2. ReadersKept'
      BY <1>0, <1>4 DEF TypeOK, ReadersKept, Spawn
    <2> QED
      BY <2>1, <2>2
  <1>5. CASE Unplug
    BY <1>5 DEF TypeOK, QueueTypeOK, ReadersKept, Unplug, queueVars
  <1>6. ASSUME NEW r \in Readers, ReaderStep(r) PROVE TypeOK' /\ ReadersKept'
    <2>0. pumped /\ pumped'
      <3>1. reader[r] # "none"
        BY <1>6 DEF ReaderStep, Upgrade, ReadFrames, ReadTimesOut, ReadFails, ReadFindsNoDevice,
                    Push, Notify
      <3>2. pumped' = pumped
        BY <1>6 DEF ReaderStep, Upgrade, ReadFrames, ReadTimesOut, ReadFails, ReadFindsNoDevice,
                    Push, Notify, queueVars
      <3> QED
        BY <3>1, <3>2 DEF ReadersKept
    <2>1. CASE Upgrade(r)
      <3>1. TypeOK'
        BY <2>1, ReaderTypeOK DEF Upgrade, TypeOK
      <3> QED
        BY <2>0, <2>1, <3>1 DEF Upgrade, TypeOK, ReadersKept
    <2>2. CASE ReadFrames(r)
      <3>1. PICK b \in Batches : buf' = [buf EXCEPT ![r] = b] /\ air' = air \ Range(b)
        BY <2>2 DEF ReadFrames
      <3>2. b \in Seq(Frames)
        BY <1>0, BatchTypes
      <3>3. buf' \in [Readers -> Seq(Frames)] /\ air' \subseteq Frames
        BY <3>1, <3>2 DEF TypeOK, QueueTypeOK
      <3>4. consec' \in [Readers -> 0 .. MAX_CONSEC + 1] /\ ReadersKept'
        BY <1>0, <2>0, <2>2 DEF ReadFrames, TypeOK, ReadersKept
      <3> QED
        BY <2>2, <3>3, <3>4 DEF ReadFrames, TypeOK, QueueTypeOK
    <2>3. CASE ReadTimesOut(r)
      <3>1. consec' \in [Readers -> 0 .. MAX_CONSEC + 1] /\ ReadersKept'
        BY <1>0, <2>0, <2>3 DEF ReadTimesOut, TypeOK, ReadersKept
      <3> QED
        BY <2>3, <3>1 DEF ReadTimesOut, TypeOK, QueueTypeOK, queueVars
    <2>4. CASE ReadFails(r)
      <3>1. consec[r] \in 0 .. MAX_CONSEC
        BY <1>0, <2>4 DEF ReadFails, TypeOK, ReadersKept
      <3>2. consec' = [consec EXCEPT ![r] = consec[r] + 1]
            /\ reader' = [reader EXCEPT ![r] = IF consec[r] + 1 > MAX_CONSEC THEN "exited" ELSE "top"]
        BY <2>4 DEF ReadFails
      <3>3. consec[r] + 1 \in 0 .. MAX_CONSEC + 1
        BY <1>0, <3>1
      <3>4. consec' \in [Readers -> 0 .. MAX_CONSEC + 1]
        BY <3>2, <3>3 DEF TypeOK
      <3>5. ASSUME NEW s \in Readers, reader'[s] # "exited"
            PROVE  consec'[s] <= MAX_CONSEC
        <4>1. CASE s = r
          BY <1>0, <3>1, <3>2, <3>5, <4>1 DEF TypeOK
        <4>2. CASE s # r
          BY <3>2, <3>5, <4>2 DEF TypeOK, ReadersKept
        <4> QED
          BY <4>1, <4>2
      <3>6. rx_errors' \in Nat /\ UNCHANGED <<queueVars, buf, device>>
        BY <2>4 DEF ReadFails, TypeOK
      <3> QED
        BY <2>0, <3>2, <3>4, <3>5, <3>6 DEF TypeOK, QueueTypeOK, queueVars, ReadersKept
    <2>5. CASE ReadFindsNoDevice(r)
      <3>1. TypeOK'
        BY <2>5, ReaderTypeOK DEF ReadFindsNoDevice, TypeOK
      <3> QED
        BY <2>0, <2>5, <3>1 DEF ReadFindsNoDevice, TypeOK, ReadersKept
    <2>6. CASE Push(r)
      <3>1. buf[r] \in Seq(Frames) /\ pending \in Seq(Frames)
        BY DEF TypeOK, QueueTypeOK
      <3>2. pending' \in Seq(Frames)
        BY <2>6, <3>1, Concatenated DEF Push, Enqueue
      <3>3. buf' \in [Readers -> Seq(Frames)]
        BY <2>6 DEF Push, TypeOK
      <3> QED
        BY <2>6, <3>2, <3>3 DEF Push, TypeOK, QueueTypeOK, ReadersKept
    <2>7. CASE Notify(r)
      <3>1. QueueTypeOK'
        BY <1>0, <2>7, NotifyOneTypes DEF Notify
      <3> QED
        BY <2>7, <3>1 DEF Notify, TypeOK, ReadersKept
    <2> QED
      BY <1>6, <2>1, <2>2, <2>3, <2>4, <2>5, <2>6, <2>7 DEF ReaderStep
  <1> QED
    BY <1>1, <1>2, <1>3, <1>4, <1>5, <1>6 DEF Next

LEMMA TypeInvariant == Spec => [](TypeOK /\ ReadersKept)
  BY InitTypeOK, NextTypeOK, PTL DEF Spec

\* The pump keeps its types, and no reader fails more often in a row than it
\* survives (rx_pump.rs:149-181): a reader that goes on has counted MAX_CONSEC
\* at most.
THEOREM TypeCorrect == Spec => []TypeOK
  BY TypeInvariant, PTL

----------------------------------------------------------------------------
(* No wake is lost.                                                         *)

Notifying == \E r \in Readers : reader[r] = "notify"

\* Before the threads start nothing is in flight.
NotStarted == ~pumped => \A r \in Readers : reader[r] = "none"

Wakes == NotStarted /\ WaitListKept /\ (Notifying \/ WakeOwed)

LEMMA InitWakes == Init => Wakes
  BY DEF Init, QueueInit, Wakes, NotStarted, WaitListKept, WakeOwed

\* A step of reader r that does not touch the queue's wake, and ends elsewhere
\* than before a notify.
LEMMA ReaderKeepsWakes ==
  ASSUME TypeOK, Wakes, NEW r \in Readers, reader[r] \notin {"none", "notify"},
         NEW to \in {"top", "read", "push", "exited"}, reader' = [reader EXCEPT ![r] = to],
         UNCHANGED <<pumped, pending, permit, waiters, cons>>
  PROVE  Wakes'
  <1>1. pumped
    BY DEF Wakes, NotStarted
  <1>2. Notifying => Notifying'
    BY DEF Notifying, TypeOK
  <1> QED
    BY <1>1, <1>2 DEF Wakes, NotStarted, WaitListKept, WakeOwed

LEMMA NextWakes == TypeOK /\ Wakes /\ [Next]_vars => Wakes'
  <1> SUFFICES ASSUME TypeOK, Wakes, [Next]_vars PROVE Wakes'
    OBVIOUS
  <1>0. QueueTypeOK /\ WaitListKept
    BY DEF TypeOK, Wakes
  <1>1. CASE UNCHANGED vars
    BY <1>1 DEF Wakes, NotStarted, WaitListKept, WakeOwed, Notifying, vars, queueVars, pumpVars
  <1>2. CASE QueueStep /\ UNCHANGED pumpVars
    <2>1. WaitListKept' /\ (WakeOwed => WakeOwed') /\ pumped' = pumped
      BY <1>0, <1>2, QueueStepWakes, QueueStepTakes
    <2> QED
      BY <1>2, <2>1 DEF Wakes, NotStarted, Notifying, pumpVars
  <1>3. CASE DropOwner /\ UNCHANGED pumpVars
    BY <1>3 DEF Wakes, NotStarted, WaitListKept, WakeOwed, Notifying, DropOwner, pumpVars
  <1>4. CASE Spawn
    <2>1. ~Notifying /\ pumped' /\ WaitListKept' /\ (WakeOwed => WakeOwed')
      BY <1>4 DEF Spawn, Wakes, NotStarted, Notifying, WaitListKept, WakeOwed
    <2> QED
      BY <2>1 DEF Wakes, NotStarted
  <1>5. CASE Unplug
    BY <1>5 DEF Wakes, NotStarted, WaitListKept, WakeOwed, Notifying, Unplug, queueVars
  <1>6. ASSUME NEW r \in Readers, ReaderStep(r) PROVE Wakes'
    <2>1. CASE Upgrade(r)
      BY <2>1, ReaderKeepsWakes DEF Upgrade, queueVars
    <2>2. CASE ReadFrames(r)
      BY <2>2, ReaderKeepsWakes DEF ReadFrames
    <2>3. CASE ReadTimesOut(r)
      BY <2>3, ReaderKeepsWakes DEF ReadTimesOut, queueVars
    <2>4. CASE ReadFails(r)
      BY <2>4, ReaderKeepsWakes DEF ReadFails, queueVars
    <2>5. CASE ReadFindsNoDevice(r)
      BY <2>5, ReaderKeepsWakes DEF ReadFindsNoDevice, queueVars
    <2>6. CASE Push(r)
      <3>1. Notifying' /\ pumped
        BY <2>6 DEF Push, Notifying, TypeOK, Wakes, NotStarted
      <3> QED
        BY <1>0, <2>6, <3>1 DEF Push, Wakes, NotStarted, WaitListKept
    <2>7. CASE Notify(r)
      <3>1. WaitListKept' /\ WakeOwed'
        BY <1>0, <2>7, NotifyOneWakes DEF Notify
      <3>2. pumped /\ pumped' = pumped
        BY <2>7 DEF Notify, Wakes, NotStarted
      <3> QED
        BY <3>1, <3>2 DEF Wakes, NotStarted
    <2> QED
      BY <1>6, <2>1, <2>2, <2>3, <2>4, <2>5, <2>6, <2>7 DEF ReaderStep
  <1> QED
    BY <1>1, <1>2, <1>3, <1>4, <1>5, <1>6 DEF Next

\* No decoded frame waits while every caller of recv sleeps and no notify is to
\* come (rx_pump.rs:66-88), however many frames one notify stands for, and
\* whoever is cancelled or times out in between.
THEOREM NoFrameSleepsAlways == Spec => []NoFrameSleeps
  <1>1. Wakes => NoFrameSleeps
    <2>1. Notifying \in BOOLEAN
      BY DEF Notifying
    <2> QED
      BY <2>1, OwedIsNotLost DEF Wakes, NoFrameSleeps, Notifying
  <1> QED
    BY <1>1, TypeInvariant, InitWakes, NextWakes, PTL DEF Spec
----------------------------------------------------------------------------
(* Each frame is handed out once: the pump implements FrameService.         *)

\* The places a frame can be in hold different frames, each once.
Apart ==
  /\ IsInjective(pending) /\ air \cap Range(pending) = {}
  /\ \A r \in Readers :
       /\ IsInjective(buf[r])
       /\ buf[r] # <<>> => reader[r] = "push"
       /\ air \cap Range(buf[r]) = {} /\ Range(pending) \cap Range(buf[r]) = {}
       /\ \A s \in Readers \ {r} : Range(buf[r]) \cap Range(buf[s]) = {}

LEMMA EmptyHolds == Range(<<>>) = {} /\ IsInjective(<<>>)
  BY DEF Range, IsInjective

LEMMA InitApart == Init => Apart /\ Service!Init
  <1> SUFFICES ASSUME Init PROVE Apart /\ Service!Init
    OBVIOUS
  <1>1. pending = <<>> /\ \A r \in Readers : buf[r] = <<>>
    BY DEF Init, QueueInit
  <1>2. Apart
    BY <1>1, EmptyHolds DEF Apart
  <1>3. held = {}
    BY <1>1, EmptyHolds DEF held
  <1> QED
    BY <1>2, <1>3 DEF Init, QueueInit, Service!Init

\* A frame that leaves the queue for a consumer was nowhere else.
LEMMA TakeDelivers ==
  ASSUME TypeOK, Apart, UNCHANGED <<air, reader, buf>>, NEW c \in Consumers,
         pending # <<>>, pending' = Tail(pending),
         got' = [got EXCEPT ![c] = @ \cup {Head(pending)}]
  PROVE  Apart' /\ Service!Deliver
  <1> DEFINE f == Head(pending)
  <1>1. pending \in Seq(Frames)
    BY DEF TypeOK, QueueTypeOK
  <1>2. /\ f \in Range(pending) /\ IsInjective(Tail(pending))
        /\ Range(Tail(pending)) = Range(pending) \ {f}
    BY <1>1, RangeOfTail DEF Apart
  <1> HIDE DEF f
  <1>3. Apart'
    BY <1>2 DEF Apart
  <1>4. held' = held \ {f} /\ f \in held
    <2>1. \A r \in Readers : f \notin Range(buf[r])
      BY <1>2 DEF Apart
    <2> QED
      BY <1>2, <2>1 DEF held
  <1> QED
    BY <1>3, <1>4 DEF Service!Deliver, f

\* What a completed read brings was in the air.
LEMMA ReadCaptures ==
  ASSUME TypeOK, Apart, NEW r \in Readers, ReadFrames(r)
  PROVE  Apart' /\ Service!Capture
  <1>1. PICK b \in Batches : buf' = [buf EXCEPT ![r] = b] /\ air' = air \ Range(b)
    BY DEF ReadFrames
  <1>2. Range(b) \subseteq air /\ IsInjective(b)
    BY BatchTypes DEF TypeOK
  <1>3. buf'[r] = b /\ \A s \in Readers \ {r} : buf'[s] = buf[s]
    BY <1>1 DEF TypeOK
  <1>4. /\ reader'[r] = "push" /\ \A s \in Readers \ {r} : reader'[s] = reader[s]
        /\ pending' = pending /\ got' = got
    BY DEF ReadFrames, TypeOK
  <1>5. Range(buf[r]) = {}
    BY EmptyHolds DEF ReadFrames, Apart
  <1>6. Apart'
    <2>1. ASSUME NEW s \in Readers
          PROVE  /\ IsInjective(buf'[s])
                 /\ buf'[s] # <<>> => reader'[s] = "push"
                 /\ air' \cap Range(buf'[s]) = {} /\ Range(pending') \cap Range(buf'[s]) = {}
                 /\ \A u \in Readers \ {s} : Range(buf'[s]) \cap Range(buf'[u]) = {}
      <3>1. CASE s = r
        BY <1>1, <1>2, <1>3, <1>4, <3>1 DEF Apart
      <3>2. CASE s # r
        BY <1>1, <1>2, <1>3, <1>4, <3>2 DEF Apart
      <3> QED
        BY <3>1, <3>2
    <2>2. IsInjective(pending') /\ air' \cap Range(pending') = {}
      BY <1>1, <1>4 DEF Apart
    <2> QED
      BY <2>1, <2>2 DEF Apart
  <1>7. held' = held \cup Range(b)
    <2>1. UNION {Range(buf'[s]) : s \in Readers}
            = Range(b) \cup UNION {Range(buf[s]) : s \in Readers}
      BY <1>3, <1>5
    <2> QED
      BY <1>4, <2>1 DEF held
  <1> QED
    BY <1>1, <1>2, <1>4, <1>6, <1>7 DEF Service!Capture

LEMMA PushMoves ==
  ASSUME TypeOK, Apart, NEW r \in Readers, Push(r)
  PROVE  Apart' /\ UNCHANGED Service!vars
  <1>1. buf[r] \in Seq(Frames) /\ pending \in Seq(Frames)
    BY DEF TypeOK, QueueTypeOK
  <1>2. /\ pending' = pending \o buf[r] /\ air' = air /\ got' = got
        /\ buf'[r] = <<>> /\ \A s \in Readers \ {r} : buf'[s] = buf[s] /\ reader'[s] = reader[s]
    BY DEF Push, Enqueue, TypeOK
  <1>3. Range(pending') = Range(pending) \cup Range(buf[r]) /\ IsInjective(pending')
    BY <1>1, <1>2, RangeOfConcatenation DEF Apart
  <1>4. Apart'
    <2>1. ASSUME NEW s \in Readers
          PROVE  /\ IsInjective(buf'[s])
                 /\ buf'[s] # <<>> => reader'[s] = "push"
                 /\ air' \cap Range(buf'[s]) = {} /\ Range(pending') \cap Range(buf'[s]) = {}
                 /\ \A u \in Readers \ {s} : Range(buf'[s]) \cap Range(buf'[u]) = {}
      <3>1. CASE s = r
        BY <1>2, <1>3, <3>1, EmptyHolds DEF Apart
      <3>2. CASE s # r
        BY <1>2, <1>3, <3>2, EmptyHolds DEF Apart
      <3> QED
        BY <3>1, <3>2
    <2>2. air' \cap Range(pending') = {}
      BY <1>2, <1>3 DEF Apart
    <2> QED
      BY <1>3, <2>1, <2>2 DEF Apart
  <1>5. held' = held
    <2>1. UNION {Range(buf[s]) : s \in Readers}
            = Range(buf[r]) \cup UNION {Range(buf'[s]) : s \in Readers}
      BY <1>2, EmptyHolds
    <2> QED
      BY <1>3, <2>1 DEF held
  <1> QED
    BY <1>2, <1>4, <1>5 DEF Service!vars

\* Every other step moves no frame.
LEMMA NothingMoves ==
  ASSUME Apart, UNCHANGED <<air, pending, got, buf>>,
         \A r \in Readers : reader[r] = "push" => reader'[r] = "push"
  PROVE  Apart' /\ UNCHANGED Service!vars
  BY DEF Apart, Service!vars, held

LEMMA NextApart ==
  ASSUME TypeOK, Wakes, Apart, [Next]_vars
  PROVE  Apart' /\ [Service!Next]_(Service!vars)
  <1>0. QueueTypeOK
    BY DEF TypeOK
  <1>1. CASE UNCHANGED vars
    BY <1>1, NothingMoves DEF vars, queueVars, pumpVars
  <1>2. CASE QueueStep /\ UNCHANGED pumpVars
    <2>1. /\ air' = air
          /\ \/ pending' = pending /\ got' = got
             \/ \E c \in Consumers :
                  /\ pending # <<>> /\ pending' = Tail(pending)
                  /\ got' = [got EXCEPT ![c] = @ \cup {Head(pending)}]
      BY <1>0, <1>2, QueueStepTakes
    <2>2. CASE pending' = pending /\ got' = got
      BY <1>2, <2>1, <2>2, NothingMoves DEF pumpVars
    <2>3. CASE \E c \in Consumers :
                 /\ pending # <<>> /\ pending' = Tail(pending)
                 /\ got' = [got EXCEPT ![c] = @ \cup {Head(pending)}]
      BY <1>2, <2>1, <2>3, TakeDelivers DEF pumpVars, Service!Next
    <2> QED
      BY <2>1, <2>2, <2>3
  <1>3. CASE DropOwner /\ UNCHANGED pumpVars
    BY <1>3, NothingMoves DEF DropOwner, pumpVars
  <1>4. CASE Spawn
    BY <1>4, NothingMoves DEF Spawn, Wakes, NotStarted
  <1>5. CASE Unplug
    BY <1>5, NothingMoves DEF Unplug, queueVars
  <1>6. ASSUME NEW r \in Readers, ReaderStep(r)
        PROVE  Apart' /\ [Service!Next]_(Service!vars)
    <2>1. CASE ReadFrames(r)
      BY <2>1, ReadCaptures DEF Service!Next
    <2>2. CASE Push(r)
      BY <2>2, PushMoves
    <2>3. CASE Upgrade(r) \/ ReadTimesOut(r) \/ ReadFails(r) \/ ReadFindsNoDevice(r)
      BY <2>3, NothingMoves
         DEF Upgrade, ReadTimesOut, ReadFails, ReadFindsNoDevice, queueVars, TypeOK
    <2>4. CASE Notify(r)
      BY <2>4, NothingMoves DEF Notify, TypeOK
    <2> QED
      BY <1>6, <2>1, <2>2, <2>3, <2>4 DEF ReaderStep
  <1> QED
    BY <1>1, <1>2, <1>3, <1>4, <1>5, <1>6 DEF Next

\* Whatever threads race, recv_frame hands out each received frame once, and
\* nothing that was not received (rx_pump.rs:66-88, 133-146).
THEOREM PumpImplementsService == Spec => ImplementsService
  <1>1. TypeOK /\ Wakes /\ Apart /\ [Next]_vars => Apart' /\ [Service!Next]_(Service!vars)
    BY NextApart
  <1> QED
    BY <1>1, InitApart, InitWakes, NextWakes, TypeInvariant, PTL
       DEF Spec, ImplementsService, Service!Spec

==============================================================================
