--------------------------- MODULE RxStamp_proofs ---------------------------
(* Theorems about RxStamp, for every value of its constants. *)
EXTENDS RxStamp, SequenceTheorems, TLAPS

\* The extended clock is the true time: an overflow is counted or pending, and one
\* that is pending is younger than half a turn.
Clock ==
  /\ now = cap.wraps * Wrap + Cnt + (IF tim.uif THEN Wrap ELSE 0)
  /\ tim.uif => Cnt <= late \/ Cnt < late + MaxLate
  /\ tim.uif /\ isr = "capture" => Cnt < late

\* The packets that completed since the receiver was armed.
Open == {k \in Packets : k > hist.open}

\* An edge that is latched was raised by one of them, not longer ago than the
\* interrupt has been pending; no second edge falls meanwhile.
Edge ==
  /\ isr = "capture" => tim.cc3if
  /\ ~tim.cc3of /\ cap.over = 0 /\ win.over = 0
  /\ tim.cc3if =>
       /\ chip.done
       /\ \E k \in Open : /\ tim.ccr = log[k].at % Wrap
                          /\ log[k].at <= now /\ now <= log[k].at + late

\* A capture counted since the arm is the instant of one of them.
Captured ==
  /\ win.edges <= cap.captures
  /\ win.edges < cap.captures => \E k \in Open : cap.ticks = log[k].at

\* The chip's count moves by one or two for a packet, by one for a good one.
Counted ==
  /\ chip.last = Len(log)
  /\ hist.reset = win.dirty
  /\ pc # "clear" /\ ~win.dirty => win.base = win.next
  /\ ~win.dirty =>
       /\ win.next + (Len(log) - hist.mark) <= chip.count
       /\ (\A k \in Packets : k > hist.mark => log[k].good)
            => chip.count = win.next + (Len(log) - hist.mark)

\* What the open window has in it.
Window ==
  /\ pc \notin {"clear", "arm"} => hist.mark <= hist.open
  /\ pc # "clear" /\ chip.done => hist.mark < Len(log)
  /\ pc \in {"ident", "count"} => chip.done
  /\ pc # "arm" => \A k \in Open : log[k].good \/ chip.crc
  /\ pc \notin {"clear", "arm"} /\ hist.open = hist.mark =>
       IF Len(log) = hist.mark
         THEN ~chip.done /\ ~tim.cc3if /\ cap.captures = win.edges
         ELSE chip.done /\ cap.captures = IF tim.cc3if THEN win.edges ELSE win.edges + 1

Reading == pc \in {"ident", "count"}

InHand ==
  \/ pc \in {"count", "deliver"} \/ back = "deliver"
  \/ pc \in {"clear", "arm"} /\ ret = "deliver"

\* The packet in hand: what its stamp is before and after it is judged.
Hand ==
  /\ pc \in {"loop", "ident", "count", "deliver"} => back = "loop"
  /\ pc \in {"clear", "arm"} /\ ret = "deliver" => back = "loop"
  /\ pc = "base" => ret # "deliver"
  /\ InHand => pkt.id \in Packets
  /\ pc = "count" => hist.mark < pkt.id
  /\ InHand /\ pc # "count" => pkt.id <= hist.mark
  /\ pkt.ts # Soft => HwOk
  /\ Reading => ~pkt.clean /\ (HwOk /\ hist.open = hist.mark => pkt.ts # Soft)
  /\ Reading /\ pkt.ts # Soft =>
       \E k \in Open : pkt.ts = log[k].at /\ (pkt.crc \/ log[k].good)
  /\ ~Reading /\ pkt.ts # Soft =>
       pkt.id \in Packets /\ pkt.ts = log[pkt.id].at /\ (pkt.crc \/ log[pkt.id].good)
  /\ ~Reading /\ pkt.clean => pkt.ts # Soft

\* What was written is older than the packet in hand.
Written ==
  /\ \A i \in 1 .. Len(sent) : sent[i] <= hist.mark /\ (InHand => sent[i] < pkt.id)
  /\ ReportedOnce

IsFrame(e) ==
  /\ e.typ = "frame" /\ e.id \in Packets
  /\ e.ts # Soft => HwOk /\ e.ts = OnWire(log[e.id].at) /\ log[e.id].good
  /\ e.clean => e.ts # Soft
  /\ sent # <<>> /\ e.id = sent[Len(sent)]

\* On the line is nothing, an event of another kind, a frame, or a frame behind its
\* note; a software stamp has its note ahead, taken, or lost.
OnLine ==
  \/ line = <<>>
  \/ Len(line) = 1 /\ line[1].typ = "other"
  \/ /\ Len(line) = 1 /\ IsFrame(line[1])
     /\ HwOk /\ line[1].ts = Soft => pending \/ line[1].id \in lost.notes
  \/ /\ Len(line) = 2 /\ line[1].typ = "note" /\ line[1].id = line[2].id
     /\ IsFrame(line[2]) /\ line[2].ts = Soft

\* A note that waits has its frame ahead, or its frame was lost.
Waiting ==
  pending /\ Len(line) < 2 =>
    IF line # <<>> /\ line[1].typ = "frame"
      THEN line[1].ts = Soft \/ (Len(sent) >= 2 /\ sent[Len(sent) - 1] \in lost.frames)
      ELSE sent # <<>> /\ sent[Len(sent)] \in lost.frames

PubOK ==
  /\ pub.capture \/ pub.clean => pub.id \in Packets
  /\ CapturedIsOwn /\ CleanIsCaptured /\ NoteCostsOneFrame

IInv ==
  TypeOK /\ Clock /\ Edge /\ Captured /\ Counted /\ Window /\ Hand /\ Written
    /\ OnLine /\ Waiting /\ PubOK

-----------------------------------------------------------------------------
(* Arithmetic of the timer.                                                 *)

LEMMA Parameters ==
  /\ HwOk \in BOOLEAN
  /\ Word \in Nat /\ Word > 0
  /\ Wrap \in Nat /\ Wrap >= 2 /\ Half \in Nat /\ Half < Wrap
  /\ MaxLate \in Nat /\ 2 * MaxLate <= Half /\ MaxLate < Half
  /\ BootEnd \in Nat /\ BootEnd < Wrap /\ BootEnd <= MaxNow
  /\ MaxNow \in Nat /\ MaxFrames \in Nat /\ MaxResets \in Nat /\ MaxLeaves \in Nat
  /\ MaxLost \in Nat
  BY ParametersAssumption DEF Half

\* The truncation of a stamp tells a capture from a software stamp.
LEMMA WireTypes ==
  ASSUME TypeOK
  PROVE  OnWire(pkt.ts) \in Stamps /\ (OnWire(pkt.ts) = Soft <=> pkt.ts = Soft)
  <1>1. pkt \in [crc : BOOLEAN, id : 0 .. Len(log), ts : Stamps, clean : BOOLEAN]
    BY DEF TypeOK
  <1>2. pkt.ts = -1 \/ pkt.ts \in Nat
    BY <1>1 DEF Stamps, Soft
  <1>3. pkt.ts \in Nat => pkt.ts % Word \in 0 .. Word - 1
    BY Parameters
  <1>4. pkt.ts \in Nat => pkt.ts % Word \in Nat /\ pkt.ts % Word # -1
    BY <1>3, Parameters
  <1> QED
    BY <1>2, <1>4 DEF OnWire, Soft, Stamps

LEMMA Turn ==
  ASSUME NEW n \in Nat, NEW w \in Nat, w >= 2
  PROVE  /\ n \div w \in Nat /\ n % w \in 0 .. w - 1
         /\ n = w * (n \div w) + (n % w)
  OBVIOUS

LEMMA CountIsUnique ==
  ASSUME NEW w \in Nat, NEW q \in Int, NEW r \in Nat, r < w
  PROVE  (w * q + r) % w = r
  OBVIOUS

LEMMA CountStep ==
  ASSUME NEW n \in Nat, NEW w \in Nat, w >= 2
  PROVE  (n + 1) % w = IF n % w = w - 1 THEN 0 ELSE (n % w) + 1
  <1> DEFINE q == n \div w  r == n % w
  <1>1. q \in Nat /\ r \in 0 .. w - 1 /\ n = w * q + r
    BY Turn
  <1> HIDE DEF q, r
  <1>2. CASE r = w - 1
    <2>1. n + 1 = w * (q + 1) + 0
      BY <1>1, <1>2
    <2>2. (w * (q + 1) + 0) % w = 0
      BY <1>1, CountIsUnique
    <2> QED
      BY <1>2, <2>1, <2>2 DEF r
  <1>3. CASE r # w - 1
    <2>1. n + 1 = w * q + (r + 1) /\ r + 1 \in Nat /\ r + 1 < w
      BY <1>1, <1>3
    <2>2. (w * q + (r + 1)) % w = r + 1
      BY <1>1, <2>1, CountIsUnique
    <2> QED
      BY <1>3, <2>1, <2>2 DEF r
  <1> QED
    BY <1>2, <1>3

\* A difference of counts is the difference of their times, when that is less than
\* a turn.
LEMMA CountDifference ==
  ASSUME NEW a \in Nat, NEW b \in Nat, NEW w \in Nat, w >= 2, a <= b, b < a + w
  PROVE  ((b % w) - (a % w)) % w = b - a
  <1> DEFINE p == a \div w  r == a % w  q == b \div w  s == b % w
  <1>1. p \in Nat /\ r \in 0 .. w - 1 /\ a = w * p + r
    BY Turn
  <1>2. q \in Nat /\ s \in 0 .. w - 1 /\ b = w * q + s
    BY Turn
  <1> HIDE DEF p, r, q, s
  <1>3. s - r = w * (p - q) + (b - a) /\ p - q \in Int /\ b - a \in Nat /\ b - a < w
    BY <1>1, <1>2
  <1>4. (w * (p - q) + (b - a)) % w = b - a
    BY <1>3, CountIsUnique
  <1> QED
    BY <1>3, <1>4 DEF r, s

-----------------------------------------------------------------------------
(* Types.                                                                   *)

LEMMA Types ==
  ASSUME TypeOK
  PROVE  /\ now \in Nat /\ now <= MaxNow /\ late \in Nat /\ late <= MaxLate
         /\ Len(log) \in Nat
         /\ chip.rx \in BOOLEAN /\ chip.done \in BOOLEAN /\ chip.crc \in BOOLEAN
         /\ chip.last \in Nat /\ chip.count \in Nat
         /\ tim.ccr \in 0 .. Wrap - 1 /\ tim.cc3if \in BOOLEAN /\ tim.cc3of \in BOOLEAN
         /\ tim.uif \in BOOLEAN
         /\ cap.wraps \in Nat /\ cap.captures \in Nat /\ cap.over \in Nat
         /\ cap.ticks \in Nat /\ cap.lat \in Nat /\ cap.lat <= MaxLate
         /\ win.edges \in Nat /\ win.over \in Nat /\ win.base \in Nat /\ win.next \in Nat
         /\ win.dirty \in BOOLEAN
         /\ pkt.crc \in BOOLEAN /\ pkt.id \in 0 .. Len(log) /\ pkt.ts \in Stamps
         /\ pkt.clean \in BOOLEAN
         /\ hist.mark \in 0 .. Len(log) /\ hist.open \in 0 .. Len(log)
         /\ hist.reset \in BOOLEAN
  <1>1. Len(log) \in Nat
    BY DEF TypeOK
  <1> QED
    BY <1>1, Parameters DEF TypeOK

LEMMA PacketTypes ==
  ASSUME TypeOK, NEW k \in Packets
  PROVE  /\ k \in Nat /\ k >= 1 /\ k <= Len(log)
         /\ log[k].at \in Nat /\ log[k].at # Soft /\ log[k].good \in BOOLEAN
  <1>1. log \in Seq(LogTypes) /\ k \in 1 .. Len(log)
    BY DEF TypeOK, Packets
  <1>2. log[k] \in LogTypes /\ Len(log) \in Nat
    BY <1>1
  <1> QED
    BY <1>1, <1>2, Parameters DEF LogTypes, Soft

\* A packet more: those before it are what they were.
LEMMA PacketAdded ==
  ASSUME TypeOK, NEW good \in BOOLEAN, log' = Append(log, [at |-> now, good |-> good])
  PROVE  /\ log' \in Seq(LogTypes) /\ Len(log') = Len(log) + 1
         /\ \A k \in Packets : log'[k] = log[k]
         /\ log'[Len(log) + 1] = [at |-> now, good |-> good]
         /\ Packets' = Packets \cup {Len(log) + 1}
  <1>1. log \in Seq(LogTypes) /\ [at |-> now, good |-> good] \in LogTypes
    BY DEF TypeOK, LogTypes
  <1>2. Len(log) \in Nat
    BY <1>1
  <1>3. log' \in Seq(LogTypes) /\ Len(log') = Len(log) + 1
    BY <1>1
  <1>4. \A k \in 1 .. Len(log) : log'[k] = log[k]
    BY <1>1
  <1>5. log'[Len(log) + 1] = [at |-> now, good |-> good]
    BY <1>1
  <1>6. 1 .. (Len(log) + 1) = (1 .. Len(log)) \cup {Len(log) + 1}
    BY <1>2
  <1> QED
    BY <1>3, <1>4, <1>5, <1>6 DEF Packets

-----------------------------------------------------------------------------
(* The clock.                                                               *)

LEMMA CntTypes ==
  ASSUME TypeOK
  PROVE  /\ Cnt \in Nat /\ Cnt < Wrap
         /\ (now + 1) % Wrap = IF Cnt = Wrap - 1 THEN 0 ELSE Cnt + 1
  <1>1. now \in Nat /\ Wrap \in Nat /\ Wrap >= 2
    BY Types, Parameters
  <1>2. now % Wrap \in 0 .. Wrap - 1
    BY <1>1, Turn
  <1>3. (now + 1) % Wrap = IF now % Wrap = Wrap - 1 THEN 0 ELSE (now % Wrap) + 1
    BY <1>1, CountStep
  <1> QED
    BY <1>1, <1>2, <1>3 DEF Cnt

\* The loop runs only while no interrupt is pending.
LEMMA RunsUndisturbed ==
  ASSUME TypeOK, Runs
  PROVE  ~tim.uif /\ ~tim.cc3if /\ isr = "idle" /\ line = <<>>
  BY Types DEF Runs, IsrPending

LEMMA ClockTicks ==
  ASSUME TypeOK, Clock, Edge, Tick
  PROVE  Clock'
  <1> DEFINE c == Cnt  d == (now + 1) % Wrap
  <1>1. c \in Nat /\ c < Wrap /\ d = IF c = Wrap - 1 THEN 0 ELSE c + 1
    BY CntTypes
  <1>2. /\ Cnt' = d /\ now' = now + 1 /\ cap' = cap /\ isr' = isr
        /\ tim'.uif <=> (tim.uif \/ d = 0)
    BY DEF Tick, Cnt, TypeOK
  <1>3. /\ now \in Nat /\ late \in Nat /\ late <= MaxLate /\ tim.uif \in BOOLEAN
        /\ cap.wraps \in Nat
    BY Types
  <1>4. cap.wraps * Wrap \in Int
    BY <1>3, Parameters
  <1> DEFINE n == cap.wraps * Wrap
  <1>5. /\ now = n + c + (IF tim.uif THEN Wrap ELSE 0)
        /\ tim.uif => c <= late \/ c < late + MaxLate
        /\ tim.uif /\ isr = "capture" => c < late
    BY DEF Clock
  <1>6. isr = "capture" => IsrPending
    BY DEF IsrPending
  <1>7. /\ IsrPending => late < MaxLate /\ late' = late + 1
        /\ late' \in Nat
        /\ tim.uif => IsrPending
    BY <1>3 DEF Tick, IsrPending
  <1> HIDE DEF c, d, n
  <1>8. CASE tim.uif
    <2>1. c < Wrap - 1
      <3>1. late < MaxLate /\ (c <= late \/ c < late + MaxLate)
        BY <1>5, <1>7, <1>8
      <3>2. MaxLate \in Nat /\ Half \in Nat /\ Wrap \in Nat
            /\ MaxLate + MaxLate <= Half /\ Half < Wrap
        BY Parameters
      <3> QED
        BY ONLY <1>1, <1>3, <3>1, <3>2
    <2>2. d = c + 1 /\ tim'.uif
      BY <1>1, <1>2, <1>8, <2>1
    <2>3. now' = n + d + (IF tim'.uif THEN Wrap ELSE 0)
      BY <1>1, <1>2, <1>4, <1>5, <1>8, <2>2, Parameters DEF n
    <2>4. /\ d <= late' \/ d < late' + MaxLate
          /\ isr = "capture" => d < late'
      BY <1>1, <1>3, <1>5, <1>7, <1>8, <2>2, Parameters
    <2> QED
      BY <1>2, <2>2, <2>3, <2>4 DEF Clock, n
  <1>9. CASE ~tim.uif
    <2>1. now' = n + d + (IF tim'.uif THEN Wrap ELSE 0)
      <3>1. tim'.uif <=> d = 0
        BY <1>2, <1>9
      <3>2. now = n + c
        <4>1. n + c \in Int
          BY <1>1, <1>4 DEF n
        <4> QED
          BY <1>5, <1>9, <4>1
      <3>3. now' = now + 1
        BY <1>2
      <3>4. n \in Int /\ Wrap \in Nat
        BY <1>4, Parameters DEF n
      <3> QED
        BY ONLY <1>1, <3>1, <3>2, <3>3, <3>4
    <2>2. /\ tim'.uif => d <= late'
          /\ tim'.uif /\ isr = "capture" => d < late'
      BY <1>1, <1>2, <1>3, <1>6, <1>7, <1>9
    <2> QED
      BY <1>2, <2>1, <2>2 DEF Clock, n
  <1> QED
    BY <1>3, <1>8, <1>9

LEMMA ClockEnters ==
  ASSUME TypeOK, Clock, IsrEnter
  PROVE  Clock'
  <1>1. /\ now' = now /\ Cnt' = Cnt /\ ~tim'.uif
        /\ cap'.wraps = IF tim.uif THEN cap.wraps + 1 ELSE cap.wraps
    BY DEF IsrEnter, Cnt, TypeOK
  <1>2. cap.wraps \in Nat /\ Wrap \in Nat /\ now \in Nat /\ Cnt \in Nat
    BY Types, Parameters, CntTypes
  <1>3. (cap.wraps + 1) * Wrap = cap.wraps * Wrap + Wrap /\ cap.wraps * Wrap \in Nat
    BY <1>2
  <1>4. now' = cap'.wraps * Wrap + Cnt'
    <2>1. CASE tim.uif
      BY <1>1, <1>2, <1>3, <2>1 DEF Clock
    <2>2. CASE ~tim.uif
      BY <1>1, <1>2, <1>3, <2>2 DEF Clock
    <2> QED
      BY <2>1, <2>2
  <1>5. cap'.wraps * Wrap + Cnt' \in Nat
    BY <1>1, <1>2, <1>4
  <1> QED
    BY <1>1, <1>4, <1>5 DEF Clock

LEMMA ClockCaptures ==
  ASSUME TypeOK, Clock, Edge, IsrCapture
  PROVE  Clock'
  <1>1. /\ now' = now /\ Cnt' = Cnt /\ (tim'.uif <=> tim.uif) /\ cap'.wraps = cap.wraps
        /\ isr = "capture" /\ isr' = "idle" /\ late' = 0
    BY DEF IsrCapture, Cnt, TypeOK
  <1>2. late \in Nat /\ late <= MaxLate /\ MaxLate \in Nat /\ Cnt \in Nat
    BY Types, Parameters, CntTypes
  <1>3. now' = cap'.wraps * Wrap + Cnt' + (IF tim'.uif THEN Wrap ELSE 0)
    <2>1. CASE tim.uif
      BY <1>1, <2>1 DEF Clock
    <2>2. CASE ~tim.uif
      BY <1>1, <2>2 DEF Clock
    <2> QED
      BY <2>1, <2>2
  <1>4. tim'.uif => Cnt' < late' + MaxLate
    BY <1>1, <1>2 DEF Clock
  <1> QED
    BY <1>1, <1>3, <1>4 DEF Clock

LEMMA ClockStays ==
  ASSUME TypeOK, Clock, now' = now, late' = late, isr' = isr, cap' = cap,
         tim'.uif <=> tim.uif
  PROVE  Clock'
  <1>1. Cnt' = Cnt
    BY DEF Cnt
  <1>2. CASE tim.uif
    BY <1>1, <1>2 DEF Clock
  <1>3. CASE ~tim.uif
    BY <1>1, <1>3 DEF Clock
  <1> QED
    BY <1>2, <1>3

LEMMA StepClock == TypeOK /\ Clock /\ Edge /\ [Next]_vars => Clock'
  <1> SUFFICES ASSUME TypeOK, Clock, Edge, [Next]_vars PROVE Clock'
    OBVIOUS
  <1>0. tim \in [ccr : 0 .. Wrap - 1, cc3if : BOOLEAN, cc3of : BOOLEAN, uif : BOOLEAN]
    BY DEF TypeOK
  <1>1. CASE Tick
    BY <1>1, ClockTicks
  <1>2. CASE IsrEnter
    BY <1>2, ClockEnters
  <1>3. CASE IsrCapture
    BY <1>3, ClockCaptures
  <1>4. ASSUME NEW good \in BOOLEAN, Complete(good) PROVE Clock'
    <2>1. /\ now' = now /\ late' = late /\ isr' = isr /\ cap' = cap
          /\ tim'.uif <=> tim.uif
      BY <1>0, <1>4 DEF Complete
    <2> QED
      BY <2>1, ClockStays
  <1>5. CASE Arm
    <2>1. /\ now' = now /\ late' = late /\ isr' = isr /\ cap' = cap
          /\ tim'.uif <=> tim.uif
      BY <1>0, <1>5 DEF Arm, ArmTimer, airVars
    <2> QED
      BY <2>1, ClockStays
  <1>6. CASE \/ Poll \/ Identify \/ Count \/ Baseline \/ Clear \/ StartRx \/ Issue \/ Deliver
             \/ Leave \/ ResetStats \/ Lose \/ HandleEvent \/ UNCHANGED vars
    <2>1. now' = now /\ late' = late /\ isr' = isr /\ cap' = cap /\ tim' = tim
      BY <1>6 DEF Poll, Identify, Count, Baseline, Clear, StartRx, Issue, Deliver, Leave,
                  ResetStats, Lose, HandleEvent, airVars, vars
    <2> QED
      BY <2>1, ClockStays
  <1> QED
    BY <1>1, <1>2, <1>3, <1>4, <1>5, <1>6 DEF Next, Isr, MainLoop

\* What ticks64 reads is the time, whether the overflow is pending or counted.
LEMMA Ticks64IsNow ==
  ASSUME TypeOK, Clock
  PROVE  Ticks64 = now
  <1>1. /\ cap.wraps \in Nat /\ Wrap \in Nat /\ Cnt \in Nat /\ late \in Nat
        /\ late <= MaxLate /\ MaxLate \in Nat /\ Half \in Nat
        /\ MaxLate + MaxLate <= Half /\ MaxLate < Half
    BY Types, Parameters, CntTypes
  <1>2. CASE tim.uif
    <2>1. Cnt < Half
      BY <1>1, <1>2 DEF Clock
    <2>2. (cap.wraps + 1) * Wrap = cap.wraps * Wrap + Wrap /\ cap.wraps * Wrap \in Nat
      BY <1>1
    <2>3. now = cap.wraps * Wrap + Cnt + Wrap
      BY <1>2 DEF Clock
    <2> QED
      BY <1>1, <1>2, <2>1, <2>2, <2>3 DEF Ticks64, Extend
  <1>3. CASE ~tim.uif
    <2>1. cap.wraps * Wrap \in Nat
      BY <1>1
    <2>2. now = cap.wraps * Wrap + Cnt
      BY <1>1, <1>3, <2>1 DEF Clock
    <2> QED
      BY <1>3, <2>2 DEF Ticks64, Extend
  <1> QED
    BY <1>2, <1>3

-----------------------------------------------------------------------------
(* The edge.                                                                *)

LEMMA OpenTypes ==
  ASSUME TypeOK, NEW k \in Open
  PROVE  k \in Packets /\ k > hist.open
  BY DEF Open

\* The interrupt dates a latched edge to the completion of its packet.
LEMMA CaptureIsInstant ==
  ASSUME TypeOK, Clock, Edge, tim.cc3if
  PROVE  /\ Latency(tim.ccr) \in 0 .. MaxLate
         /\ Ticks64 - Latency(tim.ccr) \in Nat
         /\ \E k \in Open : Ticks64 - Latency(tim.ccr) = log[k].at
  <1>1. PICK k \in Open : /\ tim.ccr = log[k].at % Wrap
                          /\ log[k].at <= now /\ now <= log[k].at + late
    BY DEF Edge
  <1> DEFINE a == log[k].at
  <1>2. a \in Nat
    BY OpenTypes, PacketTypes
  <1>3. /\ now \in Nat /\ late \in Nat /\ late <= MaxLate /\ MaxLate \in Nat
        /\ MaxLate < Half /\ Half \in Nat /\ Half < Wrap /\ Wrap \in Nat /\ Wrap >= 2
    BY Types, Parameters
  <1>4. a <= now /\ now < a + Wrap /\ now - a <= MaxLate /\ tim.ccr = a % Wrap
    BY <1>1, <1>2, <1>3
  <1> HIDE DEF a
  <1>5. ((now % Wrap) - (a % Wrap)) % Wrap = now - a
    BY <1>2, <1>3, <1>4, CountDifference
  <1>6. Latency(tim.ccr) = now - a
    BY <1>4, <1>5 DEF Latency, Cnt
  <1>7. Ticks64 - Latency(tim.ccr) = a
    BY <1>2, <1>3, <1>6, Ticks64IsNow
  <1> QED
    BY <1>2, <1>3, <1>4, <1>6, <1>7 DEF a

LEMMA OpenStays ==
  ASSUME log' = log, hist'.open = hist.open
  PROVE  Open' = Open
  BY DEF Open, Packets

LEMMA OpenGrows ==
  ASSUME TypeOK, NEW good \in BOOLEAN, log' = Append(log, [at |-> now, good |-> good]),
         hist' = hist
  PROVE  /\ Open' = Open \cup {Len(log) + 1}
         /\ \A k \in Open : log'[k] = log[k]
         /\ log'[Len(log) + 1].at = now /\ log'[Len(log) + 1].good = good
  <1>1. /\ Packets' = Packets \cup {Len(log) + 1}
        /\ \A k \in Packets : log'[k] = log[k]
        /\ log'[Len(log) + 1] = [at |-> now, good |-> good]
    BY PacketAdded
  <1>2. Len(log) + 1 > hist.open
    BY Types
  <1>3. Open' = {k \in Packets \cup {Len(log) + 1} : k > hist.open}
    BY <1>1 DEF Open
  <1>4. Open' = Open \cup {Len(log) + 1}
    BY <1>2, <1>3, Zenon DEF Open
  <1>5. \A k \in Open : log'[k] = log[k]
    BY <1>1 DEF Open
  <1>6. log'[Len(log) + 1].at = now /\ log'[Len(log) + 1].good = good
    BY <1>1
  <1> QED
    BY <1>4, <1>5, <1>6

\* A step that leaves the timer, its interrupt and the edge's packets alone.
LEMMA EdgeStays ==
  ASSUME TypeOK, Edge, now' = now, late' = late, log' = log, tim' = tim, isr' = isr,
         cap' = cap, win'.over = win.over, hist'.open = hist.open,
         chip.done => chip'.done
  PROVE  Edge'
  <1>1. Open' = Open
    BY OpenStays
  <1> QED
    BY <1>1 DEF Edge

LEMMA StepEdge == TypeOK /\ Edge /\ [Next]_vars => Edge'
  <1> SUFFICES ASSUME TypeOK, Edge, [Next]_vars PROVE Edge'
    OBVIOUS
  <1>t. /\ tim \in [ccr : 0 .. Wrap - 1, cc3if : BOOLEAN, cc3of : BOOLEAN, uif : BOOLEAN]
        /\ chip \in [rx : BOOLEAN, done : BOOLEAN, crc : BOOLEAN, last : Nat, count : Nat]
        /\ win \in [edges : Nat, over : Nat, base : Nat, next : Nat, dirty : BOOLEAN]
        /\ hist \in [mark : 0 .. Len(log), open : 0 .. Len(log), reset : BOOLEAN]
        /\ cap \in [wraps : Nat, captures : Nat, over : Nat, ticks : Nat, lat : 0 .. MaxLate]
    BY DEF TypeOK
  <1>1. CASE Tick
    <2>1. /\ log' = log /\ isr' = isr /\ cap' = cap /\ win' = win /\ hist' = hist
          /\ chip' = chip /\ now' = now + 1
          /\ (tim'.cc3if <=> tim.cc3if) /\ (tim'.cc3of <=> tim.cc3of) /\ tim'.ccr = tim.ccr
          /\ tim.cc3if => late' = late + 1
      BY <1>t, <1>1 DEF Tick, IsrPending, nodeVars
    <2>2. Open' = Open
      BY <2>1, OpenStays
    <2>3. ASSUME tim.cc3if
          PROVE  \E k \in Open : /\ tim.ccr = log[k].at % Wrap
                                 /\ log[k].at <= now + 1 /\ now + 1 <= log[k].at + late'
      <3>1. PICK k \in Open : /\ tim.ccr = log[k].at % Wrap
                              /\ log[k].at <= now /\ now <= log[k].at + late
        BY <2>3 DEF Edge
      <3>2. log[k].at \in Nat /\ now \in Nat /\ late \in Nat /\ late' = late + 1
        BY <2>1, <2>3, Types, OpenTypes, PacketTypes
      <3>3. log[k].at <= now + 1 /\ now + 1 <= log[k].at + late'
        BY <3>1, <3>2
      <3> QED
        BY <3>1, <3>3
    <2> QED
      BY <2>1, <2>2, <2>3 DEF Edge
  <1>2. CASE IsrEnter
    <2>1. /\ log' = log /\ now' = now /\ chip' = chip /\ win' = win /\ hist' = hist
          /\ (tim'.cc3if <=> tim.cc3if) /\ (tim'.cc3of <=> tim.cc3of) /\ tim'.ccr = tim.ccr
          /\ cap'.over = cap.over
          /\ tim.cc3if => late' = late
          /\ isr' = "capture" => tim.cc3if
      BY <1>t, <1>2 DEF IsrEnter, nodeVars
    <2>2. Open' = Open
      BY <2>1, OpenStays
    <2> QED
      BY <2>1, <2>2 DEF Edge
  <1>3. CASE IsrCapture
    <2>1. /\ win' = win /\ isr' = "idle"
          /\ ~tim'.cc3if /\ ~tim'.cc3of
          /\ ~tim.cc3of => cap'.over = cap.over
      BY <1>t, <1>3 DEF IsrCapture, nodeVars
    <2> QED
      BY <2>1 DEF Edge
  <1>4. ASSUME NEW good \in BOOLEAN, Complete(good) PROVE Edge'
    <2>1. /\ log' = Append(log, [at |-> now, good |-> good]) /\ hist' = hist /\ win' = win
          /\ now' = now /\ late' = late /\ isr' = isr /\ cap' = cap /\ chip'.done
      BY <1>t, <1>4 DEF Complete, nodeVars
    <2>2. /\ Open' = Open \cup {Len(log) + 1}
          /\ \A k \in Open : log'[k] = log[k]
          /\ log'[Len(log) + 1].at = now
      BY <2>1, OpenGrows
    <2>3. CASE chip.done
      <3>1. tim' = tim
        BY <1>4, <2>3 DEF Complete
      <3> QED
        BY <2>1, <2>2, <3>1 DEF Edge
    <2>4. CASE ~chip.done
      <3>1. ~tim.cc3if /\ isr # "capture"
        BY <2>4 DEF Edge
      <3>2. tim'.ccr = Cnt /\ ~tim'.cc3of
        BY <1>t, <1>4, <2>4, <3>1 DEF Complete, Edge
      <3>3. now \in Nat /\ late \in Nat
        BY Types
      <3>4. /\ tim'.ccr = log'[Len(log) + 1].at % Wrap
            /\ log'[Len(log) + 1].at <= now' /\ now' <= log'[Len(log) + 1].at + late'
        BY <2>1, <2>2, <3>2, <3>3 DEF Cnt
      <3> QED
        BY <2>1, <2>2, <3>1, <3>2, <3>4 DEF Edge
    <2> QED
      BY <2>3, <2>4
  <1>5. CASE Clear
    <2>1. ~tim.cc3if /\ isr = "idle"
      BY <1>5, RunsUndisturbed DEF Clear, Loop
    <2>2. tim' = tim /\ isr' = isr /\ cap' = cap /\ win'.over = win.over
      BY <1>t, <1>5 DEF Clear
    <2> QED
      BY <2>1, <2>2 DEF Edge
  <1>6. CASE Arm
    <2>1. isr = "idle"
      BY <1>6, RunsUndisturbed DEF Arm, Loop
    <2>2. ~tim'.cc3if /\ ~tim'.cc3of /\ isr' = isr /\ cap' = cap /\ win'.over = cap.over
      BY <1>t, <1>6 DEF Arm, ArmTimer
    <2> QED
      BY <2>1, <2>2 DEF Edge
  <1>7. CASE \/ Poll \/ Identify \/ Count \/ Baseline \/ StartRx \/ Issue \/ Deliver
             \/ Leave \/ ResetStats \/ Lose \/ HandleEvent \/ UNCHANGED vars
    <2>1. /\ now' = now /\ late' = late /\ log' = log /\ tim' = tim /\ isr' = isr
          /\ cap' = cap
      BY <1>7 DEF Poll, Identify, Count, Baseline, StartRx, Issue, Deliver, Leave,
                  ResetStats, Lose, HandleEvent, airVars, vars
    <2>2. win'.over = win.over /\ hist'.open = hist.open /\ (chip.done => chip'.done)
      BY <1>t, <1>7 DEF Poll, Identify, Count, Baseline, StartRx, Issue, Deliver, Leave,
                  ResetStats, Lose, HandleEvent, ResetWindow, nodeVars, vars
    <2> QED
      BY <2>1, <2>2, EdgeStays
  <1> QED
    BY <1>1, <1>2, <1>3, <1>4, <1>5, <1>6, <1>7 DEF Next, Isr, MainLoop

-----------------------------------------------------------------------------
(* The window.                                                              *)

LEMMA Records ==
  ASSUME TypeOK
  PROVE  /\ tim \in [ccr : 0 .. Wrap - 1, cc3if : BOOLEAN, cc3of : BOOLEAN, uif : BOOLEAN]
         /\ chip \in [rx : BOOLEAN, done : BOOLEAN, crc : BOOLEAN, last : Nat, count : Nat]
         /\ win \in [edges : Nat, over : Nat, base : Nat, next : Nat, dirty : BOOLEAN]
         /\ hist \in [mark : 0 .. Len(log), open : 0 .. Len(log), reset : BOOLEAN]
         /\ cap \in [wraps : Nat, captures : Nat, over : Nat, ticks : Nat, lat : 0 .. MaxLate]
         /\ pkt \in [crc : BOOLEAN, id : 0 .. Len(log), ts : Stamps, clean : BOOLEAN]
         /\ budget \in [resets : 0 .. MaxResets, leaves : 0 .. MaxLeaves,
                        losses : 0 .. MaxLost]
  BY DEF TypeOK

LEMMA CapturedStays ==
  ASSUME Captured, log' = log, hist'.open = hist.open, win'.edges = win.edges,
         cap'.captures = cap.captures, cap'.ticks = cap.ticks
  PROVE  Captured'
  <1>1. Open' = Open
    BY OpenStays
  <1> QED
    BY <1>1 DEF Captured

LEMMA StepCaptured ==
  TypeOK /\ Clock /\ Edge /\ Captured /\ [Next]_vars => Captured'
  <1> SUFFICES ASSUME TypeOK, Clock, Edge, Captured, [Next]_vars PROVE Captured'
    OBVIOUS
  <1>t. /\ win.edges \in Nat /\ cap.captures \in Nat
        /\ win \in [edges : Nat, over : Nat, base : Nat, next : Nat, dirty : BOOLEAN]
        /\ hist \in [mark : 0 .. Len(log), open : 0 .. Len(log), reset : BOOLEAN]
        /\ cap \in [wraps : Nat, captures : Nat, over : Nat, ticks : Nat, lat : 0 .. MaxLate]
    BY Types, Records
  <1>1. CASE IsrCapture
    <2>1. \E k \in Open : Ticks64 - Latency(tim.ccr) = log[k].at
      BY <1>1, CaptureIsInstant DEF IsrCapture, Edge
    <2>2. /\ cap'.captures = cap.captures + 1 /\ cap'.ticks = Ticks64 - Latency(tim.ccr)
          /\ log' = log /\ hist' = hist /\ win' = win
      BY <1>t, <1>1 DEF IsrCapture, nodeVars
    <2>3. Open' = Open
      BY <2>2, OpenStays
    <2>4. win'.edges <= cap'.captures
      BY <1>t, <2>2 DEF Captured
    <2> QED
      BY <2>1, <2>2, <2>3, <2>4 DEF Captured
  <1>2. ASSUME NEW good \in BOOLEAN, Complete(good) PROVE Captured'
    <2>1. /\ log' = Append(log, [at |-> now, good |-> good]) /\ hist' = hist
          /\ win' = win /\ cap' = cap
      BY <1>2 DEF Complete, nodeVars
    <2>2. /\ Open' = Open \cup {Len(log) + 1}
          /\ \A k \in Open : log'[k] = log[k]
      BY <2>1, OpenGrows
    <2> QED
      BY <2>1, <2>2 DEF Captured
  <1>3. CASE Arm
    <2>1. win'.edges = cap.captures /\ cap' = cap
      BY <1>t, <1>3 DEF Arm, ArmTimer
    <2> QED
      BY <1>t, <2>1 DEF Captured
  <1>4. CASE \/ Tick \/ IsrEnter \/ Poll \/ Identify \/ Count \/ Baseline \/ Clear \/ StartRx
             \/ Issue \/ Deliver \/ Leave \/ ResetStats \/ Lose \/ HandleEvent
             \/ UNCHANGED vars
    <2>1. log' = log
      BY <1>4 DEF Tick, IsrEnter, Poll, Identify, Count, Baseline, Clear, StartRx, Issue,
                  Deliver, Leave, ResetStats, Lose, HandleEvent, airVars, vars
    <2>2. cap'.captures = cap.captures /\ cap'.ticks = cap.ticks
      BY <1>t, <1>4 DEF Tick, IsrEnter, Poll, Identify, Count, Baseline, Clear, StartRx,
                  Issue, Deliver, Leave, ResetStats, Lose, HandleEvent, vars
    <2>3. win'.edges = win.edges /\ hist'.open = hist.open
      BY <1>t, <1>4 DEF Tick, IsrEnter, Poll, Identify, Count, Baseline, Clear, StartRx,
                  Issue, Deliver, Leave, ResetStats, ResetWindow, Lose, HandleEvent,
                  nodeVars, vars
    <2> QED
      BY <2>1, <2>2, <2>3, CapturedStays
  <1> QED
    BY <1>1, <1>2, <1>3, <1>4 DEF Next, Isr, MainLoop

LEMMA StepCounted == TypeOK /\ Counted /\ [Next]_vars => Counted'
  <1> SUFFICES ASSUME TypeOK, Counted, [Next]_vars PROVE Counted'
    OBVIOUS
  <1>t. /\ chip \in [rx : BOOLEAN, done : BOOLEAN, crc : BOOLEAN, last : Nat, count : Nat]
        /\ win \in [edges : Nat, over : Nat, base : Nat, next : Nat, dirty : BOOLEAN]
        /\ hist \in [mark : 0 .. Len(log), open : 0 .. Len(log), reset : BOOLEAN]
        /\ Len(log) \in Nat /\ hist.mark \in Nat /\ hist.mark <= Len(log)
        /\ chip.count \in Nat /\ win.next \in Nat
    BY Types, Records
  <1>1. ASSUME NEW good \in BOOLEAN, Complete(good) PROVE Counted'
    <2>1. /\ log' = Append(log, [at |-> now, good |-> good]) /\ hist' = hist
          /\ win' = win /\ pc' = pc
      BY <1>1 DEF Complete, nodeVars
    <2>2. PICK n \in IF good THEN {1} ELSE {1, 2} :
            chip' = [chip EXCEPT !.done = TRUE, !.crc = @ \/ ~good,
                                 !.last = Len(log) + 1, !.count = @ + n]
      BY <1>1 DEF Complete
    <2>3. /\ chip'.last = Len(log) + 1 /\ chip'.count = chip.count + n
          /\ n \in {1, 2} /\ (good => n = 1)
      BY <1>t, <2>2
    <2>4. /\ Len(log') = Len(log) + 1 /\ Packets' = Packets \cup {Len(log) + 1}
          /\ \A k \in Packets : log'[k] = log[k]
          /\ log'[Len(log) + 1] = [at |-> now, good |-> good]
      BY <2>1, PacketAdded
    <2>5. ~win.dirty => win.next + (Len(log') - hist.mark) <= chip'.count
      BY <1>t, <2>3, <2>4 DEF Counted
    <2>6. ASSUME ~win.dirty, \A k \in Packets' : k > hist.mark => log'[k].good
          PROVE  chip'.count = win.next + (Len(log') - hist.mark)
      <3>1. \A k \in Packets : k > hist.mark => log[k].good
        BY <2>4, <2>6
      <3>2. good
        BY <1>t, <2>4, <2>6
      <3> QED
        BY <1>t, <2>3, <2>4, <2>6, <3>1, <3>2 DEF Counted
    <2> QED
      BY <2>1, <2>3, <2>4, <2>5, <2>6 DEF Counted
  <1>2. CASE Count \/ Baseline
    <2>1. /\ log' = log /\ chip' = chip /\ pc' = "clear" /\ win'.next = chip.count
          /\ hist'.mark = Len(log)
      BY <1>t, <1>2 DEF Count, Baseline, Loop, airVars, Counted
    <2>2. hist'.reset = win'.dirty
      BY <1>t, <1>2 DEF Count, Baseline, Counted
    <2>3. Packets' = Packets
      BY <2>1 DEF Packets
    <2> QED
      BY <1>t, <2>1, <2>2, <2>3 DEF Counted
  <1>3. CASE Clear
    <2>1. /\ log' = log /\ hist' = hist /\ chip'.last = chip.last /\ chip'.count = chip.count
          /\ win'.next = win.next /\ win'.dirty = win.dirty /\ win'.base = win.next
      BY <1>t, <1>3 DEF Clear, airVars
    <2>2. Packets' = Packets
      BY <2>1 DEF Packets
    <2> QED
      BY <1>t, <2>1, <2>2 DEF Counted
  <1>4. CASE ResetStats
    <2>1. log' = log /\ chip'.last = chip.last /\ win'.dirty = TRUE /\ hist'.reset = TRUE
      BY <1>t, <1>4 DEF ResetStats, ResetWindow, airVars
    <2> QED
      BY <2>1 DEF Counted
  <1>5. CASE \/ Tick \/ IsrEnter \/ IsrCapture \/ Poll \/ Identify \/ Arm \/ StartRx \/ Issue
             \/ Deliver \/ Leave \/ Lose \/ HandleEvent \/ UNCHANGED vars
    <2>1. log' = log
      BY <1>5 DEF Tick, IsrEnter, IsrCapture, Poll, Identify, Arm, StartRx, Issue, Deliver,
                  Leave, Lose, HandleEvent, airVars, vars
    <2>2. chip'.last = chip.last /\ chip'.count = chip.count
      BY <1>t, <1>5 DEF Tick, IsrEnter, IsrCapture, Poll, Identify, Arm, StartRx, Issue,
                  Deliver, Leave, Lose, HandleEvent, vars
    <2>3. /\ win'.next = win.next /\ win'.dirty = win.dirty /\ win'.base = win.base
          /\ hist'.mark = hist.mark /\ hist'.reset = hist.reset
      BY <1>t, <1>5 DEF Tick, IsrEnter, IsrCapture, Poll, Identify, Arm, ArmTimer, StartRx,
                  Issue, Deliver, Leave, Lose, HandleEvent, nodeVars, vars
    <2>4. pc' # "clear" => pc # "clear"
      BY <1>5 DEF Tick, IsrEnter, IsrCapture, Poll, Identify, Arm, StartRx, Issue, Deliver,
                  Loop, Leave, Lose, HandleEvent, nodeVars, vars
    <2>5. Packets' = Packets
      BY <2>1 DEF Packets
    <2> QED
      BY <2>1, <2>2, <2>3, <2>4, <2>5 DEF Counted
  <1> QED
    BY <1>1, <1>2, <1>3, <1>4, <1>5 DEF Next, Isr, MainLoop

\* A step that leaves the window, the edges and the packets alone.
LEMMA WindowStays ==
  ASSUME Window, log' = log, hist'.open = hist.open, hist'.mark = hist.mark,
         chip'.done = chip.done, chip'.crc = chip.crc, tim'.cc3if = tim.cc3if,
         cap'.captures = cap.captures, win'.edges = win.edges,
         pc \notin {"clear", "arm"}, pc' # "arm",
         pc' \in {"ident", "count"} => chip.done
  PROVE  Window'
  <1>1. Open' = Open
    BY OpenStays
  <1> QED
    BY <1>1 DEF Window

LEMMA WindowCompletes ==
  ASSUME TypeOK, Edge, Window, NEW good \in BOOLEAN, Complete(good)
  PROVE  Window'
  <1>1. /\ log' = Append(log, [at |-> now, good |-> good]) /\ hist' = hist
        /\ win' = win /\ pc' = pc /\ cap' = cap
    BY DEF Complete, nodeVars
  <1>2. chip'.done /\ (chip.crc \/ ~good => chip'.crc)
    BY Records DEF Complete
  <1>3. Len(log') = Len(log) + 1
    BY <1>1, PacketAdded
  <1>4. /\ Open' = Open \cup {Len(log) + 1}
        /\ \A k \in Open : log'[k] = log[k]
        /\ log'[Len(log) + 1].good = good
    BY <1>1, OpenGrows
  <1>5. /\ Len(log) \in Nat /\ hist.mark \in Nat /\ hist.mark <= Len(log)
        /\ hist.open \in Nat
    BY Types
  <1>6. pc # "arm" => \A k \in Open' : log'[k].good \/ chip'.crc
    BY <1>2, <1>4 DEF Window
  <1>7. ASSUME pc \notin {"clear", "arm"}, hist.open = hist.mark
        PROVE  cap.captures = IF tim'.cc3if THEN win.edges ELSE win.edges + 1
    <2>1. CASE Len(log) = hist.mark
      <3>1. ~chip.done /\ cap.captures = win.edges
        BY <1>7, <2>1 DEF Window
      <3>2. tim'.cc3if
        BY <3>1, Records DEF Complete
      <3> QED
        BY <3>1, <3>2
    <2>2. CASE Len(log) # hist.mark
      <3>1. chip.done /\ cap.captures = IF tim.cc3if THEN win.edges ELSE win.edges + 1
        BY <1>7, <2>2 DEF Window
      <3>2. tim' = tim
        BY <3>1 DEF Complete
      <3> QED
        BY <3>1, <3>2
    <2> QED
      BY <2>1, <2>2
  <1>8. hist.mark < Len(log')
    BY <1>3, <1>5
  <1>9. Len(log') # hist.mark
    BY <1>3, <1>5
  <1>10. /\ pc \notin {"clear", "arm"} => hist.mark <= hist.open
         /\ pc \in {"ident", "count"} => chip'.done
    BY <1>2 DEF Window
  <1> QED
    BY <1>1, <1>2, <1>6, <1>7, <1>8, <1>9, <1>10 DEF Window

LEMMA StepWindow == TypeOK /\ Edge /\ Window /\ [Next]_vars => Window'
  <1> SUFFICES ASSUME TypeOK, Edge, Window, [Next]_vars PROVE Window'
    OBVIOUS
  <1>t. /\ tim \in [ccr : 0 .. Wrap - 1, cc3if : BOOLEAN, cc3of : BOOLEAN, uif : BOOLEAN]
        /\ chip \in [rx : BOOLEAN, done : BOOLEAN, crc : BOOLEAN, last : Nat, count : Nat]
        /\ win \in [edges : Nat, over : Nat, base : Nat, next : Nat, dirty : BOOLEAN]
        /\ hist \in [mark : 0 .. Len(log), open : 0 .. Len(log), reset : BOOLEAN]
        /\ cap \in [wraps : Nat, captures : Nat, over : Nat, ticks : Nat, lat : 0 .. MaxLate]
        /\ Len(log) \in Nat /\ hist.mark \in Nat /\ hist.mark <= Len(log)
        /\ win.edges \in Nat /\ cap.captures \in Nat
    BY Types, Records
  <1>1. ASSUME NEW good \in BOOLEAN, Complete(good) PROVE Window'
    BY <1>1, WindowCompletes
  <1>2. CASE Tick \/ IsrEnter \/ Lose \/ HandleEvent \/ UNCHANGED vars
    <2>1. /\ log' = log /\ hist' = hist /\ chip' = chip /\ win' = win /\ pc' = pc
      BY <1>2 DEF Tick, IsrEnter, Lose, HandleEvent, airVars, nodeVars, vars
    <2>2. tim'.cc3if = tim.cc3if /\ cap'.captures = cap.captures
      BY <1>t, <1>2 DEF Tick, IsrEnter, Lose, HandleEvent, vars
    <2>3. Open' = Open
      BY <2>1, OpenStays
    <2> QED
      BY <2>1, <2>2, <2>3 DEF Window
  <1>3. CASE IsrCapture
    <2>1. /\ log' = log /\ hist' = hist /\ chip' = chip /\ win' = win /\ pc' = pc
      BY <1>3 DEF IsrCapture, nodeVars
    <2>2. ~tim'.cc3if /\ cap'.captures = cap.captures + 1 /\ tim.cc3if
      BY <1>t, <1>3 DEF IsrCapture, Edge
    <2>3. Open' = Open
      BY <2>1, OpenStays
    <2> QED
      BY <1>t, <2>1, <2>2, <2>3 DEF Window
  <1>4. CASE Count \/ Baseline
    <2>1. log' = log /\ chip' = chip /\ pc' = "clear" /\ hist'.open = hist.open
          /\ pc \in {"count", "base"}
      BY <1>t, <1>4 DEF Count, Baseline, Loop, airVars
    <2>2. Open' = Open
      BY <2>1, OpenStays
    <2> QED
      BY <2>1, <2>2 DEF Window
  <1>5. CASE Clear
    <2>1. ~chip'.done /\ pc' = "arm"
      BY <1>t, <1>5 DEF Clear, Loop
    <2> QED
      BY <2>1 DEF Window
  <1>6. CASE Arm
    <2>1. /\ log' = log /\ chip' = chip /\ cap' = cap /\ pc = "arm"
          /\ pc' \notin {"clear", "arm", "ident", "count"}
          /\ hist'.mark = hist.mark /\ hist'.open = Len(log)
          /\ ~tim'.cc3if /\ win'.edges = cap.captures
      BY <1>t, <1>6 DEF Arm, ArmTimer, Loop, airVars
    <2>2. Open' = {}
      BY <1>t, <2>1 DEF Open, Packets
    <2>3. chip.done => hist.mark < Len(log)
      BY <2>1 DEF Window
    <2> QED
      BY <1>t, <2>1, <2>2, <2>3 DEF Window
  <1>7. CASE Poll \/ Identify \/ StartRx \/ Issue \/ Deliver \/ Leave \/ ResetStats
    <2>1. log' = log /\ tim' = tim /\ cap' = cap
      BY <1>7 DEF Poll, Identify, StartRx, Issue, Deliver, Leave, ResetStats, airVars
    <2>2. /\ chip'.done = chip.done /\ chip'.crc = chip.crc /\ win'.edges = win.edges
          /\ hist'.open = hist.open /\ hist'.mark = hist.mark
      BY <1>t, <1>7 DEF Poll, Identify, StartRx, Issue, Deliver, Leave, ResetStats,
                        ResetWindow
    <2>3. pc \notin {"clear", "arm"}
      BY <1>7 DEF Poll, Identify, StartRx, Issue, Deliver, Leave, ResetStats, Loop
    <2>4. pc' # "arm" /\ (pc' \in {"ident", "count"} => chip.done)
      <3>1. CASE Poll
        BY <3>1 DEF Poll, Loop
      <3>2. CASE Identify
        BY <3>2 DEF Identify, Loop, Window
      <3>3. CASE StartRx \/ Deliver \/ Leave \/ ResetStats
        BY <3>3 DEF StartRx, Deliver, Leave, ResetStats, Loop
      <3>4. CASE Issue
        BY <3>4 DEF Issue, Loop, TypeOK
      <3> QED
        BY <1>7, <3>1, <3>2, <3>3, <3>4
    <2> QED
      BY <2>1, <2>2, <2>3, <2>4, WindowStays
  <1> QED
    BY <1>1, <1>2, <1>3, <1>4, <1>5, <1>6, <1>7 DEF Next, Isr, MainLoop

-----------------------------------------------------------------------------
(* The packet in hand.                                                      *)

LEMMA HandStays ==
  ASSUME Hand, log' = log, pkt' = pkt, pc' = pc, ret' = ret, back' = back,
         hist'.open = hist.open, hist'.mark = hist.mark
  PROVE  Hand'
  <1>1. Open' = Open /\ Packets' = Packets /\ InHand' = InHand /\ Reading' = Reading
    BY OpenStays DEF Packets, InHand, Reading
  <1> QED
    BY <1>1 DEF Hand

LEMMA HandCompletes ==
  ASSUME TypeOK, Hand, NEW good \in BOOLEAN, Complete(good)
  PROVE  Hand'
  <1>1. /\ log' = Append(log, [at |-> now, good |-> good]) /\ hist' = hist
        /\ pc' = pc /\ ret' = ret /\ back' = back /\ pkt' = pkt
    BY DEF Complete, nodeVars
  <1>2. Packets' = Packets \cup {Len(log) + 1} /\ \A k \in Packets : log'[k] = log[k]
    BY <1>1, PacketAdded
  <1>3. Open' = Open \cup {Len(log) + 1} /\ \A k \in Open : log'[k] = log[k]
    BY <1>1, OpenGrows
  <1>4. InHand' = InHand /\ Reading' = Reading
    BY <1>1 DEF InHand, Reading
  <1> QED
    BY <1>1, <1>2, <1>3, <1>4 DEF Hand

\* The window has one edge in it, of one of the window's packets.
LEMMA TakenIsInstant ==
  ASSUME TypeOK, Edge, Captured, Window, TakeStamp # Soft
  PROVE  HwOk /\ \E k \in Open : TakeStamp = log[k].at
  <1>1. /\ HwOk /\ cap.captures - win.edges = 1 /\ TakeStamp = cap.ticks
    BY DEF TakeStamp, Classify
  <1>2. win.edges < cap.captures
    BY <1>1, Types
  <1> QED
    BY <1>1, <1>2 DEF Captured

LEMMA LoneIsTaken ==
  ASSUME TypeOK, Edge, Window, pc = "loop", Runs, chip.done, HwOk, hist.open = hist.mark
  PROVE  TakeStamp # Soft
  <1>1. ~tim.cc3if
    BY RunsUndisturbed
  <1>2. hist.mark < Len(log) /\ Len(log) \in Nat /\ hist.mark \in Nat
    BY Types DEF Window
  <1>3. cap.captures = win.edges + 1
    BY <1>1, <1>2 DEF Window
  <1>4. /\ win.edges \in Nat /\ cap.lat \in Nat /\ cap.lat <= MaxLate /\ MaxLate < Half
        /\ MaxLate \in Nat /\ Half \in Nat /\ cap.ticks \in Nat
    BY Types, Parameters
  <1>5. cap.captures - win.edges = 1 /\ cap.over - win.over = 0 /\ cap.lat <= Half
    BY <1>3, <1>4 DEF Edge
  <1>6. TakeStamp = cap.ticks
    BY <1>5 DEF TakeStamp, Classify
  <1> QED
    BY <1>4, <1>6 DEF Soft

LEMMA HandPolls ==
  ASSUME TypeOK, Edge, Captured, Window, Hand, Poll
  PROVE  Hand'
  <1>1. /\ pc = "loop" /\ pc' = "ident" /\ back' = back /\ hist' = hist /\ log' = log
        /\ Runs /\ chip.done
    BY DEF Poll, Loop, airVars
  <1>2. /\ pkt'.crc = chip.crc /\ pkt'.ts = TakeStamp /\ ~pkt'.clean
    BY DEF Poll, NoPacket
  <1>3. Open' = Open /\ ~InHand' /\ Reading'
    BY <1>1, OpenStays DEF InHand, Reading, Hand
  <1>4. pkt'.ts # Soft =>
          HwOk /\ \E k \in Open : pkt'.ts = log[k].at /\ (pkt'.crc \/ log[k].good)
    <2> SUFFICES ASSUME pkt'.ts # Soft
                 PROVE  HwOk /\ \E k \in Open : pkt'.ts = log[k].at /\ (pkt'.crc \/ log[k].good)
      OBVIOUS
    <2>1. HwOk /\ \E k \in Open : TakeStamp = log[k].at
      BY <1>2, TakenIsInstant
    <2>2. \A k \in Open : log[k].good \/ chip.crc
      BY <1>1 DEF Window
    <2> QED
      BY <1>2, <2>1, <2>2
  <1>5. HwOk /\ hist.open = hist.mark => pkt'.ts # Soft
    BY <1>1, <1>2, LoneIsTaken
  <1> QED
    BY <1>1, <1>2, <1>3, <1>4, <1>5 DEF Hand

LEMMA HandIdentifies ==
  ASSUME TypeOK, Counted, Window, Hand, Identify
  PROVE  Hand'
  <1>1. /\ pc = "ident" /\ pc' = "count" /\ back' = back /\ hist' = hist /\ log' = log
    BY DEF Identify, Loop, airVars
  <1>2. /\ pkt'.id = Len(log) /\ pkt'.ts = pkt.ts /\ pkt'.crc = pkt.crc
        /\ pkt'.clean = pkt.clean
    BY Records DEF Identify, Counted
  <1>3. hist.mark < Len(log) /\ Len(log) \in Nat /\ hist.mark \in Nat
    BY <1>1, Types DEF Window
  <1>4. Len(log) \in Packets
    BY <1>3 DEF Packets
  <1>5. Open' = Open /\ Packets' = Packets /\ Reading /\ Reading'
    BY <1>1, OpenStays DEF Packets, Reading
  <1> QED
    BY <1>1, <1>2, <1>3, <1>4, <1>5 DEF Hand

LEMMA HandCounts ==
  ASSUME TypeOK, Counted, Window, Hand, Count
  PROVE  Hand'
  <1>1. /\ pc = "count" /\ pc' = "clear" /\ ret' = "deliver" /\ back' = back /\ log' = log
        /\ hist'.mark = Len(log)
    BY Records DEF Count, Loop, airVars
  <1>2. /\ pkt'.id = pkt.id /\ pkt'.crc = pkt.crc /\ pkt'.ts = Attribute(pkt.ts, Delta)
        /\ pkt'.clean <=> /\ HwOk /\ ~hist.reset /\ hist.open = hist.mark
                          /\ Len(log) = hist.mark + 1 /\ log[Len(log)].good
    BY Records DEF Count
  <1>3. /\ hist.mark \in Nat /\ hist.open \in Nat /\ Len(log) \in Nat
        /\ win.base \in Nat /\ win.next \in Nat /\ chip.count \in Nat
        /\ pkt.id \in Nat /\ pkt.id <= Len(log)
    BY Types
  <1>4. /\ back = "loop" /\ Reading /\ pkt.id \in Packets /\ hist.mark < pkt.id
        /\ hist.mark <= hist.open
        /\ pkt.ts # Soft => HwOk
    BY <1>1 DEF Hand, Reading, InHand, Window
  <1>5. ASSUME pkt'.ts # Soft
        PROVE  /\ pkt'.ts = pkt.ts /\ pkt'.ts = log[pkt.id].at
               /\ pkt.crc \/ log[pkt.id].good
    <2>1. Delta = 1 /\ pkt'.ts = pkt.ts
      BY <1>2, <1>5 DEF Attribute
    <2>2. ~win.dirty /\ chip.count - win.base = 1
      BY <2>1 DEF Delta
    <2>3. win.next + (Len(log) - hist.mark) <= win.next + 1
      BY <1>1, <1>3, <2>2 DEF Counted
    <2>4. Len(log) = hist.mark + 1 /\ pkt.id = Len(log)
      BY <1>3, <1>4, <2>3
    <2>5. PICK k \in Open : pkt.ts = log[k].at /\ (pkt.crc \/ log[k].good)
      BY <1>4, <1>5, <2>1 DEF Hand
    <2>6. k = pkt.id
      <3>1. k \in Nat /\ k > hist.open /\ k <= Len(log)
        BY OpenTypes, PacketTypes
      <3> QED
        BY <1>3, <1>4, <2>4, <3>1
    <2> QED
      BY <2>1, <2>5, <2>6
  <1>6. pkt'.clean => pkt'.ts # Soft
    <2> SUFFICES ASSUME pkt'.clean PROVE pkt'.ts # Soft
      OBVIOUS
    <2>1. /\ HwOk /\ ~hist.reset /\ hist.open = hist.mark
          /\ Len(log) = hist.mark + 1 /\ log[Len(log)].good
      BY <1>2
    <2>2. pkt.ts # Soft
      BY <1>4, <2>1 DEF Hand
    <2>3. ~win.dirty /\ win.base = win.next
      BY <1>1, <2>1 DEF Counted
    <2>4. \A k \in Packets : k > hist.mark => log[k].good
      BY <1>3, <2>1 DEF Packets
    <2>5. chip.count = win.next + 1
      BY <1>3, <2>1, <2>3, <2>4 DEF Counted
    <2>6. Delta = 1
      BY <1>3, <2>3, <2>5 DEF Delta
    <2> QED
      BY <1>2, <2>2, <2>6 DEF Attribute
  <1>7. /\ ~Reading' /\ Packets' = Packets
    BY <1>1 DEF Reading, Packets
  <1>8. pkt'.ts # Soft => HwOk
    BY <1>4, <1>5
  <1> QED
    BY <1>1, <1>2, <1>3, <1>4, <1>5, <1>6, <1>7, <1>8 DEF Hand

LEMMA StepHand ==
  TypeOK /\ Edge /\ Captured /\ Counted /\ Window /\ Hand /\ [Next]_vars => Hand'
  <1> SUFFICES ASSUME TypeOK, Edge, Captured, Counted, Window, Hand, [Next]_vars
               PROVE  Hand'
    OBVIOUS
  <1>t. /\ hist \in [mark : 0 .. Len(log), open : 0 .. Len(log), reset : BOOLEAN]
        /\ Len(log) \in Nat /\ hist.mark \in Nat /\ hist.mark <= Len(log)
        /\ pkt.id \in Nat /\ pkt.id <= Len(log)
        /\ ret \in {"deliver", "off", "on"} /\ back \in {"loop", "deliver"}
    BY Types, Records DEF TypeOK
  <1>1. ASSUME NEW good \in BOOLEAN, Complete(good) PROVE Hand'
    BY <1>1, HandCompletes
  <1>2. CASE \/ Tick \/ IsrEnter \/ IsrCapture \/ ResetStats \/ Lose \/ HandleEvent
             \/ UNCHANGED vars
    <2>1. /\ log' = log /\ pkt' = pkt /\ pc' = pc /\ ret' = ret /\ back' = back
          /\ hist'.open = hist.open /\ hist'.mark = hist.mark
      BY <1>t, <1>2 DEF Tick, IsrEnter, IsrCapture, ResetStats, Lose, HandleEvent, airVars,
                        nodeVars, vars
    <2> QED
      BY <2>1, HandStays
  <1>3. CASE Poll
    BY <1>3, HandPolls
  <1>4. CASE Identify
    BY <1>4, HandIdentifies
  <1>5. CASE Count
    BY <1>5, HandCounts
  <1>6. CASE Deliver
    <2>1. pkt' = NoPacket /\ pc' = "loop" /\ back' = "loop"
      BY <1>6 DEF Deliver, Loop, Hand
    <2> QED
      BY <2>1 DEF Hand, NoPacket, InHand, Reading
  <1>7. CASE Baseline \/ Clear \/ Arm \/ StartRx \/ Issue \/ Leave
    <2>1. log' = log /\ pkt' = pkt /\ Packets' = Packets
      BY <1>7 DEF Baseline, Clear, Arm, StartRx, Issue, Leave, airVars, Packets
    <2>2. ~Reading /\ ~Reading'
      BY <1>t, <1>7 DEF Baseline, Clear, Arm, StartRx, Issue, Leave, Loop, Reading
    <2>3. /\ pc' \in {"loop", "deliver"} => back' = "loop"
          /\ pc' \in {"clear", "arm"} /\ ret' = "deliver" => back' = "loop"
          /\ pc' = "base" => ret' # "deliver"
      BY <1>t, <1>7 DEF Baseline, Clear, Arm, StartRx, Issue, Leave, Loop, Hand
    <2>4. InHand' => InHand
      BY <1>t, <1>7 DEF Baseline, Clear, Arm, StartRx, Issue, Leave, Loop, InHand, Hand
    <2>5. hist.mark <= hist'.mark /\ hist'.mark \in Nat
      BY <1>t, <1>7 DEF Baseline, Clear, Arm, StartRx, Issue, Leave
    <2>6. InHand' => pkt.id <= hist'.mark
      BY <1>t, <2>2, <2>4, <2>5 DEF Hand, Reading
    <2> QED
      BY <2>1, <2>2, <2>3, <2>4, <2>5, <2>6 DEF Hand, Reading
  <1> QED
    BY <1>1, <1>2, <1>3, <1>4, <1>5, <1>6, <1>7 DEF Next, Isr, MainLoop

-----------------------------------------------------------------------------
(* What was written.                                                        *)

LEMMA SentTypes ==
  ASSUME TypeOK
  PROVE  /\ Len(sent) \in Nat
         /\ \A i \in 1 .. Len(sent) : sent[i] \in Packets /\ sent[i] \in Nat
         /\ sent # <<>> => Len(sent) \in 1 .. Len(sent)
  <1>1. sent \in Seq(Packets)
    BY DEF TypeOK
  <1>2. Len(sent) \in Nat /\ \A i \in 1 .. Len(sent) : sent[i] \in Packets
    BY <1>1
  <1>3. sent # <<>> => Len(sent) \in 1 .. Len(sent)
    BY <1>1
  <1> QED
    BY <1>2, <1>3, PacketTypes

LEMMA SentMore ==
  ASSUME TypeOK, NEW id \in Packets, sent' = Append(sent, id)
  PROVE  /\ Len(sent') = Len(sent) + 1 /\ sent' # <<>> /\ Len(sent) \in Nat
         /\ \A i \in 1 .. Len(sent) : sent'[i] = sent[i]
         /\ sent'[Len(sent) + 1] = id
  <1>1. sent \in Seq(Packets)
    BY DEF TypeOK
  <1> QED
    BY <1>1

\* The two things a delivery may do.
LEMMA DeliverMoves ==
  ASSUME Deliver
  PROVE  \/ sent' = sent /\ line' = line
         \/ /\ ~pkt.crc /\ sent' = Append(sent, pkt.id)
            /\ line' = line
                 \o (IF NoteNeeded THEN <<[typ |-> "note", id |-> pkt.id, ts |-> Soft,
                                           clean |-> FALSE]>> ELSE <<>>)
                 \o <<[typ |-> "frame", id |-> pkt.id, ts |-> OnWire(pkt.ts),
                        clean |-> pkt.clean]>>
  BY DEF Deliver, Reported

LEMMA StepWritten == 
  TypeOK /\ Counted /\ Window /\ Hand /\ Written /\ [Next]_vars => Written'
  <1> SUFFICES ASSUME TypeOK, Counted, Window, Hand, Written, [Next]_vars PROVE Written'
    OBVIOUS
  <1>t. /\ hist \in [mark : 0 .. Len(log), open : 0 .. Len(log), reset : BOOLEAN]
        /\ Len(log) \in Nat /\ hist.mark \in Nat /\ hist.mark <= Len(log)
        /\ pkt \in [crc : BOOLEAN, id : 0 .. Len(log), ts : Stamps, clean : BOOLEAN]
        /\ pkt.id \in Nat
        /\ ret \in {"deliver", "off", "on"} /\ back \in {"loop", "deliver"}
    BY Types, Records DEF TypeOK
  <1>s. Len(sent) \in Nat /\ \A i \in 1 .. Len(sent) : sent[i] \in Nat
    BY SentTypes
  <1>1. CASE Deliver /\ sent' # sent
    <2>1. pc = "deliver" /\ pc' = "loop" /\ back' = "loop" /\ hist' = hist
      BY <1>1 DEF Deliver, Loop, Hand
    <2>2. InHand /\ ~InHand'
      BY <2>1 DEF InHand
    <2>3. pkt.id \in Packets /\ pkt.id <= hist.mark /\ sent' = Append(sent, pkt.id)
      BY <1>1, <2>1, <2>2, DeliverMoves DEF Hand
    <2>4. /\ Len(sent') = Len(sent) + 1
          /\ \A i \in 1 .. Len(sent) : sent'[i] = sent[i]
          /\ sent'[Len(sent) + 1] = pkt.id
      BY <2>3, SentMore
    <2>5. \A i \in 1 .. Len(sent) : sent[i] <= hist.mark /\ sent[i] < pkt.id
      BY <2>2 DEF Written
    <2>6. \A i \in 1 .. Len(sent') : i \in 1 .. Len(sent) \/ i = Len(sent) + 1
      BY <1>s, <2>4
    <2>7. \A i \in 1 .. Len(sent') : sent'[i] <= hist.mark
      BY <2>3, <2>4, <2>5, <2>6
    <2>8. ReportedOnce'
      <3> SUFFICES ASSUME NEW i \in 1 .. Len(sent'), NEW j \in 1 .. Len(sent'),
                          sent'[i] = sent'[j]
                   PROVE  i = j
        BY DEF ReportedOnce
      <3>1. CASE i \in 1 .. Len(sent) /\ j \in 1 .. Len(sent)
        BY <2>4, <3>1 DEF Written, ReportedOnce
      <3>2. CASE i = Len(sent) + 1 /\ j \in 1 .. Len(sent)
        <4>1. sent[j] = pkt.id /\ sent[j] < pkt.id
          BY <2>4, <2>5, <3>2
        <4> QED
          BY <1>t, <4>1
      <3>3. CASE i \in 1 .. Len(sent) /\ j = Len(sent) + 1
        <4>1. sent[i] = pkt.id /\ sent[i] < pkt.id
          BY <2>4, <2>5, <3>3
        <4> QED
          BY <1>t, <4>1
      <3> QED
        BY <2>6, <3>1, <3>2, <3>3
    <2> QED
      BY <2>1, <2>2, <2>7, <2>8 DEF Written
  <1>2. CASE sent' = sent
    <2>1. ReportedOnce'
      BY <1>2 DEF Written, ReportedOnce
    <2>2. hist.mark <= hist'.mark /\ hist'.mark \in Nat
      <3>1. CASE Count \/ Baseline
        <4>1. hist'.mark = Len(log)
          BY <1>t, <3>1 DEF Count, Baseline
        <4> QED
          BY <1>t, <4>1
      <3>2. CASE Arm \/ ResetStats
        <4>1. hist'.mark = hist.mark
          BY <1>t, <3>2 DEF Arm, ResetStats
        <4> QED
          BY <1>t, <4>1
      <3>3. ASSUME NEW good \in BOOLEAN, Complete(good)
            PROVE  hist.mark <= hist'.mark /\ hist'.mark \in Nat
        BY <1>t, <3>3 DEF Complete, nodeVars
      <3>4. CASE \/ Tick \/ IsrEnter \/ IsrCapture \/ Poll \/ Identify \/ Clear \/ StartRx
                 \/ Issue \/ Deliver \/ Leave \/ Lose \/ HandleEvent \/ UNCHANGED vars
        <4>1. hist' = hist
          BY <3>4 DEF Tick, IsrEnter, IsrCapture, Poll, Identify, Clear, StartRx, Issue,
                      Deliver, Leave, Lose, HandleEvent, nodeVars, vars
        <4> QED
          BY <1>t, <4>1
      <3> QED
        BY <3>1, <3>2, <3>3, <3>4 DEF Next, Isr, MainLoop
    <2>3. ASSUME InHand' PROVE \A i \in 1 .. Len(sent) : sent[i] < pkt'.id
      <3>1. CASE Identify
        <4>1. pkt'.id = Len(log) /\ pc = "ident"
          BY <1>t, <3>1 DEF Identify, Loop, Counted
        <4>2. hist.mark < Len(log)
          BY <4>1 DEF Window
        <4> QED
          BY <1>t, <1>s, <4>1, <4>2 DEF Written
      <3>2. CASE ~Identify
        <4>1. InHand /\ pkt'.id = pkt.id
          BY <1>t, <2>3, <3>2 DEF Next, Isr, MainLoop, Tick, IsrEnter, IsrCapture, Complete,
             Poll, Count, Baseline, Clear, Arm, StartRx, Issue, Deliver, Leave, ResetStats,
             Lose, HandleEvent, nodeVars, vars, InHand, Hand, Loop
        <4> QED
          BY <4>1 DEF Written
      <3> QED
        BY <3>1, <3>2
    <2>4. \A i \in 1 .. Len(sent) : sent[i] <= hist'.mark
      BY <1>t, <1>s, <2>2 DEF Written
    <2> QED
      BY <1>2, <2>1, <2>3, <2>4 DEF Written
  <1>3. CASE sent' # sent /\ ~Deliver
    BY <1>3 DEF Next, Isr, MainLoop, Tick, IsrEnter, IsrCapture, Complete, Poll, Identify,
         Count, Baseline, Clear, Arm, StartRx, Issue, Leave, ResetStats, Lose, HandleEvent,
         hostVars, vars
  <1> QED
    BY <1>1, <1>2, <1>3

-----------------------------------------------------------------------------
(* The line and the host.                                                   *)

\* A line of two.
LEMMA TwoPops ==
  ASSUME NEW S, NEW s \in Seq(S), Len(s) = 2
  PROVE  Tail(s) # <<>> /\ Len(Tail(s)) = 1 /\ Tail(s)[1] = s[2]
  <1> DEFINE t == Tail(s)
  <1>1. s # <<>>
    OBVIOUS
  <1>2. t \in Seq(S) /\ Len(t) = Len(s) - 1 /\ \A i \in 1 .. Len(t) : t[i] = s[i + 1]
    BY <1>1, HeadTailProperties
  <1> HIDE DEF t
  <1>3. Len(t) = 1
    BY <1>2
  <1>4. t # <<>>
    BY <1>3
  <1>5. t[1] = s[1 + 1]
    BY <1>2, <1>3
  <1> QED
    BY <1>3, <1>4, <1>5 DEF t

LEMMA TwoWritten ==
  ASSUME NEW S, NEW a \in S, NEW b \in S
  PROVE  /\ Len(<<>> \o <<a>> \o <<b>>) = 2
         /\ (<<>> \o <<a>> \o <<b>>)[1] = a /\ (<<>> \o <<a>> \o <<b>>)[2] = b
  <1>1. <<>> \o <<a>> = <<a>>
    BY ConcatEmptySeq
  <1>2. Len(<<a>> \o <<b>>) = 2 /\ (<<a>> \o <<b>>)[1] = a /\ (<<a>> \o <<b>>)[2] = b
    OBVIOUS
  <1> QED
    BY <1>1, <1>2

LEMMA HostTypes ==
  ASSUME TypeOK
  PROVE  /\ line \in Seq(Events) /\ Len(line) \in Nat /\ pending \in BOOLEAN
         /\ lost \in [notes : SUBSET Packets, frames : SUBSET Packets]
         /\ pub \in [id : 0 .. Len(log), ts : Stamps, clean : BOOLEAN, capture : BOOLEAN]
  <1>1. line \in Seq(Events)
    BY DEF TypeOK
  <1>2. Len(line) \in Nat
    BY <1>1
  <1> QED
    BY <1>1, <1>2 DEF TypeOK

HostOK == OnLine /\ Waiting /\ PubOK

\* A packet that completes changes nothing that was said of the others.
LEMMA HostSeesPacket ==
  ASSUME TypeOK, HostOK, NEW good \in BOOLEAN, Complete(good)
  PROVE  HostOK'
  <1>1. /\ log' = Append(log, [at |-> now, good |-> good]) /\ line' = line
        /\ sent' = sent /\ pending' = pending /\ lost' = lost /\ pub' = pub
    BY DEF Complete, hostVars
  <1>2. Packets' = Packets \cup {Len(log) + 1} /\ \A k \in Packets : log'[k] = log[k]
    BY <1>1, PacketAdded
  <1>3. OnLine'
    <2>1. CASE line = <<>>
      BY <1>1, <2>1 DEF OnLine
    <2>2. CASE Len(line) = 1 /\ line[1].typ = "other"
      BY <1>1, <2>2 DEF OnLine
    <2>3. CASE /\ Len(line) = 1 /\ IsFrame(line[1])
               /\ HwOk /\ line[1].ts = Soft => pending \/ line[1].id \in lost.notes
      BY <1>1, <1>2, <2>3 DEF OnLine, IsFrame
    <2>4. CASE /\ Len(line) = 2 /\ line[1].typ = "note" /\ line[1].id = line[2].id
               /\ IsFrame(line[2]) /\ line[2].ts = Soft
      BY <1>1, <1>2, <2>4 DEF OnLine, IsFrame
    <2> QED
      BY <2>1, <2>2, <2>3, <2>4 DEF HostOK, OnLine
  <1>4. Waiting'
    BY <1>1 DEF HostOK, Waiting
  <1>5. PubOK'
    BY <1>1, <1>2 DEF HostOK, PubOK, CapturedIsOwn, CleanIsCaptured, NoteCostsOneFrame
  <1> QED
    BY <1>3, <1>4, <1>5 DEF HostOK

LEMMA HostStays ==
  ASSUME HostOK, log' = log, line' = line, sent' = sent, pending' = pending, lost' = lost,
         pub' = pub
  PROVE  HostOK'
  <1>1. Packets' = Packets
    BY DEF Packets
  <1> QED
    BY <1>1 DEF HostOK, OnLine, IsFrame, Waiting, PubOK, CapturedIsOwn, CleanIsCaptured,
                NoteCostsOneFrame

\* An event that is no frame and no note is written.
LEMMA HostGetsOther ==
  ASSUME TypeOK, HostOK, line = <<>>, log' = log, sent' = sent, pending' = pending,
         lost' = lost, pub' = pub,
         line' = Append(line, [typ |-> "other", id |-> 0, ts |-> Soft, clean |-> FALSE])
  PROVE  HostOK'
  <1>1. Len(line') = 1 /\ line'[1].typ = "other" /\ line' # <<>>
    OBVIOUS
  <1>2. OnLine'
    BY <1>1 DEF OnLine
  <1>3. pending => sent # <<>> /\ sent[Len(sent)] \in lost.frames
    <2>1. Len(line) < 2
      OBVIOUS
    <2> QED
      BY <2>1 DEF HostOK, Waiting
  <1>4. Waiting'
    BY <1>1, <1>3 DEF Waiting
  <1>5. PubOK'
    BY DEF HostOK, PubOK, CapturedIsOwn, CleanIsCaptured, NoteCostsOneFrame, Packets
  <1> QED
    BY <1>2, <1>4, <1>5 DEF HostOK

\* The first event leaves the line.
LEMMA LinePops ==
  ASSUME TypeOK, OnLine, line # <<>>, line' = Tail(line)
  PROVE  /\ Head(line) = line[1]
         /\ Len(line) \in {1, 2}
         /\ Len(line) = 1 => line' = <<>>
         /\ Len(line) = 2 => line' # <<>> /\ Len(line') = 1 /\ line'[1] = line[2]
  <1>1. line \in Seq(Events) /\ Len(line) \in Nat
    BY HostTypes
  <1>2. Len(line) \in {1, 2}
    BY DEF OnLine
  <1>3. Head(line) = line[1]
    BY <1>1
  <1>4. ASSUME Len(line) = 1 PROVE line' = <<>>
    <2>1. Tail(line) \in Seq(Events) /\ Len(Tail(line)) = 0
      BY <1>1, <1>4
    <2> QED
      BY <2>1
  <1>5. ASSUME Len(line) = 2 PROVE line' # <<>> /\ Len(line') = 1 /\ line'[1] = line[2]
    BY <1>1, <1>5, TwoPops
  <1> QED
    BY <1>2, <1>3, <1>4, <1>5

LEMMA HostLoses ==
  ASSUME TypeOK, HostOK, Lose
  PROVE  HostOK'
  <1>1. /\ line # <<>> /\ line' = Tail(line) /\ log' = log /\ sent' = sent
        /\ pending' = pending /\ pub' = pub
    BY DEF Lose, airVars
  <1>2. /\ Head(line) = line[1]
        /\ Len(line) = 1 => line' = <<>>
        /\ Len(line) = 2 => line' # <<>> /\ Len(line') = 1 /\ line'[1] = line[2]
    BY <1>1, LinePops DEF HostOK
  <1>3. /\ lost'.notes = IF line[1].typ = "note" THEN lost.notes \cup {line[1].id}
                                                 ELSE lost.notes
        /\ lost'.frames = IF line[1].typ = "frame" THEN lost.frames \cup {line[1].id}
                                                   ELSE lost.frames
    BY <1>2 DEF Lose
  <1>4. lost.notes \subseteq lost'.notes /\ lost.frames \subseteq lost'.frames
    BY <1>3
  <1>5. PubOK'
    BY <1>1, <1>4 DEF HostOK, PubOK, CapturedIsOwn, CleanIsCaptured, NoteCostsOneFrame,
                      Packets
  <1>6. CASE Len(line) = 1 /\ line[1].typ = "other"
    <2>1. Len(line) < 2 /\ line[1].typ # "frame"
      BY <1>6
    <2>2. pending => sent # <<>> /\ sent[Len(sent)] \in lost'.frames
      BY <1>1, <1>4, <2>1 DEF HostOK, Waiting
    <2>3. OnLine' /\ Waiting'
      BY <1>1, <1>2, <1>6, <2>2 DEF OnLine, Waiting
    <2> QED
      BY <1>5, <2>3 DEF HostOK
  <1>7. CASE Len(line) = 1 /\ IsFrame(line[1])
    <2>1. sent # <<>> /\ sent[Len(sent)] \in lost'.frames
      BY <1>3, <1>7 DEF IsFrame
    <2>2. OnLine' /\ Waiting'
      BY <1>1, <1>2, <1>7, <2>1 DEF OnLine, Waiting
    <2> QED
      BY <1>5, <2>2 DEF HostOK
  <1>8. CASE /\ Len(line) = 2 /\ line[1].typ = "note" /\ line[1].id = line[2].id
             /\ IsFrame(line[2]) /\ line[2].ts = Soft
    <2>1. line[2].id \in lost'.notes
      BY <1>3, <1>8
    <2>2. OnLine' /\ Waiting'
      BY <1>1, <1>2, <1>8, <2>1 DEF OnLine, Waiting, IsFrame, Packets
    <2> QED
      BY <1>5, <2>2 DEF HostOK
  <1> QED
    BY <1>1, <1>6, <1>7, <1>8 DEF HostOK, OnLine

LEMMA HostHandles ==
  ASSUME TypeOK, HostOK, HandleEvent
  PROVE  HostOK'
  <1>1. /\ line # <<>> /\ line' = Tail(line) /\ log' = log /\ sent' = sent /\ lost' = lost
    BY DEF HandleEvent, airVars
  <1>2. /\ Head(line) = line[1]
        /\ Len(line) = 1 => line' = <<>>
        /\ Len(line) = 2 => line' # <<>> /\ Len(line') = 1 /\ line'[1] = line[2]
    BY <1>1, LinePops DEF HostOK
  <1>3. /\ pending' <=> line[1].typ = "note"
        /\ line[1].typ # "frame" => pub' = pub
        /\ line[1].typ = "frame" => pub' = Published(line[1])
    BY <1>2 DEF HandleEvent, PendingAfter
  <1>4. Packets' = Packets
    BY <1>1 DEF Packets
  <1>5. pub' = pub => PubOK'
    BY <1>1, <1>4 DEF HostOK, PubOK, CapturedIsOwn, CleanIsCaptured, NoteCostsOneFrame
  <1>6. CASE Len(line) = 1 /\ line[1].typ = "other"
    <2>1. OnLine' /\ Waiting'
      BY <1>2, <1>3, <1>6 DEF OnLine, Waiting
    <2> QED
      BY <1>3, <1>5, <1>6, <2>1 DEF HostOK
  <1>7. CASE /\ Len(line) = 1 /\ IsFrame(line[1])
             /\ HwOk /\ line[1].ts = Soft => pending \/ line[1].id \in lost.notes
    <2> DEFINE e == line[1]
    <2>1. OnLine' /\ Waiting'
      BY <1>2, <1>3, <1>7 DEF OnLine, Waiting, IsFrame
    <2>2. /\ e.typ = "frame" /\ e.id \in Packets
          /\ e.ts # Soft => HwOk /\ e.ts = OnWire(log[e.id].at) /\ log[e.id].good
          /\ e.clean => e.ts # Soft
          /\ sent # <<>> /\ e.id = sent[Len(sent)]
      BY <1>7 DEF IsFrame
    <2>3. /\ pub'.id = e.id /\ pub'.ts = e.ts /\ (pub'.clean <=> e.clean)
          /\ (pub'.capture <=> HwOk /\ ~pending)
      <3>1. pub' = [id |-> e.id, ts |-> e.ts, clean |-> e.clean,
                    capture |-> HwOk /\ ~pending]
        BY <1>3, <2>2 DEF Published
      <3>2. /\ pub'.id = e.id /\ pub'.ts = e.ts
            /\ pub'.clean = e.clean /\ pub'.capture = (HwOk /\ ~pending)
        BY <3>1
      <3> QED
        BY <3>2
    <2>4. CapturedIsOwn' /\ CleanIsCaptured'
      BY <1>1, <1>7, <2>2, <2>3 DEF CapturedIsOwn, CleanIsCaptured
    <2>5. NoteCostsOneFrame'
      <3> SUFFICES ASSUME ~pub'.capture, pub'.ts # Soft
                   PROVE  \E i \in 2 .. Len(sent) :
                            sent[i] = pub'.id /\ sent[i - 1] \in lost.frames
        BY <1>1 DEF NoteCostsOneFrame
      <3>1. pending /\ Len(line) < 2
        BY <1>7, <2>2, <2>3
      <3>2. Len(sent) >= 2 /\ sent[Len(sent) - 1] \in lost.frames
        BY <1>1, <2>2, <2>3, <3>1 DEF HostOK, Waiting
      <3>3. Len(sent) \in 2 .. Len(sent)
        BY <3>2, SentTypes
      <3> QED
        BY <2>2, <2>3, <3>2, <3>3
    <2>6. PubOK'
      BY <1>4, <2>2, <2>3, <2>4, <2>5 DEF PubOK
    <2> QED
      BY <2>1, <2>6 DEF HostOK
  <1>8. CASE /\ Len(line) = 2 /\ line[1].typ = "note" /\ line[1].id = line[2].id
             /\ IsFrame(line[2]) /\ line[2].ts = Soft
    <2>1. OnLine' /\ Waiting'
      BY <1>1, <1>2, <1>3, <1>4, <1>8 DEF OnLine, Waiting, IsFrame
    <2> QED
      BY <1>3, <1>5, <1>8, <2>1 DEF HostOK
  <1> QED
    BY <1>1, <1>6, <1>7, <1>8 DEF HostOK, OnLine

LEMMA HostGetsFrame ==
  ASSUME TypeOK, Hand, HostOK, Deliver, sent' # sent
  PROVE  HostOK'
  <1> DEFINE e == [typ |-> "frame", id |-> pkt.id, ts |-> OnWire(pkt.ts), clean |-> pkt.clean]
             note == [typ |-> "note", id |-> pkt.id, ts |-> Soft, clean |-> FALSE]
  <1>1. /\ log' = log /\ pending' = pending /\ lost' = lost /\ pub' = pub
        /\ pc = "deliver" /\ line = <<>>
    BY RunsUndisturbed DEF Deliver, Loop, airVars
  <1>2. /\ ~pkt.crc /\ sent' = Append(sent, pkt.id)
        /\ line' = line \o (IF NoteNeeded THEN <<note>> ELSE <<>>) \o <<e>>
    BY DeliverMoves
  <1>3. /\ pkt.id \in Packets
        /\ pkt.ts # Soft => HwOk /\ pkt.ts = log[pkt.id].at /\ log[pkt.id].good
        /\ pkt.clean => pkt.ts # Soft
    BY <1>1, <1>2 DEF Hand, InHand, Reading
  <1>4. /\ Len(sent') = Len(sent) + 1 /\ sent' # <<>> /\ Len(sent) \in Nat
        /\ \A i \in 1 .. Len(sent) : sent'[i] = sent[i]
        /\ sent'[Len(sent) + 1] = pkt.id
    BY <1>2, <1>3, SentMore
  <1>5. Packets' = Packets
    BY <1>1 DEF Packets
  <1>w. OnWire(pkt.ts) = Soft <=> pkt.ts = Soft
    BY WireTypes
  <1>6. /\ pkt.id \in Packets'
        /\ pkt.ts # Soft =>
             HwOk /\ OnWire(pkt.ts) = OnWire(log'[pkt.id].at) /\ log'[pkt.id].good
        /\ sent' # <<>> /\ pkt.id = sent'[Len(sent')]
    BY <1>1, <1>3, <1>4, <1>5
  <1>7. PubOK'
    <2>1. CapturedIsOwn' /\ CleanIsCaptured'
      BY <1>1 DEF HostOK, PubOK, CapturedIsOwn, CleanIsCaptured
    <2>2. NoteCostsOneFrame'
      <3> SUFFICES ASSUME ~pub.capture, pub.ts # Soft
                   PROVE  \E i \in 2 .. Len(sent') :
                            sent'[i] = pub.id /\ sent'[i - 1] \in lost.frames
        BY <1>1 DEF NoteCostsOneFrame
      <3>1. PICK i \in 2 .. Len(sent) : sent[i] = pub.id /\ sent[i - 1] \in lost.frames
        BY DEF HostOK, PubOK, NoteCostsOneFrame
      <3>2. i \in 2 .. Len(sent') /\ i \in 1 .. Len(sent) /\ i - 1 \in 1 .. Len(sent)
        BY <1>4
      <3> QED
        BY <1>4, <3>1, <3>2
    <2> QED
      BY <1>1, <1>5, <2>1, <2>2 DEF HostOK, PubOK
  <1>8. CASE NoteNeeded
    <2>1. line' = <<>> \o <<note>> \o <<e>>
      BY <1>1, <1>2, <1>8
    <2> HIDE DEF note, e
    <2>2. Len(line') = 2 /\ line'[1] = note /\ line'[2] = e
      <3>1. note \in {note, e} /\ e \in {note, e}
        OBVIOUS
      <3>2. /\ Len(<<>> \o <<note>> \o <<e>>) = 2
            /\ (<<>> \o <<note>> \o <<e>>)[1] = note /\ (<<>> \o <<note>> \o <<e>>)[2] = e
        BY ONLY <3>1, TwoWritten
      <3> QED
        BY ONLY <2>1, <3>2
    <2> USE DEF note, e
    <2>3. pkt.ts = Soft
      BY <1>8 DEF NoteNeeded
    <2>4. OnLine'
      <3>1. /\ line'[1].typ = "note" /\ line'[1].id = line'[2].id
            /\ line'[2].typ = "frame" /\ line'[2].id = pkt.id /\ line'[2].ts = Soft
            /\ line'[2].clean = pkt.clean
        BY <1>w, <2>2, <2>3
      <3> QED
        BY <1>3, <1>6, <2>2, <2>3, <3>1 DEF OnLine, IsFrame
    <2>5. Waiting'
      BY <2>2 DEF Waiting
    <2> QED
      BY <1>7, <2>4, <2>5 DEF HostOK
  <1>9. CASE ~NoteNeeded
    <2>1. line' = <<>> \o <<>> \o <<e>>
      BY <1>1, <1>2, <1>9
    <2> HIDE DEF e
    <2>2. Len(line') = 1 /\ line'[1] = e /\ line' # <<>>
      BY <2>1
    <2> USE DEF e
    <2>3. ~(HwOk /\ pkt.ts = Soft)
      BY <1>9 DEF NoteNeeded
    <2>4. OnLine'
      <3>1. /\ line'[1].typ = "frame" /\ line'[1].id = pkt.id
            /\ line'[1].ts = OnWire(pkt.ts)
            /\ line'[1].clean = pkt.clean
        BY <2>2
      <3> QED
        BY <1>3, <1>6, <1>w, <2>2, <2>3, <3>1 DEF OnLine, IsFrame
    <2>5. ASSUME pending PROVE Len(sent') >= 2 /\ sent'[Len(sent') - 1] \in lost.frames
      <3>1. Len(line) < 2
        BY <1>1
      <3>2. sent # <<>> /\ sent[Len(sent)] \in lost.frames
        BY <1>1, <2>5, <3>1 DEF HostOK, Waiting
      <3>3. Len(sent) \in 1 .. Len(sent) /\ Len(sent') - 1 = Len(sent)
        BY <1>4, <3>2, SentTypes
      <3> QED
        BY <1>4, <3>2, <3>3
    <2>6. Waiting'
      BY <1>1, <2>2, <2>5 DEF Waiting
    <2> QED
      BY <1>7, <2>4, <2>6 DEF HostOK
  <1> QED
    BY <1>8, <1>9

LEMMA StepHost == TypeOK /\ Hand /\ HostOK /\ [Next]_vars => HostOK'
  <1> SUFFICES ASSUME TypeOK, Hand, HostOK, [Next]_vars PROVE HostOK'
    OBVIOUS
  <1>1. ASSUME NEW good \in BOOLEAN, Complete(good) PROVE HostOK'
    BY <1>1, HostSeesPacket
  <1>2. CASE Lose
    BY <1>2, HostLoses
  <1>3. CASE HandleEvent
    BY <1>3, HostHandles
  <1>4. CASE Deliver
    <2>1. CASE sent' # sent
      BY <1>4, <2>1, HostGetsFrame
    <2>2. CASE sent' = sent
      <3>1. line' = line
        <4>1. sent' # Append(sent, pkt.id)
          <5>1. sent \in Seq(Packets) /\ Len(sent) \in Nat
            BY SentTypes DEF TypeOK
          <5>2. Len(Append(sent, pkt.id)) = Len(sent) + 1
            BY <5>1
          <5> QED
            BY <2>2, <5>1, <5>2
        <4> QED
          BY <1>4, <4>1, DeliverMoves
      <3> QED
        BY <1>4, <2>2, <3>1, HostStays DEF Deliver, airVars
    <2> QED
      BY <2>1, <2>2
  <1>5. CASE StartRx
    <2>1. line = <<>>
      BY <1>5, RunsUndisturbed DEF StartRx, Loop
    <2>2. /\ log' = log /\ sent' = sent /\ pending' = pending /\ lost' = lost /\ pub' = pub
      BY <1>5 DEF StartRx, airVars
    <2>3. \/ line' = line
          \/ line' = Append(line, [typ |-> "other", id |-> 0, ts |-> Soft, clean |-> FALSE])
      BY <1>5 DEF StartRx
    <2> QED
      BY <2>1, <2>2, <2>3, HostStays, HostGetsOther
  <1>6. CASE ResetStats
    <2>1. line = <<>>
      BY <1>6, RunsUndisturbed DEF ResetStats
    <2>2. /\ log' = log /\ sent' = sent /\ pending' = pending /\ lost' = lost /\ pub' = pub
          /\ line' = Append(line, [typ |-> "other", id |-> 0, ts |-> Soft, clean |-> FALSE])
      BY <1>6 DEF ResetStats, airVars
    <2> QED
      BY <2>1, <2>2, HostGetsOther
  <1>7. CASE \/ Tick \/ IsrEnter \/ IsrCapture \/ Poll \/ Identify \/ Count \/ Baseline
             \/ Clear \/ Arm \/ Issue \/ Leave \/ UNCHANGED vars
    <2>1. /\ log' = log /\ line' = line /\ sent' = sent /\ pending' = pending
          /\ lost' = lost /\ pub' = pub
      BY <1>7 DEF Tick, IsrEnter, IsrCapture, Poll, Identify, Count, Baseline, Clear, Arm,
                  Issue, Leave, airVars, hostVars, vars
    <2> QED
      BY <2>1, HostStays
  <1> QED
    BY <1>1, <1>2, <1>3, <1>4, <1>5, <1>6, <1>7 DEF Next, Isr, MainLoop

-----------------------------------------------------------------------------
(* Every step keeps the types.                                              *)

\* Packets are only added.
LEMMA LogTypesKept ==
  ASSUME TypeOK, [Next]_vars
  PROVE  /\ log' \in Seq(LogTypes) /\ Len(log') <= MaxFrames
         /\ Len(log) \in Nat /\ Len(log') \in Nat /\ Len(log) <= Len(log')
         /\ Packets \subseteq Packets'
  <1>1. log \in Seq(LogTypes) /\ Len(log) <= MaxFrames /\ Len(log) \in Nat
    BY Types DEF TypeOK
  <1>2. ASSUME NEW good \in BOOLEAN, Complete(good)
        PROVE  log' \in Seq(LogTypes) /\ Len(log') = Len(log) + 1 /\ Len(log') <= MaxFrames
    <2>1. log' = Append(log, [at |-> now, good |-> good]) /\ Len(log) < MaxFrames
      BY <1>2 DEF Complete
    <2>2. log' \in Seq(LogTypes) /\ Len(log') = Len(log) + 1
      BY <2>1, PacketAdded
    <2> QED
      BY <1>1, <2>1, <2>2, Parameters
  <1>3. log' = log \/ (Len(log') = Len(log) + 1 /\ Len(log') <= MaxFrames
                         /\ log' \in Seq(LogTypes))
    BY <1>2 DEF Next, Isr, MainLoop, Tick, IsrEnter, IsrCapture, Poll, Identify, Count,
       Baseline, Clear, Arm, StartRx, Issue, Deliver, Leave, ResetStats, Lose, HandleEvent,
       airVars, vars
  <1>4. log' \in Seq(LogTypes) /\ Len(log') \in Nat /\ Len(log) <= Len(log')
          /\ Len(log') <= MaxFrames
    BY <1>1, <1>3
  <1>5. Packets \subseteq Packets'
    BY <1>1, <1>4 DEF Packets
  <1> QED
    BY <1>1, <1>4, <1>5

LEMMA TimerTypesKept ==
  ASSUME TypeOK, Clock, Edge, [Next]_vars
  PROVE  /\ now' \in 0 .. MaxNow /\ late' \in 0 .. MaxLate
         /\ tim' \in [ccr : 0 .. Wrap - 1, cc3if : BOOLEAN, cc3of : BOOLEAN, uif : BOOLEAN]
         /\ isr' \in {"idle", "capture"}
         /\ cap' \in [wraps : Nat, captures : Nat, over : Nat, ticks : Nat,
                      lat : 0 .. MaxLate]
  <1> DEFINE Tim == [ccr : 0 .. Wrap - 1, cc3if : BOOLEAN, cc3of : BOOLEAN, uif : BOOLEAN]
             Cap == [wraps : Nat, captures : Nat, over : Nat, ticks : Nat, lat : 0 .. MaxLate]
  <1>1. /\ now \in 0 .. MaxNow /\ late \in 0 .. MaxLate /\ tim \in Tim
        /\ isr \in {"idle", "capture"} /\ cap \in Cap
        /\ MaxNow \in Nat /\ MaxLate \in Nat
    BY Parameters DEF TypeOK
  <1>2. CASE Tick
    <2>1. now' \in 0 .. MaxNow /\ late' \in 0 .. MaxLate
      BY <1>1, <1>2 DEF Tick
    <2>2. tim' = [tim EXCEPT !.uif = @ \/ (now + 1) % Wrap = 0] /\ isr' = isr /\ cap' = cap
      BY <1>2 DEF Tick
    <2>3. tim' \in Tim
      BY <1>1, <2>2
    <2> QED
      BY <1>1, <2>1, <2>2, <2>3
  <1>3. CASE IsrEnter
    <2>1. /\ tim' = [tim EXCEPT !.uif = FALSE] /\ now' = now
          /\ cap' = [cap EXCEPT !.wraps = IF tim.uif THEN @ + 1 ELSE @]
          /\ isr' = IF tim.cc3if THEN "capture" ELSE "idle"
          /\ late' = IF tim.cc3if THEN late ELSE 0
      BY <1>3 DEF IsrEnter
    <2>2. tim' \in Tim
      BY <1>1, <2>1
    <2>w. cap' \in Cap
      <3>1. PICK w \in Nat : cap' = [cap EXCEPT !.wraps = w]
        <4>1. cap.wraps \in Nat /\ cap.wraps + 1 \in Nat
          BY Types
        <4> QED
          BY <2>1, <4>1
      <3> QED
        BY <1>1, <3>1
    <2>3. isr' \in {"idle", "capture"} /\ late' \in 0 .. MaxLate
      BY <1>1, <2>1
    <2> QED
      BY <1>1, <2>1, <2>2, <2>w, <2>3
  <1>4. CASE IsrCapture
    <2>1. Latency(tim.ccr) \in 0 .. MaxLate /\ Ticks64 - Latency(tim.ccr) \in Nat
      BY <1>4, CaptureIsInstant DEF IsrCapture, Edge
    <2> DEFINE l == Latency(tim.ccr)  t == Ticks64 - Latency(tim.ccr)
    <2>2. /\ tim' = [tim EXCEPT !.cc3if = FALSE, !.cc3of = FALSE] /\ now' = now
          /\ cap' = [cap EXCEPT !.captures = @ + 1,
                                !.over = IF tim.cc3of THEN @ + 1 ELSE @,
                                !.ticks = t, !.lat = l]
          /\ isr' = "idle" /\ late' = 0
      BY <1>4 DEF IsrCapture
    <2> HIDE DEF l, t
    <2>3. l \in 0 .. MaxLate /\ t \in Nat
      BY <2>1 DEF l, t
    <2>4. tim' \in Tim
      BY <1>1, <2>2
    <2>5. cap' \in Cap
      <3>1. PICK n \in Nat, o \in Nat :
              cap' = [cap EXCEPT !.captures = n, !.over = o, !.ticks = t, !.lat = l]
        <4>0. cap.captures \in Nat /\ cap.over \in Nat
          BY Types
        <4>1. /\ cap.captures + 1 \in Nat /\ cap.over \in Nat /\ cap.over + 1 \in Nat
          BY <4>0
        <4>2. CASE tim.cc3of
          BY <2>2, <4>1, <4>2
        <4>3. CASE ~tim.cc3of
          BY <2>2, <4>1, <4>3
        <4> QED
          BY <4>2, <4>3
      <3> QED
        BY <1>1, <2>3, <3>1
    <2> QED
      BY <1>1, <2>2, <2>4, <2>5
  <1>5. ASSUME NEW good \in BOOLEAN, Complete(good)
        PROVE  tim' \in Tim /\ now' = now /\ late' = late /\ isr' = isr /\ cap' = cap
    <2>1. Cnt \in 0 .. Wrap - 1
      BY CntTypes, Parameters
    <2>2. /\ \/ tim' = tim
             \/ tim' = [tim EXCEPT !.ccr = Cnt, !.cc3if = TRUE, !.cc3of = @ \/ tim.cc3if]
          /\ now' = now /\ late' = late /\ isr' = isr /\ cap' = cap
      BY <1>5 DEF Complete
    <2>3. tim' \in Tim
      BY <1>1, <2>1, <2>2
    <2> QED
      BY <2>2, <2>3
  <1>6. CASE Arm
    <2>1. /\ tim' = [tim EXCEPT !.cc3if = FALSE, !.cc3of = FALSE]
          /\ now' = now /\ late' = late /\ isr' = isr /\ cap' = cap
      BY <1>6 DEF Arm, ArmTimer, airVars
    <2>2. tim' \in Tim
      BY <1>1, <2>1
    <2> QED
      BY <1>1, <2>1, <2>2
  <1>7. CASE \/ Poll \/ Identify \/ Count \/ Baseline \/ Clear \/ StartRx \/ Issue \/ Deliver
             \/ Leave \/ ResetStats \/ Lose \/ HandleEvent \/ UNCHANGED vars
    <2>1. now' = now /\ late' = late /\ tim' = tim /\ isr' = isr /\ cap' = cap
      BY <1>7 DEF Poll, Identify, Count, Baseline, Clear, StartRx, Issue, Deliver, Leave,
                  ResetStats, Lose, HandleEvent, airVars, vars
    <2> QED
      BY <1>1, <2>1
  <1> QED
    BY <1>1, <1>2, <1>3, <1>4, <1>5, <1>6, <1>7 DEF Next, Isr, MainLoop

LEMMA ChipTypesKept ==
  ASSUME TypeOK, [Next]_vars
  PROVE  /\ chip' \in [rx : BOOLEAN, done : BOOLEAN, crc : BOOLEAN, last : Nat, count : Nat]
         /\ chip'.last <= Len(log')
  <1> DEFINE Chip == [rx : BOOLEAN, done : BOOLEAN, crc : BOOLEAN, last : Nat, count : Nat]
  <1>1. /\ chip \in Chip /\ chip.last <= Len(log) /\ chip.last \in Nat
        /\ Len(log) \in Nat /\ Len(log') \in Nat /\ Len(log) <= Len(log')
    BY LogTypesKept, Types DEF TypeOK
  <1>2. ASSUME NEW good \in BOOLEAN, Complete(good)
        PROVE  chip' \in Chip /\ chip'.last <= Len(log')
    <2>1. Len(log') = Len(log) + 1
      BY <1>2, PacketAdded DEF Complete
    <2>2. PICK n \in {1, 2} :
            chip' = [chip EXCEPT !.done = TRUE, !.crc = @ \/ ~good,
                                 !.last = Len(log) + 1, !.count = @ + n]
      BY <1>2 DEF Complete
    <2>3. chip'.last = Len(log')
      BY <1>1, <2>1, <2>2
    <2>4. Len(log) + 1 \in Nat /\ chip.count + n \in Nat
      <3>1. Len(log) \in Nat /\ chip.count \in Nat
        BY ONLY TypeOK, Types
      <3>2. n \in Nat
        OBVIOUS
      <3> QED
        BY ONLY <3>1, <3>2
    <2>5. chip' \in Chip
      <3>1. (chip.crc \/ ~good) \in BOOLEAN
        OBVIOUS
      <3> QED
        BY <1>1, <2>2, <2>4, <3>1
    <2> QED
      BY <1>1, <2>3, <2>5
  <1>3. CASE Clear
    <2>1. chip' = [chip EXCEPT !.done = FALSE, !.crc = FALSE]
      BY <1>3 DEF Clear
    <2>2. chip' \in Chip /\ chip'.last = chip.last
      BY <1>1, <2>1
    <2> QED
      BY <1>1, <2>2
  <1>4. CASE Leave
    <2>1. PICK armed \in BOOLEAN : chip' = [chip EXCEPT !.rx = armed]
      BY <1>4 DEF Leave
    <2> QED
      BY <1>1, <2>1
  <1>5. CASE Issue
    <2>1. PICK armed \in BOOLEAN : chip' = [chip EXCEPT !.rx = armed]
      <3>1. chip' = [chip EXCEPT !.rx = ret = "on"] /\ (ret = "on") \in BOOLEAN
        BY <1>5 DEF Issue
      <3> QED
        BY <3>1
    <2> QED
      BY <1>1, <2>1
  <1>6. CASE ResetStats
    <2>1. chip' = [chip EXCEPT !.count = 0]
      BY <1>6 DEF ResetStats
    <2> QED
      BY <1>1, <2>1
  <1>7. CASE \/ Tick \/ IsrEnter \/ IsrCapture \/ Poll \/ Identify \/ Count \/ Baseline \/ Arm
             \/ StartRx \/ Deliver \/ Lose \/ HandleEvent \/ UNCHANGED vars
    <2>1. chip' = chip
      BY <1>7 DEF Tick, IsrEnter, IsrCapture, Poll, Identify, Count, Baseline, Arm, StartRx,
                  Deliver, Lose, HandleEvent, vars
    <2> QED
      BY <1>1, <2>1
  <1> QED
    BY <1>2, <1>3, <1>4, <1>5, <1>6, <1>7 DEF Next, Isr, MainLoop

LEMMA LoopTypesKept ==
  ASSUME TypeOK, [Next]_vars
  PROVE  /\ pc' \in {"loop", "ident", "count", "base", "clear", "arm", "issue",
                     "off", "deliver"}
         /\ ret' \in {"deliver", "off", "on"} /\ back' \in {"loop", "deliver"}
         /\ win' \in [edges : Nat, over : Nat, base : Nat, next : Nat, dirty : BOOLEAN]
         /\ hist' \in [mark : 0 .. Len(log'), open : 0 .. Len(log'), reset : BOOLEAN]
  <1> DEFINE Win == [edges : Nat, over : Nat, base : Nat, next : Nat, dirty : BOOLEAN]
  <1>1. /\ pc \in {"loop", "ident", "count", "base", "clear", "arm", "issue",
                   "off", "deliver"}
        /\ ret \in {"deliver", "off", "on"} /\ back \in {"loop", "deliver"}
    BY DEF TypeOK
  <1>2. /\ Len(log) \in Nat /\ Len(log') \in Nat /\ Len(log) <= Len(log')
        /\ hist \in [mark : 0 .. Len(log), open : 0 .. Len(log), reset : BOOLEAN]
        /\ win \in Win
    BY LogTypesKept, Records
  <1>3. chip.count \in Nat /\ cap.captures \in Nat /\ cap.over \in Nat /\ win.next \in Nat
    BY Types
  <1>4. /\ pc' \in {"loop", "ident", "count", "base", "clear", "arm", "issue",
                    "off", "deliver"}
        /\ ret' \in {"deliver", "off", "on"} /\ back' \in {"loop", "deliver"}
    BY <1>1 DEF Next, Isr, MainLoop, Tick, IsrEnter, IsrCapture, Complete, Poll, Identify,
       Count, Baseline, Clear, Arm, StartRx, Issue, Deliver, Leave, ResetStats, Lose,
       HandleEvent, Loop, nodeVars, vars
  <1>5. win' \in Win
    <2>1. CASE Count
      <3>1. win' = [win EXCEPT !.next = chip.count, !.dirty = FALSE]
        BY <2>1 DEF Count
      <3> QED
        BY <1>2, <1>3, <3>1
    <2>2. CASE Baseline
      <3>1. win' = [win EXCEPT !.next = chip.count]
        BY <2>2 DEF Baseline
      <3> QED
        BY <1>2, <1>3, <3>1
    <2>3. CASE Clear
      <3>1. win' = [win EXCEPT !.base = win.next]
        BY <2>3 DEF Clear
      <3> QED
        BY <1>2, <1>3, <3>1
    <2>4. CASE Arm
      <3>1. win' = [win EXCEPT !.edges = cap.captures, !.over = cap.over]
        BY <2>4 DEF Arm, ArmTimer
      <3> QED
        BY <1>2, <1>3, <3>1
    <2>5. CASE ResetStats
      <3>1. win' = [win EXCEPT !.base = 0, !.dirty = TRUE]
        BY <2>5 DEF ResetStats, ResetWindow
      <3> QED
        BY <1>2, <3>1
    <2>6. CASE ~(Count \/ Baseline \/ Clear \/ Arm \/ ResetStats)
      <3>1. win' = win
        BY <2>6 DEF Next, Isr, MainLoop, Tick, IsrEnter, IsrCapture, Complete, Poll,
           Identify, StartRx, Issue, Deliver, Leave, Lose, HandleEvent, nodeVars, vars
      <3> QED
        BY <1>2, <3>1
    <2> QED
      BY <2>1, <2>2, <2>3, <2>4, <2>5, <2>6
  <1>6. hist' \in [mark : 0 .. Len(log'), open : 0 .. Len(log'), reset : BOOLEAN]
    <2>1. hist \in [mark : 0 .. Len(log'), open : 0 .. Len(log'), reset : BOOLEAN]
      <3>1. 0 .. Len(log) \subseteq 0 .. Len(log')
        BY <1>2
      <3> QED
        BY <1>2, <3>1
    <2>2. Len(log) \in 0 .. Len(log')
      BY <1>2
    <2>3. CASE Count
      <3>1. hist' = [hist EXCEPT !.mark = Len(log), !.reset = FALSE]
        BY <2>3 DEF Count
      <3> QED
        BY <2>1, <2>2, <3>1
    <2>4. CASE Baseline
      <3>1. hist' = [hist EXCEPT !.mark = Len(log)]
        BY <2>4 DEF Baseline
      <3> QED
        BY <2>1, <2>2, <3>1
    <2>5. CASE Arm
      <3>1. hist' = [hist EXCEPT !.open = Len(log)]
        BY <2>5 DEF Arm
      <3> QED
        BY <2>1, <2>2, <3>1
    <2>6. CASE ResetStats
      <3>1. hist' = [hist EXCEPT !.reset = TRUE]
        BY <2>6 DEF ResetStats
      <3> QED
        BY <2>1, <3>1
    <2>7. CASE ~(Count \/ Baseline \/ Arm \/ ResetStats)
      <3>1. hist' = hist
        BY <2>7 DEF Next, Isr, MainLoop, Tick, IsrEnter, IsrCapture, Complete, Poll,
           Identify, Clear, StartRx, Issue, Deliver, Leave, Lose, HandleEvent, nodeVars, vars
      <3> QED
        BY <2>1, <3>1
    <2> QED
      BY <2>3, <2>4, <2>5, <2>6, <2>7
  <1> QED
    BY <1>4, <1>5, <1>6

LEMMA StampTypes ==
  ASSUME TypeOK
  PROVE  /\ Soft \in Stamps /\ TakeStamp \in Stamps
         /\ \A d : Attribute(pkt.ts, d) \in Stamps
  <1>1. cap.ticks \in Nat /\ pkt.ts \in Stamps
    BY Types
  <1> QED
    BY <1>1 DEF Stamps, TakeStamp, Classify, Attribute

LEMMA PacketTypesKept ==
  ASSUME TypeOK, [Next]_vars
  PROVE  pkt' \in [crc : BOOLEAN, id : 0 .. Len(log'), ts : Stamps, clean : BOOLEAN]
  <1> DEFINE Pkt == [crc : BOOLEAN, id : 0 .. Len(log'), ts : Stamps, clean : BOOLEAN]
  <1>1. /\ Len(log) \in Nat /\ Len(log') \in Nat /\ Len(log) <= Len(log')
        /\ chip.last \in Nat /\ chip.last <= Len(log) /\ chip.crc \in BOOLEAN
    BY LogTypesKept, Types DEF TypeOK
  <1>2. pkt \in Pkt
    <2>1. 0 .. Len(log) \subseteq 0 .. Len(log')
      BY <1>1
    <2> QED
      BY <2>1, Records
  <1>3. NoPacket \in Pkt
    <2>1. 0 \in 0 .. Len(log') /\ Soft \in Stamps
      BY <1>1, StampTypes
    <2> QED
      BY <2>1 DEF NoPacket
  <1>4. CASE Poll
    <2>1. pkt' = [NoPacket EXCEPT !.crc = chip.crc, !.ts = TakeStamp]
      BY <1>4 DEF Poll
    <2>2. TakeStamp \in Stamps
      BY StampTypes
    <2> QED
      BY <1>1, <1>3, <2>1, <2>2
  <1>5. CASE Identify
    <2>1. pkt' = [pkt EXCEPT !.id = chip.last] /\ chip.last \in 0 .. Len(log')
      BY <1>1, <1>5 DEF Identify
    <2> QED
      BY <1>2, <2>1
  <1>6. CASE Count
    <2>1. PICK c \in BOOLEAN : pkt' = [pkt EXCEPT !.ts = Attribute(@, Delta), !.clean = c]
      BY <1>6 DEF Count
    <2>2. Attribute(pkt.ts, Delta) \in Stamps
      BY StampTypes
    <2> QED
      BY <1>2, <2>1, <2>2
  <1>7. CASE Deliver
    BY <1>3, <1>7 DEF Deliver
  <1>8. CASE ~(Poll \/ Identify \/ Count \/ Deliver)
    <2>1. pkt' = pkt
      BY <1>8 DEF Next, Isr, MainLoop, Tick, IsrEnter, IsrCapture, Complete, Baseline, Clear,
         Arm, StartRx, Issue, Leave, ResetStats, Lose, HandleEvent, nodeVars, vars
    <2> QED
      BY <1>2, <2>1
  <1> QED
    BY <1>4, <1>5, <1>6, <1>7, <1>8

LEMMA BudgetTypesKept ==
  ASSUME TypeOK, [Next]_vars
  PROVE  budget' \in [resets : 0 .. MaxResets, leaves : 0 .. MaxLeaves,
                      losses : 0 .. MaxLost]
  <1> DEFINE Budget == [resets : 0 .. MaxResets, leaves : 0 .. MaxLeaves,
                        losses : 0 .. MaxLost]
  <1>1. /\ budget \in Budget /\ MaxResets \in Nat /\ MaxLeaves \in Nat /\ MaxLost \in Nat
    BY Records, Parameters
  <1>2. CASE Leave
    <2>1. budget.leaves > 0 /\ budget' = [budget EXCEPT !.leaves = @ - 1]
      BY <1>2 DEF Leave
    <2>2. budget.leaves - 1 \in 0 .. MaxLeaves
      BY <1>1, <2>1
    <2> QED
      BY <1>1, <2>1, <2>2
  <1>3. CASE ResetStats
    <2>1. budget.resets > 0 /\ budget' = [budget EXCEPT !.resets = @ - 1]
      BY <1>3 DEF ResetStats
    <2>2. budget.resets - 1 \in 0 .. MaxResets
      BY <1>1, <2>1
    <2> QED
      BY <1>1, <2>1, <2>2
  <1>4. CASE Lose
    <2>1. budget.losses > 0 /\ budget' = [budget EXCEPT !.losses = @ - 1]
      BY <1>4 DEF Lose
    <2>2. budget.losses - 1 \in 0 .. MaxLost
      BY <1>1, <2>1
    <2> QED
      BY <1>1, <2>1, <2>2
  <1>5. CASE ~(Leave \/ ResetStats \/ Lose)
    <2>1. budget' = budget
      BY <1>5 DEF Next, Isr, MainLoop, Tick, IsrEnter, IsrCapture, Complete, Poll, Identify,
         Count, Baseline, Clear, Arm, StartRx, Issue, Deliver, HandleEvent, vars
    <2> QED
      BY <1>1, <2>1
  <1> QED
    BY <1>2, <1>3, <1>4, <1>5

\* An event that is a note or a frame is about a packet.
LEMMA HeadIsPacket ==
  ASSUME TypeOK, OnLine, line # <<>>, line[1].typ # "other"
  PROVE  line[1].id \in Packets
  BY DEF OnLine, IsFrame

\* What the node writes are events.
LEMMA EventTypes ==
  ASSUME TypeOK, pkt.id \in Nat
  PROVE  /\ [typ |-> "other", id |-> 0, ts |-> Soft, clean |-> FALSE] \in Events
         /\ [typ |-> "note", id |-> pkt.id, ts |-> Soft, clean |-> FALSE] \in Events
         /\ [typ |-> "frame", id |-> pkt.id, ts |-> OnWire(pkt.ts), clean |-> pkt.clean] \in Events
  <1>1. OnWire(pkt.ts) \in Stamps /\ pkt.clean \in BOOLEAN /\ Soft \in Stamps
    BY Types, StampTypes, WireTypes
  <1> QED
    BY <1>1 DEF Events, Kinds

LEMMA LineTypesKept ==
  ASSUME TypeOK, [Next]_vars
  PROVE  line' \in Seq(Events)
  <1> DEFINE other == [typ |-> "other", id |-> 0, ts |-> Soft, clean |-> FALSE]
             note == [typ |-> "note", id |-> pkt.id, ts |-> Soft, clean |-> FALSE]
             frame == [typ |-> "frame", id |-> pkt.id, ts |-> OnWire(pkt.ts), clean |-> pkt.clean]
  <1>1. line \in Seq(Events)
    BY HostTypes
  <1>2. other \in Events /\ note \in Events /\ frame \in Events
    <2>1. pkt.id \in Nat
      BY Types
    <2> QED
      BY <2>1, EventTypes
  <1>3. ASSUME line # <<>> PROVE Tail(line) \in Seq(Events)
    BY <1>1, <1>3
  <1>4. CASE StartRx \/ ResetStats
    <2>1. line' = line \/ line' = Append(line, other)
      BY <1>4 DEF StartRx, ResetStats
    <2> HIDE DEF other
    <2> QED
      BY <1>1, <1>2, <2>1
  <1>5. CASE Deliver
    <2>1. line' = line \/ line' = line \o <<note>> \o <<frame>>
            \/ line' = line \o <<>> \o <<frame>>
      BY <1>5, DeliverMoves
    <2> HIDE DEF note, frame
    <2>2. <<note>> \in Seq(Events) /\ <<frame>> \in Seq(Events) /\ <<>> \in Seq(Events)
      BY <1>2
    <2>3. line \o <<note>> \in Seq(Events) /\ line \o <<>> \in Seq(Events)
      BY <1>1, <2>2, ConcatProperties
    <2>4. /\ line \o <<note>> \o <<frame>> \in Seq(Events)
          /\ line \o <<>> \o <<frame>> \in Seq(Events)
      BY <2>2, <2>3, ConcatProperties
    <2> QED
      BY <1>1, <2>1, <2>4
  <1>6. CASE Lose \/ HandleEvent
    BY <1>3, <1>6 DEF Lose, HandleEvent
  <1>7. CASE ~(StartRx \/ ResetStats \/ Deliver \/ Lose \/ HandleEvent)
    <2>1. line' = line
      BY <1>7 DEF Next, Isr, MainLoop, Tick, IsrEnter, IsrCapture, Complete, Poll, Identify,
         Count, Baseline, Clear, Arm, Issue, Leave, hostVars, vars
    <2> QED
      BY <1>1, <2>1
  <1> QED
    BY <1>4, <1>5, <1>6, <1>7

LEMMA HostTypesKept ==
  ASSUME TypeOK, Hand, OnLine, [Next]_vars
  PROVE  /\ pending' \in BOOLEAN
         /\ pub' \in [id : 0 .. Len(log'), ts : Stamps, clean : BOOLEAN, capture : BOOLEAN]
         /\ lost' \in [notes : SUBSET Packets', frames : SUBSET Packets']
         /\ sent' \in Seq(Packets')
  <1> DEFINE Pub == [id : 0 .. Len(log'), ts : Stamps, clean : BOOLEAN, capture : BOOLEAN]
             Lost == [notes : SUBSET Packets', frames : SUBSET Packets']
  <1>1. /\ Len(log) \in Nat /\ Len(log') \in Nat /\ Len(log) <= Len(log')
        /\ Packets \subseteq Packets'
    BY LogTypesKept
  <1>2. pending \in BOOLEAN /\ pub \in Pub /\ lost \in Lost
    <2>1. 0 .. Len(log) \subseteq 0 .. Len(log')
      BY <1>1
    <2>2. lost \in [notes : SUBSET Packets, frames : SUBSET Packets]
      BY HostTypes
    <2> QED
      BY <1>1, <2>1, <2>2, HostTypes
  <1>3. sent \in Seq(Packets')
    <2>1. sent \in Seq(Packets)
      BY DEF TypeOK
    <2> QED
      BY <1>1, <2>1, SeqMonotonic
  <1>4. ASSUME line # <<>>
        PROVE  Head(line) = line[1] /\ line[1] \in Events
    <2>1. line \in Seq(Events)
      BY HostTypes
    <2> QED
      BY <1>4, <2>1
  <1>5. ASSUME line # <<>>, line[1].typ # "other"
        PROVE  line[1].id \in Packets' /\ line[1].id \in 0 .. Len(log')
    <2>1. line[1].id \in Packets'
      BY <1>1, <1>5, HeadIsPacket
    <2> QED
      BY <1>1, <2>1 DEF Packets
  <1>6. CASE Deliver
    <2>1. /\ pending' = pending /\ pub' = pub /\ lost' = lost
      BY <1>6 DEF Deliver
    <2>2. pkt.id \in Packets'
      BY <1>1, <1>6 DEF Deliver, Loop, Hand, InHand
    <2>3. sent' = sent \/ sent' = Append(sent, pkt.id)
      BY <1>6, DeliverMoves
    <2> QED
      BY <1>2, <1>3, <2>1, <2>2, <2>3
  <1>7. CASE Lose
    <2>1. line # <<>> /\ pending' = pending /\ pub' = pub /\ sent' = sent
      BY <1>7 DEF Lose
    <2>2. lost' = [notes |-> IF line[1].typ = "note" THEN lost.notes \cup {line[1].id}
                                                     ELSE lost.notes,
                   frames |-> IF line[1].typ = "frame" THEN lost.frames \cup {line[1].id}
                                                       ELSE lost.frames]
      BY <1>4, <1>7, <2>1 DEF Lose
    <2>3. PICK n \in SUBSET Packets', f \in SUBSET Packets' :
            lost' = [notes |-> n, frames |-> f]
      <3>1. lost.notes \subseteq Packets' /\ lost.frames \subseteq Packets'
        BY <1>2
      <3>2. CASE line[1].typ = "note"
        <4>1. lost.notes \cup {line[1].id} \subseteq Packets'
          BY <1>5, <2>1, <3>1, <3>2
        <4> QED
          BY <2>2, <3>1, <3>2, <4>1
      <3>3. CASE line[1].typ = "frame"
        <4>1. lost.frames \cup {line[1].id} \subseteq Packets'
          BY <1>5, <2>1, <3>1, <3>3
        <4> QED
          BY <2>2, <3>1, <3>3, <4>1
      <3>4. CASE line[1].typ # "note" /\ line[1].typ # "frame"
        BY <2>2, <3>1, <3>4
      <3> QED
        BY <3>2, <3>3, <3>4
    <2> QED
      BY <1>2, <1>3, <2>1, <2>3
  <1>8. CASE HandleEvent
    <2>1. line # <<>> /\ lost' = lost /\ sent' = sent
      BY <1>8 DEF HandleEvent
    <2>2. pending' \in BOOLEAN
      BY <1>8 DEF HandleEvent, PendingAfter
    <2>3. pub' = pub \/ (line[1].typ = "frame" /\ pub' = Published(line[1]))
      BY <1>4, <1>8, <2>1 DEF HandleEvent
    <2>4. ASSUME line[1].typ = "frame", pub' = Published(line[1])
          PROVE  pub' \in Pub
      <3>1. PICK c \in BOOLEAN : pub' = [id |-> line[1].id, ts |-> line[1].ts,
                                         clean |-> line[1].clean, capture |-> c]
        BY <2>4 DEF Published
      <3>2. /\ line[1].id \in 0 .. Len(log') /\ line[1].ts \in Stamps
            /\ line[1].clean \in BOOLEAN
        BY <1>4, <1>5, <2>1, <2>4 DEF Events
      <3> QED
        BY <3>1, <3>2
    <2> QED
      BY <1>2, <1>3, <2>1, <2>2, <2>3, <2>4
  <1>9. CASE ~(Deliver \/ Lose \/ HandleEvent)
    <2>1. pending' = pending /\ pub' = pub /\ lost' = lost /\ sent' = sent
      BY <1>9 DEF Next, Isr, MainLoop, Tick, IsrEnter, IsrCapture, Complete, Poll, Identify,
         Count, Baseline, Clear, Arm, StartRx, Issue, Leave, ResetStats, hostVars, vars
    <2> QED
      BY <1>2, <1>3, <2>1
  <1> QED
    BY <1>6, <1>7, <1>8, <1>9

LEMMA StepTypes ==
  TypeOK /\ Clock /\ Edge /\ Hand /\ OnLine /\ [Next]_vars => TypeOK'
  <1> SUFFICES ASSUME TypeOK, Clock, Edge, Hand, OnLine, [Next]_vars PROVE TypeOK'
    OBVIOUS
  <1> QED
    BY LogTypesKept, TimerTypesKept, ChipTypesKept, LoopTypesKept, PacketTypesKept,
       LineTypesKept, HostTypesKept, BudgetTypesKept DEF TypeOK

-----------------------------------------------------------------------------
(* The invariant, and what follows from it.                                 *)

LEMMA InitInv == Init => IInv
  <1> SUFFICES ASSUME Init PROVE IInv
    OBVIOUS
  <1>1. /\ now = BootEnd /\ late = 0 /\ log = <<>> /\ Len(log) = 0 /\ Packets = {}
        /\ Soft \in Stamps
    BY DEF Init, Packets, Stamps
  <1>2. TypeOK
    <2>1. log \in Seq(LogTypes) /\ line \in Seq(Events) /\ sent \in Seq(Packets)
      BY DEF Init
    <2>2. now \in 0 .. MaxNow /\ late \in 0 .. MaxLate /\ Len(log) <= MaxFrames
      BY <1>1, Parameters
    <2>3. tim \in [ccr : 0 .. Wrap - 1, cc3if : BOOLEAN, cc3of : BOOLEAN, uif : BOOLEAN]
      BY Parameters DEF Init
    <2>4. cap \in [wraps : Nat, captures : Nat, over : Nat, ticks : Nat, lat : 0 .. MaxLate]
      BY Parameters DEF Init
    <2>5. pkt \in [crc : BOOLEAN, id : 0 .. Len(log), ts : Stamps, clean : BOOLEAN]
      BY <1>1 DEF Init, NoPacket
    <2>6. budget \in [resets : 0 .. MaxResets, leaves : 0 .. MaxLeaves, losses : 0 .. MaxLost]
      BY Parameters DEF Init
    <2>7. pub \in [id : 0 .. Len(log), ts : Stamps, clean : BOOLEAN, capture : BOOLEAN]
      BY <1>1 DEF Init
    <2>8. hist \in [mark : 0 .. Len(log), open : 0 .. Len(log), reset : BOOLEAN]
      BY <1>1 DEF Init
    <2>9. chip \in [rx : BOOLEAN, done : BOOLEAN, crc : BOOLEAN, last : Nat, count : Nat]
            /\ chip.last <= Len(log)
      BY <1>1 DEF Init
    <2>10. win \in [edges : Nat, over : Nat, base : Nat, next : Nat, dirty : BOOLEAN]
      BY DEF Init
    <2> QED
      BY <2>1, <2>2, <2>3, <2>4, <2>5, <2>6, <2>7, <2>8, <2>9, <2>10 DEF Init, TypeOK
  <1>3. Clock
    <2>1. BootEnd % Wrap = BootEnd
      BY Parameters
    <2> QED
      BY <1>1, <2>1, Parameters DEF Init, Clock, Cnt
  <1>4. Open = {}
    BY <1>1 DEF Open
  <1>5. Edge /\ Captured
    BY <1>1, <1>4 DEF Init, Edge, Captured
  <1>6. Counted /\ Window
    BY <1>1, <1>4 DEF Init, Counted, Window
  <1>7. Hand
    BY <1>1 DEF Init, Hand, InHand, Reading, NoPacket
  <1>8. Written
    BY <1>1 DEF Init, Written, ReportedOnce
  <1>9. OnLine /\ Waiting
    BY DEF Init, OnLine, Waiting
  <1>10. PubOK
    BY DEF Init, PubOK, CapturedIsOwn, CleanIsCaptured, NoteCostsOneFrame
  <1> QED
    BY <1>2, <1>3, <1>5, <1>6, <1>7, <1>8, <1>9, <1>10 DEF IInv

LEMMA InvStep == IInv /\ [Next]_vars => IInv'
  BY StepTypes, StepClock, StepEdge, StepCaptured, StepCounted, StepWindow, StepHand,
     StepWritten, StepHost DEF IInv, HostOK

LEMMA InvHolds == Spec => []IInv
  BY InitInv, InvStep, PTL DEF Spec

\* Every variable keeps its type: a capture that is published is a natural number, its
\* latency stays below half a turn of the timer, and every note, frame and packet in hand
\* is about a packet that completed (on_tim3_irq, poll_rx, send_frame).
THEOREM TypeCorrect == Spec => []TypeOK
  <1>1. IInv => TypeOK
    BY DEF IInv
  <1> QED
    BY <1>1, InvHolds, PTL

\* A frame published as a radio capture, whose own note was not lost, carries the instant
\* at which that very packet completed, and its CRC was good (poll_rx, take_stamp, the
\* packet count across clear_irq, handle_event).
THEOREM CapturedIsOwnAlways == Spec => []CapturedIsOwn
  <1>1. IInv => CapturedIsOwn
    BY DEF IInv, PubOK
  <1> QED
    BY <1>1, InvHolds, PTL

\* A packet that completed alone in its window, with the window open and no counter reset
\* in it, keeps its capture (rxstamp::arm, classify, take_packet_delta).
THEOREM CleanIsCapturedAlways == Spec => []CleanIsCaptured
  <1>1. IInv => CleanIsCaptured
    BY DEF IInv, PubOK
  <1> QED
    BY <1>1, InvHolds, PTL

\* No packet is written twice, although the chip's status and buffer move on while the
\* loop reads them (poll_rx identifies the packet before it clears).
THEOREM ReportedOnceAlways == Spec => []ReportedOnce
  <1>1. IInv => ReportedOnce
    BY DEF IInv, Written
  <1> QED
    BY <1>1, InvHolds, PTL

\* A note costs a captured frame its stamp only when the frame it was for was lost and
\* this one is the next that was sent (pending_stamp in handle_event).
THEOREM NoteCostsOneFrameAlways == Spec => []NoteCostsOneFrame
  <1>1. IInv => NoteCostsOneFrame
    BY DEF IInv, PubOK
  <1> QED
    BY <1>1, InvHolds, PTL

=============================================================================
