------------------------------- MODULE RxStamp -------------------------------
(***************************************************************************)
(* The receive time stamp, from the edge to the published frame: the       *)
(* SX1262 raises DIO1 when a packet completes and holds it until its       *)
(* interrupt is cleared; a 16-bit timer latches its counter at the edge    *)
(* and an interrupt extends it to 64 bits (rxstamp.rs, capture.rs); the    *)
(* main loop reads status, capture, packet and packet count one after the  *)
(* other over SPI, clears, and decides whether the capture may be          *)
(* attributed to the packet (sx1262.rs); a frame whose stamp is not the    *)
(* advertised capture is announced by a note before it (main.rs); the host *)
(* binds the note to the next frame of a line that may lose either         *)
(* (lora_serial.rs).                                                       *)
(*                                                                         *)
(* A packet is its number in `log`, which knows when it completed and      *)
(* whether its CRC was good.  The pending timer interrupt preempts the     *)
(* main loop, so no step of the loop is taken while it is.                 *)
(***************************************************************************)
EXTENDS Integers, Sequences

CONSTANTS
  HwOk,       \* did the capture pass the self-test at boot; EVT_CAP advertises it
  Wrap,       \* one turn of the timer: 65536 ticks in the code
  Word,       \* one turn of the stamp on the line: 2^32 ticks in the code
  MaxLate,    \* ticks an interrupt may be pending: microseconds in the code
  BootEnd,    \* the tick at which boot ends, before the first overflow
  MaxNow,     \* bound: ticks
  MaxFrames,  \* bound: packets on the air
  MaxResets,  \* bound: CMD_RESET_STATS
  MaxLeaves,  \* bound: times the receiver is left and armed again
  MaxLost     \* bound: events lost on the line

Half == Wrap \div 2

ASSUME ParametersAssumption ==
  /\ HwOk \in BOOLEAN
  /\ {Wrap, MaxLate, BootEnd, MaxNow, MaxFrames, MaxResets, MaxLeaves, MaxLost} \subseteq Nat
  /\ Word \in Nat \ {0} /\ Wrap >= 2 /\ 2 * MaxLate <= Half
  /\ BootEnd < Wrap /\ BootEnd <= MaxNow

VARIABLES
  now,      \* true time, in ticks
  late,     \* ticks the timer interrupt has been pending
  log,      \* history: the packets that completed
  chip,     \* the SX1262; DIO1 is high while `done` is
  tim,      \* TIM3: capture register and flags
  isr,      \* "idle", or "capture": between the two halves of on_tim3_irq
  cap,      \* what the interrupt maintains and publishes
  pc,       \* where the main loop is
  ret,      \* what it does when the window is open again
  back,     \* where it goes when the receiver is armed again
  win,      \* the baselines of the open window
  pkt,      \* the packet in hand
  hist,     \* history: the log at the last baseline and at the last arm; a reset since
  line,     \* events on their way to the host
  pending,  \* pending_stamp of the reader thread
  pub,      \* history: the frame last handed up
  lost,     \* history: the packets whose note, and whose frame, was lost
  sent,     \* history: the packets written, in order
  budget    \* resets, leaves and losses left

vars == <<now, late, log, chip, tim, isr, cap, pc, ret, back, win, pkt, hist,
          line, pending, pub, lost, sent, budget>>

Soft == -1   \* a time stamp that is not a capture

\* The 64-bit clock on a line that has 32 bits for it.
OnWire(ts) == IF ts = Soft THEN Soft ELSE ts % Word

Packets == 1 .. Len(log)
LogTypes == [at : 0 .. MaxNow, good : BOOLEAN]
Stamps == {Soft} \cup Nat
Kinds == {"note", "frame", "other"}
Events == [typ : Kinds, id : Nat, ts : Stamps, clean : BOOLEAN]

TypeOK ==
  /\ now \in 0 .. MaxNow /\ late \in 0 .. MaxLate
  /\ log \in Seq(LogTypes) /\ Len(log) <= MaxFrames
  /\ chip \in [rx : BOOLEAN, done : BOOLEAN, crc : BOOLEAN, last : Nat, count : Nat]
  /\ chip.last <= Len(log)
  /\ tim \in [ccr : 0 .. Wrap - 1, cc3if : BOOLEAN, cc3of : BOOLEAN, uif : BOOLEAN]
  /\ isr \in {"idle", "capture"}
  /\ cap \in [wraps : Nat, captures : Nat, over : Nat, ticks : Nat, lat : 0 .. MaxLate]
  /\ pc \in {"loop", "ident", "count", "base", "clear", "arm", "issue",
             "off", "deliver"}
  /\ ret \in {"deliver", "off", "on"} /\ back \in {"loop", "deliver"}
  /\ win \in [edges : Nat, over : Nat, base : Nat, next : Nat, dirty : BOOLEAN]
  /\ pkt \in [crc : BOOLEAN, id : 0 .. Len(log), ts : Stamps, clean : BOOLEAN]
  /\ hist \in [mark : 0 .. Len(log), open : 0 .. Len(log), reset : BOOLEAN]
  /\ line \in Seq(Events)
  /\ pending \in BOOLEAN
  /\ pub \in [id : 0 .. Len(log), ts : Stamps, clean : BOOLEAN, capture : BOOLEAN]
  /\ lost \in [notes : SUBSET Packets, frames : SUBSET Packets]
  /\ sent \in Seq(Packets)
  /\ budget \in [resets : 0 .. MaxResets, leaves : 0 .. MaxLeaves, losses : 0 .. MaxLost]

NoPacket == [crc |-> FALSE, id |-> 0, ts |-> Soft, clean |-> FALSE]

\* Boot has ended: the receiver is armed and the first window is open.
Init ==
  /\ now = BootEnd /\ late = 0 /\ log = <<>>
  /\ chip = [rx |-> TRUE, done |-> FALSE, crc |-> FALSE, last |-> 0, count |-> 0]
  /\ tim = [ccr |-> 0, cc3if |-> FALSE, cc3of |-> FALSE, uif |-> FALSE]
  /\ isr = "idle"
  /\ cap = [wraps |-> 0, captures |-> 0, over |-> 0, ticks |-> 0, lat |-> 0]
  /\ pc = "loop" /\ ret = "deliver" /\ back = "loop"
  /\ win = [edges |-> 0, over |-> 0, base |-> 0, next |-> 0, dirty |-> FALSE]
  /\ pkt = NoPacket
  /\ hist = [mark |-> 0, open |-> 0, reset |-> FALSE]
  /\ line = <<>> /\ pending = FALSE
  /\ pub = [id |-> 0, ts |-> Soft, clean |-> FALSE, capture |-> FALSE]
  /\ lost = [notes |-> {}, frames |-> {}] /\ sent = <<>>
  /\ budget = [resets |-> MaxResets, leaves |-> MaxLeaves, losses |-> MaxLost]

airVars == <<now, late, log>>
nodeVars == <<pc, ret, back, win, pkt, hist>>
hostVars == <<line, pending, pub, lost, sent>>

-----------------------------------------------------------------------------
(* The timer.                                                              *)

Cnt == now % Wrap

IsrPending == tim.uif \/ tim.cc3if \/ isr # "idle"

\* A pending overflow belongs to a small count: the wrap came before it was read.
Extend(wraps, cnt, uif) ==
  (IF uif /\ cnt < Half THEN wraps + 1 ELSE wraps) * Wrap + cnt

Ticks64 == Extend(cap.wraps, Cnt, tim.uif)

\* Mutant of Latency: the difference is not taken in 16 bits.
LatencyUnwrapped(cc) == Cnt - cc
\* reconstruct: how long before the clock was read the count cc was latched.
Latency(cc) == (Cnt - cc) % Wrap

Tick ==
  /\ now < MaxNow
  /\ IsrPending => late < MaxLate
  /\ now' = now + 1
  /\ late' = IF IsrPending THEN late + 1 ELSE 0
  /\ tim' = [tim EXCEPT !.uif = @ \/ (now + 1) % Wrap = 0]
  /\ UNCHANGED <<log, chip, isr, cap, nodeVars, hostVars, budget>>

\* on_tim3_irq samples the flags and counts an overflow; with no capture in the
\* sample it is over.
IsrEnter ==
  /\ isr = "idle" /\ IsrPending
  /\ tim' = [tim EXCEPT !.uif = FALSE]
  /\ cap' = [cap EXCEPT !.wraps = IF tim.uif THEN @ + 1 ELSE @]
  /\ isr' = IF tim.cc3if THEN "capture" ELSE "idle"
  /\ late' = IF tim.cc3if THEN late ELSE 0
  /\ UNCHANGED <<now, log, chip, nodeVars, hostVars, budget>>

\* The capture is read, its flags are cleared, and the stamp is published.  DIO1 is
\* high all the while, so no second edge falls between the reads.
IsrCapture ==
  /\ isr = "capture"
  /\ tim' = [tim EXCEPT !.cc3if = FALSE, !.cc3of = FALSE]
  /\ cap' = [cap EXCEPT !.captures = @ + 1,
                        !.over = IF tim.cc3of THEN @ + 1 ELSE @,
                        !.ticks = Ticks64 - Latency(tim.ccr),
                        !.lat = Latency(tim.ccr)]
  /\ isr' = "idle" /\ late' = 0
  /\ UNCHANGED <<now, log, chip, nodeVars, hostVars, budget>>

-----------------------------------------------------------------------------
(* The chip.                                                               *)

\* A packet completes while the receiver is armed: buffer, status and count move to
\* it.  It raises an edge only if DIO1 was low.  A bad one is counted once or twice,
\* the data sheet does not say.
Complete(good) ==
  /\ chip.rx /\ Len(log) < MaxFrames
  /\ log' = Append(log, [at |-> now, good |-> good])
  /\ \E n \in IF good THEN {1} ELSE {1, 2} :
       chip' = [chip EXCEPT !.done = TRUE, !.crc = @ \/ ~good,
                            !.last = Len(log) + 1, !.count = @ + n]
  /\ tim' = IF chip.done THEN tim
            ELSE [tim EXCEPT !.ccr = Cnt, !.cc3if = TRUE, !.cc3of = @ \/ tim.cc3if]
  /\ UNCHANGED <<now, late, isr, cap, nodeVars, hostVars, budget>>

-----------------------------------------------------------------------------
(* The attribution of a capture.                                           *)

\* classify: only a single edge, none lost, read in time, is a capture.
Classify(edges, over, lat, ticks) ==
  IF edges = 1 /\ over = 0 /\ lat <= Half THEN ticks ELSE Soft

\* rxstamp::take
TakeStamp ==
  IF HwOk
    THEN Classify(cap.captures - win.edges, cap.over - win.over, cap.lat, cap.ticks)
    ELSE Soft

\* Mutant of Attribute: the timer's verdict stands.
AttributeTimerOnly(ts, delta) == ts
\* Exactly one packet may have completed in the window that supplied the edge.
Attribute(ts, delta) == IF delta = 1 THEN ts ELSE Soft

-----------------------------------------------------------------------------
(* The main loop.                                                          *)

\* The loop runs while no interrupt is pending; send_frame returns when what it wrote
\* is on the wire, and it does not matter to the node when the host reads it.
Runs == ~IsrPending /\ line = <<>>

Loop(at, next) == pc = at /\ Runs /\ pc' = next

\* poll_rx: the status is the reason, the capture the instant.  DIO1 is high, so
\* nothing that completes between the two reads changes the second.
Poll ==
  /\ Loop("loop", "ident")
  /\ chip.done
  /\ pkt' = [NoPacket EXCEPT !.crc = chip.crc, !.ts = TakeStamp]
  /\ UNCHANGED <<airVars, chip, tim, isr, cap, ret, back, win, hist, hostVars, budget>>

\* GetRxBufferStatus and GetPacketStatus: which packet it is.
Identify ==
  /\ Loop("ident", "count")
  /\ pkt' = [pkt EXCEPT !.id = chip.last]
  /\ UNCHANGED <<airVars, chip, tim, isr, cap, ret, back, win, hist, hostVars, budget>>

\* The chip's packet count closes the window and is the next one's baseline; a window
\* in which the counters were reset is not attributed.
Delta == IF win.dirty THEN 0 ELSE chip.count - win.base

Count ==
  /\ Loop("count", "clear") /\ ret' = "deliver"
  /\ pkt' = [pkt EXCEPT !.ts = Attribute(@, Delta),
                        !.clean = /\ HwOk /\ ~hist.reset
                                  /\ hist.open = hist.mark
                                  /\ Len(log) = hist.mark + 1
                                  /\ log[Len(log)].good]
  /\ win' = [win EXCEPT !.next = chip.count, !.dirty = FALSE]
  /\ hist' = [hist EXCEPT !.mark = Len(log), !.reset = FALSE]
  /\ UNCHANGED <<airVars, chip, tim, isr, cap, back, hostVars, budget>>

\* clear_irq reads the baseline itself, before the clear.
Baseline ==
  /\ Loop("base", "clear")
  /\ win' = [win EXCEPT !.next = chip.count]
  /\ hist' = [hist EXCEPT !.mark = Len(log)]
  /\ UNCHANGED <<airVars, chip, tim, isr, cap, ret, back, pkt, hostVars, budget>>

\* clear_irq_from: ClearIrqStatus drops DIO1.
Clear ==
  /\ Loop("clear", "arm")
  /\ chip' = [chip EXCEPT !.done = FALSE, !.crc = FALSE]
  /\ win' = [win EXCEPT !.base = win.next]
  /\ UNCHANGED <<airVars, tim, isr, cap, ret, back, pkt, hist, hostVars, budget>>

\* Mutant of ArmTimer: the edge count is not re-based.
ArmTimerFlagsOnly ==
  /\ tim' = [tim EXCEPT !.cc3if = FALSE, !.cc3of = FALSE]
  /\ win' = [win EXCEPT !.over = cap.over]
\* rxstamp::arm: pending edges are discarded and the counts re-based.
ArmTimer ==
  /\ tim' = [tim EXCEPT !.cc3if = FALSE, !.cc3of = FALSE]
  /\ win' = [win EXCEPT !.edges = cap.captures, !.over = cap.over]

Arm ==
  /\ Loop("arm", IF ret = "deliver" THEN "deliver" ELSE "issue")
  /\ ArmTimer
  /\ hist' = [hist EXCEPT !.open = Len(log)]
  /\ UNCHANGED <<airVars, chip, isr, cap, ret, back, pkt, hostVars, budget>>

\* The receiver is left: for a transmission or carrier sense, which clear while it is
\* still armed, or for standby (a staged frame, a setting).  A packet in hand is
\* relayed this way before it is delivered.
Leave ==
  /\ pc \in {"loop", "deliver"} /\ Runs
  /\ budget.leaves > 0 /\ budget' = [budget EXCEPT !.leaves = @ - 1]
  /\ pc = "deliver" => ~pkt.crc
  /\ \E armed \in BOOLEAN : chip' = [chip EXCEPT !.rx = armed]
  /\ pc' = "base" /\ ret' = "off" /\ back' = pc
  /\ UNCHANGED <<airVars, tim, isr, cap, win, pkt, hist, hostVars>>

\* start_rx; the node has something to report by then.
StartRx ==
  /\ Loop("off", "base") /\ ret' = "on"
  /\ line' = IF back = "loop"
               THEN Append(line, [typ |-> "other", id |-> 0, ts |-> Soft, clean |-> FALSE])
               ELSE line
  /\ UNCHANGED <<airVars, chip, tim, isr, cap, back, win, pkt, hist,
                 pending, pub, lost, sent, budget>>

\* SetTx, SetCad or standby ends the reception; SetRx begins it.
Issue ==
  /\ Loop("issue", IF ret = "on" THEN back ELSE "off")
  /\ chip' = [chip EXCEPT !.rx = ret = "on"]
  /\ ret' = "deliver" /\ back' = IF ret = "on" THEN "loop" ELSE back
  /\ UNCHANGED <<airVars, tim, isr, cap, win, pkt, hist, hostVars, budget>>

\* reset_stats zeroes the chip's counts and the baseline under an open window.
ResetWindow == [win EXCEPT !.base = 0, !.dirty = TRUE]

\* CMD_RESET_STATS, served by the loop and while a staged frame waits.
ResetStats ==
  /\ pc = "loop" \/ (pc = "off" /\ back = "loop")
  /\ Runs
  /\ budget.resets > 0 /\ budget' = [budget EXCEPT !.resets = @ - 1]
  /\ chip' = [chip EXCEPT !.count = 0]
  /\ win' = ResetWindow
  /\ hist' = [hist EXCEPT !.reset = TRUE]
  /\ line' = Append(line, [typ |-> "other", id |-> 0, ts |-> Soft, clean |-> FALSE])
  /\ UNCHANGED <<airVars, tim, isr, cap, pc, ret, back, pkt, pending, pub, lost, sent>>

\* note_needed: this frame's kind is not the advertised one.
NoteNeeded == HwOk /\ pkt.ts = Soft

\* Mutant of Reported: the packet is identified after the clear, as it once was.
ReportedLate == chip.last
\* The packet that is reported: the one the chip described before the clear.
Reported == pkt.id

\* The packet in hand is dropped (a CRC error, the node's filter, a content store
\* hit) or written, behind its note if it needs one.
Deliver ==
  /\ Loop("deliver", "loop")
  /\ \E drop \in BOOLEAN :
       /\ pkt.crc => drop
       /\ IF drop THEN UNCHANGED <<line, sent>>
          ELSE /\ line' = line
                 \o (IF NoteNeeded THEN <<[typ |-> "note", id |-> Reported, ts |-> Soft,
                                           clean |-> FALSE]>> ELSE <<>>)
                 \o <<[typ |-> "frame", id |-> Reported, ts |-> OnWire(pkt.ts),
                        clean |-> pkt.clean]>>
               /\ sent' = Append(sent, Reported)
  /\ pkt' = NoPacket
  /\ UNCHANGED <<airVars, chip, tim, isr, cap, ret, back, win, hist,
                 pending, pub, lost, budget>>

-----------------------------------------------------------------------------
(* The line and the host.                                                  *)

\* An event is damaged and skipped by the host's parser.
Lose ==
  /\ line # <<>> /\ budget.losses > 0
  /\ budget' = [budget EXCEPT !.losses = @ - 1]
  /\ line' = Tail(line)
  /\ LET e == Head(line) IN
       lost' = [notes |-> IF e.typ = "note" THEN lost.notes \cup {e.id} ELSE lost.notes,
                frames |-> IF e.typ = "frame" THEN lost.frames \cup {e.id} ELSE lost.frames]
  /\ UNCHANGED <<airVars, chip, tim, isr, cap, nodeVars, pending, pub, sent>>

\* Mutant of PendingAfter: the frame does not consume the note.
PendingAfterKept(e) == pending \/ e.typ = "note"
\* A note waits for the next frame; any other event drops it.
PendingAfter(e) == e.typ = "note"

\* rx_stamp: the worse of what the node advertises and what the note says.
Published(e) == [id |-> e.id, ts |-> e.ts, clean |-> e.clean, capture |-> HwOk /\ ~pending]

\* handle_event
HandleEvent ==
  /\ line # <<>> /\ line' = Tail(line)
  /\ pending' = PendingAfter(Head(line))
  /\ pub' = IF Head(line).typ = "frame" THEN Published(Head(line)) ELSE pub
  /\ UNCHANGED <<airVars, chip, tim, isr, cap, nodeVars, lost, sent, budget>>

-----------------------------------------------------------------------------
Isr == IsrEnter \/ IsrCapture

MainLoop ==
  Poll \/ Identify \/ Count \/ Baseline \/ Clear \/ Arm \/ StartRx \/ Issue \/ Deliver

Next ==
  \/ Tick
  \/ Isr
  \/ \E good \in BOOLEAN : Complete(good)
  \/ MainLoop
  \/ Leave
  \/ ResetStats
  \/ Lose
  \/ HandleEvent

Spec == Init /\ [][Next]_vars

-----------------------------------------------------------------------------
(* What is promised.                                                       *)

\* A frame published as a radio capture, whose own note was not lost, carries the
\* instant at which that very packet completed, as 32 bits tell it, and its CRC was
\* good: whatever completed meanwhile, before or after the clear, across a wrap or a
\* counter reset.
CapturedIsOwn ==
  pub.capture /\ pub.id \notin lost.notes =>
    pub.ts = OnWire(log[pub.id].at) /\ log[pub.id].good

\* The rules discard no good stamp: a packet that completed alone in its window, with
\* the window open and no reset in it, keeps its capture.
CleanIsCaptured == pub.clean => pub.ts = OnWire(log[pub.id].at)

\* No packet is reported twice, although the chip's buffer and status move on while
\* the loop reads them.
ReportedOnce == \A i, j \in 1 .. Len(sent) : sent[i] = sent[j] => i = j

\* A note never costs a captured frame its stamp, except when the frame it was for
\* was lost and this one is the next that was sent.
NoteCostsOneFrame ==
  ~pub.capture /\ pub.ts # Soft =>
    \E i \in 2 .. Len(sent) : sent[i] = pub.id /\ sent[i - 1] \in lost.frames

=============================================================================
