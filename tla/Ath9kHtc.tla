------------------------------ MODULE Ath9kHtc ------------------------------
(***************************************************************************)
(* The AR9271 backend's register path (ath9k_htc.rs): every register       *)
(* access of every thread is one WMI command on one pair of USB pipes,     *)
(* serialised by the mutex around the sequence number and matched with its *)
(* reply by that number.  On it run the operations of the radio's knobs    *)
(* (set_channel with its live width change, set_tx_power) and of its       *)
(* clock (read_clock), each a sequence of commands that may fail between   *)
(* any two of them.                                                        *)
(*                                                                         *)
(* `todo[t]` is what thread t still has to do: commands, and calls of      *)
(* routines that are expanded when they are reached, so that each reads    *)
(* the mirrors `channel`, `width` and `power` when the code does.  The     *)
(* target is external: it serves its commands in order.                    *)
(***************************************************************************)
EXTENDS Integers, Sequences

CONSTANTS
  Threads,
  Ops,          \* the operations each thread calls
  Channels,     \* the channels asked for, below 14
  TopLevel,     \* the highest level of TX_GAIN_LADDER
  CalApplied,   \* was the EEPROM power calibration applied at open
  SeqMod,       \* bound: the sequence number is a u16
  RecvTries,    \* attempts of the receive loop, 16 in the code
  ClockWord,    \* the TSF's low word counts modulo this
  HomeChannel, HomeWidth,  \* what the radio was opened with
  MaxCalls,     \* bound: operations of each thread
  MaxFaults,    \* bound: lost, late or damaged messages and failed writes
  MaxEvents,    \* bound: unsolicited messages of the target
  MaxTime       \* bound: the TSF's last value

ASSUME ParametersAssumption ==
  /\ Ops \in [Threads -> SUBSET {"tune", "power", "clock"}]
  /\ Channels \cup {HomeChannel} \subseteq Nat
  /\ HomeWidth \in {20, 40}
  /\ MaxCalls \in [Threads -> Nat]
  /\ CalApplied \in {0, 1}
  /\ {TopLevel, SeqMod, RecvTries, ClockWord, MaxFaults, MaxEvents, MaxTime} \subseteq Nat
  /\ SeqMod >= 1 /\ RecvTries >= 1 /\ ClockWord >= 1
  /\ "nobody" \notin Threads

VARIABLES
  todo,       \* what is left of each thread's operation
  op,         \* the operation, with its arguments
  pc,         \* "idle" | "run" | "wait" for the reply to the head of todo
  seq, lock,  \* the sequence number, and who holds its mutex
  out, in,    \* the register pipes: commands and messages in order
  tries,      \* receive attempts left to the holder of the lock
  channel, width, power,  \* the mirrors channel, ht40 and cur_power
  chip,       \* the registers that matter
  tsf,
  got,        \* the clock words a thread has read
  since,      \* history: the TSF when its operation began
  asked,      \* history: the gain level last asked for, or -1
  crossed,    \* history: a command returned something else than its own reply
  failed,     \* history: the threads that had a command fail, or a calibration not end
  calls, faults, events

vars == <<todo, op, pc, seq, lock, out, in, tries, channel, width, power, chip,
          tsf, got, since, asked, crossed, failed, calls, faults, events>>

Levels == 0..TopLevel
Widths == {20, 40}
Mhz(c) == 2407 + 5 * c

Routines == {"set_channel", "set_bandwidth", "apply_initvals", "retune",
             "set_channel_and_cal", "rf_set_freq", "reapply_power_state",
             "set_tx_gain_level", "set_tx_power", "read_clock", "clock_words"}
Registers == {"synth", "turbo", "column", "gain", "board"}
Places == Registers \cup {"agc", "tables", "hi", "lo"} \cup Routines
Steps == [do: {"call", "read", "write", "wait"}, at: Places, arg: Nat,
          over: 0..3]

\* `over`: how many steps its failure passes over, itself included; 0 when its error is
\* the operation's.
Step(do, at, arg) == [do |-> do, at |-> at, arg |-> arg, over |-> 0]
Call(routine, arg) == Step("call", routine, arg)
Read(reg) == Step("read", reg, 0)
Write(reg, v) == Step("write", reg, v)
PassedOver(step, n) == [step EXCEPT !.over = n]

\* reg_set_bit and reg_clr_bit.  The read before the write is left out: these
\* registers are the tuning thread's alone.
SetBit(reg, b) == <<Write(reg, b)>>

-----------------------------------------------------------------------------
(* The routines: what each one does next, from the mirrors of the moment.  *)

\* ar9271_cl_cal_ht20: DYN2040 is set for the parallel calibration and cleared
\* after it.  When the wait fails the routine returns Ok(false) at once.  The writes
\* to the calibration's own registers are left out.
ClCal ==
  SetBit("turbo", 1)
    \o <<PassedOver(Step("wait", "agc", 0), 3)>>
    \o SetBit("turbo", 0)
    \o <<PassedOver(Step("wait", "agc", 0), 1)>>

\* set_channel_and_cal.
SetChannelAndCal(mhz) == <<Call("rf_set_freq", mhz)>> \o ClCal

\* rf_set_freq: the synthesiser takes the centre of the 40 MHz band.
RfSetFreq(mhz) ==
  <<Write("synth", IF width = 40 THEN mhz + 10 ELSE mhz)>>

\* apply_initvals: the column of the width, the gain table (which overwrites the
\* gain and the board calibration), and DYN2040 as the width needs it.
ApplyInitvals ==
  <<Write("tables", width)>>
    \o SetBit("turbo", IF width = 40 THEN 1 ELSE 0)

\* Mutant: the width change leaves the power state as the tables put it.
SetBandwidthWithoutPower(w) ==
  <<Call("apply_initvals", 0), Call("retune", 0)>>
    \o (IF w = 40 THEN SetBit("turbo", 1) ELSE <<>>)

\* set_bandwidth after it has stored the width.
SetBandwidth(w) ==
  <<Call("apply_initvals", 0), Call("retune", 0)>>
    \o (IF w = 40 THEN SetBit("turbo", 1) ELSE <<>>)
    \o <<Call("reapply_power_state", 0)>>

\* reapply_power_state: a failed board calibration is printed and passed over.
ReapplyPowerState ==
  (IF CalApplied = 1 THEN <<PassedOver(Write("board", 1), 1)>> ELSE <<>>)
    \o <<Call("set_tx_gain_level", power)>>

ReadClock == <<Read("hi"), Read("lo"), Read("hi"), Call("clock_words", 0)>>

-----------------------------------------------------------------------------
Init ==
  /\ todo = [t \in Threads |-> <<>>]
  /\ op = [t \in Threads |-> "none"]
  /\ pc = [t \in Threads |-> "idle"]
  /\ seq = 0 /\ lock = "nobody"
  /\ out = <<>> /\ in = <<>>
  /\ tries = 0
  /\ channel = HomeChannel /\ width = HomeWidth
  /\ power = 0
  /\ chip = [synth |-> Mhz(channel) + (IF width = 40 THEN 10 ELSE 0),
             turbo |-> IF width = 40 THEN 1 ELSE 0,
             column |-> width, gain |-> TopLevel, board |-> CalApplied]
  /\ tsf = ClockWord - 1
  /\ got = [t \in Threads |-> <<>>]
  /\ since = [t \in Threads |-> 0]
  /\ asked = -1
  /\ crossed = FALSE
  /\ failed = {}
  /\ calls = [t \in Threads |-> 0]
  /\ faults = 0 /\ events = 0

mirrors == <<channel, width, power>>
pipes == <<seq, lock, out, in, tries>>
history == <<since, asked, crossed, failed>>
bounds == <<calls, faults, events>>

Begin(t, name, steps) ==
  /\ pc[t] = "idle"
  /\ name \in Ops[t]
  /\ calls[t] < MaxCalls[t]
  /\ calls' = [calls EXCEPT ![t] = @ + 1]
  /\ pc' = [pc EXCEPT ![t] = "run"]
  /\ op' = [op EXCEPT ![t] = name]
  /\ todo' = [todo EXCEPT ![t] = steps]
  /\ since' = [since EXCEPT ![t] = tsf]
  /\ UNCHANGED <<pipes, got, chip, tsf, crossed, failed, faults, events>>

\* set_channel: nothing to do for the same channel and width; otherwise the
\* channel is recorded and a width change reprograms the PHY, another channel
\* only the synthesiser and the calibration.
SetChannel(t, c, w) ==
  /\ Begin(t, "tune",
           IF w # width THEN <<Call("set_bandwidth", w)>>
           ELSE IF c # channel THEN SetChannelAndCal(Mhz(c))
           ELSE <<>>)
  /\ channel' = c
  /\ UNCHANGED <<width, power, asked>>

\* set_tx_power: the mirror first, then the ladder.
SetTxPower(t, level) ==
  /\ Begin(t, "power", <<Call("set_tx_gain_level", level)>>)
  /\ power' = level
  /\ asked' = level
  /\ UNCHANGED <<channel, width>>

ReadClockCall(t) ==
  /\ Begin(t, "clock", ReadClock)
  /\ UNCHANGED <<mirrors, asked>>

Reached(t, routine) ==
  /\ pc[t] = "run" /\ todo[t] # <<>>
  /\ Head(todo[t]).do = "call" /\ Head(todo[t]).at = routine

Enter(t, steps) ==
  /\ todo' = [todo EXCEPT ![t] = steps \o Tail(@)]
  /\ UNCHANGED <<op, pc, pipes, channel, power, chip, tsf, got, history, bounds>>

EnterSetBandwidth(t) ==
  /\ Reached(t, "set_bandwidth")
  /\ width' = Head(todo[t]).arg
  /\ Enter(t, SetBandwidth(Head(todo[t]).arg))

EnterRoutine(t) ==
  /\ \/ Reached(t, "apply_initvals") /\ Enter(t, ApplyInitvals)
     \/ Reached(t, "retune") /\ Enter(t, SetChannelAndCal(Mhz(channel)))
     \/ Reached(t, "rf_set_freq") /\ Enter(t, RfSetFreq(Head(todo[t]).arg))
     \/ Reached(t, "reapply_power_state") /\ Enter(t, ReapplyPowerState)
     \/ /\ Reached(t, "set_tx_gain_level")
        /\ Enter(t, <<Write("gain", Head(todo[t]).arg)>>)
     \/ /\ Reached(t, "clock_words")
        /\ Enter(t, IF got[t][1] = got[t][3] THEN <<>> ELSE <<Read("lo")>>)
  /\ UNCHANGED width

Forget(t) ==
  /\ op' = [op EXCEPT ![t] = "none"]
  /\ pc' = [pc EXCEPT ![t] = "idle"]
  /\ todo' = [todo EXCEPT ![t] = <<>>]
  /\ got' = [got EXCEPT ![t] = <<>>]
  /\ since' = [since EXCEPT ![t] = 0]

\* The operation returns Ok.
Return(t) ==
  /\ pc[t] = "run" /\ todo[t] = <<>>
  /\ Forget(t)
  /\ UNCHANGED <<pipes, mirrors, chip, tsf, asked, crossed, failed, bounds>>

\* Mutant: the second high word with the first low word.
ClockReadTorn(words) == words[3] * ClockWord + words[2]

\* What read_clock makes of its words.
ClockRead(words) ==
  words[3] * ClockWord + (IF Len(words) = 4 THEN words[4] ELSE words[2])

-----------------------------------------------------------------------------
(* wmi_cmd.                                                                *)

\* Mutant: the number is bumped under the mutex, which is not held for the reply.
SendUnlocked(t) ==
  /\ pc[t] = "run" /\ todo[t] # <<>> /\ Head(todo[t]).do # "call"
  /\ lock' = t
  /\ seq' = (seq + 1) % SeqMod
  /\ out' = Append(out, [seq |-> seq', by |-> t, step |-> Head(todo[t])])
  /\ tries' = RecvTries
  /\ pc' = [pc EXCEPT ![t] = "wait"]
  /\ UNCHANGED <<todo, op, in, mirrors, chip, tsf, got, history, bounds>>

\* The mutex is taken, the number bumped, the command written.
Send(t) ==
  /\ pc[t] = "run" /\ todo[t] # <<>> /\ Head(todo[t]).do # "call"
  /\ lock = "nobody"
  /\ lock' = t
  /\ seq' = (seq + 1) % SeqMod
  /\ out' = Append(out, [seq |-> seq', by |-> t, step |-> Head(todo[t])])
  /\ tries' = RecvTries
  /\ pc' = [pc EXCEPT ![t] = "wait"]
  /\ UNCHANGED <<todo, op, in, mirrors, chip, tsf, got, history, bounds>>

\* What is left after the steps that a failure of the head passes over.
PassOver(steps) == SubSeq(steps, Head(steps).over + 1, Len(steps))

Orphaned(t, pipe) ==
  [i \in DOMAIN pipe |-> IF pipe[i].by = t THEN [pipe[i] EXCEPT !.by = "nobody"]
                                           ELSE pipe[i]]

\* A command of thread t returns Err and the mutex is released.  The waits of the
\* calibration end that routine, a failed board calibration is passed over; every
\* other error is the operation's.
CommandFails(t) ==
  /\ IF Head(todo[t]).over > 0
     THEN /\ todo' = [todo EXCEPT ![t] = PassOver(@)]
          /\ pc' = [pc EXCEPT ![t] = "run"]
          /\ UNCHANGED <<op, got, since>>
     ELSE Forget(t)
  /\ failed' = failed \cup {t}
  /\ lock' = "nobody"
  /\ tries' = 0
  /\ UNCHANGED <<mirrors, chip, tsf, asked, crossed, calls, events>>

\* htc_send fails: nothing was written.
SendFails(t) ==
  /\ pc[t] = "run" /\ todo[t] # <<>> /\ Head(todo[t]).do # "call"
  /\ lock = "nobody"
  /\ faults < MaxFaults /\ faults' = faults + 1
  /\ seq' = (seq + 1) % SeqMod
  /\ CommandFails(t)
  /\ UNCHANGED <<out, in>>

\* The command succeeds with the value of its reply m.  A wait whose last poll
\* still finds the calibration running ends ar9271_cl_cal_ht20, without an error.
CommandSucceeds(t, m) ==
  /\ LET s == Head(todo[t])
     IN /\ todo' = [todo EXCEPT ![t] =
                      IF s.do = "wait" /\ m.val = 1 THEN PassOver(@) ELSE Tail(@)]
        /\ failed' = IF s.do = "wait" /\ m.val = 1 THEN failed \cup {t} ELSE failed
        /\ got' = IF s.at \in {"hi", "lo"} THEN [got EXCEPT ![t] = Append(@, m.val)]
                                           ELSE got
  /\ pc' = [pc EXCEPT ![t] = "run"]
  /\ lock' = "nobody"
  /\ tries' = 0
  /\ crossed' = (crossed \/ m.by # t)
  /\ UNCHANGED <<op, seq, out, mirrors, chip, tsf, since, asked, bounds>>

\* A message that is skipped: an event, a runt, a reply to an earlier command.
\* The last attempt gives up.
Skip(t) ==
  IF tries > 1
  THEN /\ tries' = tries - 1
       /\ UNCHANGED <<todo, op, pc, seq, lock, out, mirrors, chip, tsf, got,
                      history, bounds>>
  ELSE /\ out' = Orphaned(t, out)
       /\ CommandFails(t)
       /\ UNCHANGED <<seq, faults>>

\* Mutant: the first reply that comes is taken.
IsAnyReply(m) == m.kind = "reply"

IsOwnReply(m) == m.kind = "reply" /\ m.seq = seq

\* One htc_recv of the receive loop that returns a message.
Receive(t) ==
  /\ pc[t] = "wait" /\ in # <<>>
  /\ LET m == Head(in) IN
     \/ /\ IsOwnReply(m)
        /\ in' = Tail(in)
        /\ CommandSucceeds(t, m)
     \/ /\ m.kind # "bad" /\ ~IsOwnReply(m)
        /\ in' = IF tries > 1 THEN Tail(in) ELSE Orphaned(t, Tail(in))
        /\ Skip(t)
     \/ /\ m.kind = "bad"
        /\ in' = Orphaned(t, Tail(in))
        /\ out' = Orphaned(t, out)
        /\ CommandFails(t)
        /\ UNCHANGED <<seq, faults>>

\* Mutant: the pipe is read without a timeout.
TimeoutNever(t) == FALSE /\ UNCHANGED vars

\* htc_recv times out.  With the command still on its way that is a fault of the
\* target: it answers too late.
Timeout(t) ==
  /\ pc[t] = "wait" /\ in = <<>>
  /\ IF out = <<>> THEN faults' = faults
                   ELSE faults < MaxFaults /\ faults' = faults + 1
  /\ out' = Orphaned(t, out)
  /\ CommandFails(t)
  /\ UNCHANGED <<seq, in>>

-----------------------------------------------------------------------------
(* The target, external: it executes its commands in order.                *)

Served(s) ==
  IF s.do # "write" THEN chip
  ELSE IF s.at = "tables"
       THEN [chip EXCEPT !.column = s.arg, !.gain = TopLevel, !.board = 0]
  ELSE [chip EXCEPT ![s.at] = s.arg]

\* What a command answers; a calibration may be over or not.
Answers(s) ==
  CASE s.do = "wait" -> {0, 1}
    [] s.do = "read" /\ s.at = "hi" -> {tsf \div ClockWord}
    [] s.do = "read" /\ s.at = "lo" -> {tsf % ClockWord}
    [] OTHER -> {0}

TargetServes ==
  /\ out # <<>>
  /\ LET c == Head(out) IN
     /\ chip' = Served(c.step)
     /\ \E v \in Answers(c.step) :
          in' = Append(in, [kind |-> "reply", seq |-> c.seq, by |-> c.by, val |-> v])
  /\ out' = Tail(out)
  /\ UNCHANGED <<todo, op, pc, seq, lock, tries, mirrors, tsf, got, history, bounds>>

\* A command is not executed, or executed and its reply lost.
TargetDrops ==
  /\ out # <<>>
  /\ faults < MaxFaults /\ faults' = faults + 1
  /\ chip' \in {chip, Served(Head(out).step)}
  /\ out' = Tail(out)
  /\ UNCHANGED <<todo, op, pc, seq, lock, in, tries, mirrors, tsf, got, history,
                 calls, events>>

Message(kind) == [kind |-> kind, seq |-> 0, by |-> "nobody", val |-> 0]

\* An event.  One that comes when no command is on its way is skipped by the next
\* command all the same.
TargetEvent ==
  /\ in = <<>> /\ out # <<>>
  /\ events < MaxEvents /\ events' = events + 1
  /\ in' = Append(in, Message("event"))
  /\ UNCHANGED <<todo, op, pc, seq, lock, out, tries, mirrors, chip, tsf, got,
                 history, calls, faults>>

\* A message arrives cut short, or with a header that contradicts its length.
Damaged ==
  /\ in # <<>>
  /\ faults < MaxFaults /\ faults' = faults + 1
  /\ \E kind \in {"runt", "bad"} : in' = <<Message(kind)>> \o Tail(in)
  /\ UNCHANGED <<todo, op, pc, seq, lock, out, tries, mirrors, chip, tsf, got,
                 history, calls, events>>

\* The TSF counts; while nobody reads it nothing depends on its value.  A read_clock is
\* over in less than one turn of the low word, 71 minutes.
Tick ==
  /\ \E t \in Threads : op[t] = "clock"
  /\ \A t \in Threads : op[t] = "clock" => tsf + 1 - since[t] < ClockWord
  /\ tsf < MaxTime
  /\ tsf' = tsf + 1
  /\ UNCHANGED <<todo, op, pc, pipes, mirrors, chip, got, history, bounds>>

-----------------------------------------------------------------------------
Calls(t) ==
  \/ \E c \in Channels, w \in Widths : SetChannel(t, c, w)
  \/ \E level \in Levels : SetTxPower(t, level)
  \/ ReadClockCall(t)

Works(t) ==
  \/ EnterSetBandwidth(t)
  \/ EnterRoutine(t)
  \/ Return(t)
  \/ Send(t)
  \/ Receive(t)
  \/ Timeout(t)

Target == TargetServes \/ TargetDrops \/ TargetEvent \/ Damaged

Next ==
  \/ \E t \in Threads : Calls(t) \/ Works(t) \/ SendFails(t)
  \/ Target
  \/ Tick

Spec == Init /\ [][Next]_vars

\* A thread that can go on does, and the target serves what it is sent.  That a
\* receive comes back within USB_TIMEOUT is Timeout's part in Works.
FairSpec ==
  /\ Spec
  /\ \A t \in Threads : WF_vars(Works(t))
  /\ WF_vars(TargetServes)

-----------------------------------------------------------------------------
Pipe(kinds) == [kind: kinds, seq: Nat, by: Threads \cup {"nobody"}, val: Nat]

\* Every variable has its type.  Exactly the holder of the mutex waits for a reply.
TypeOK ==
  /\ todo \in [Threads -> Seq(Steps)]
  /\ op \in [Threads -> {"none", "tune", "power", "clock"}]
  /\ pc \in [Threads -> {"idle", "run", "wait"}]
  /\ seq \in 0..(SeqMod - 1) /\ lock \in Threads \cup {"nobody"}
  /\ \A t \in Threads : pc[t] = "wait" <=> lock = t
  /\ out \in Seq([seq: Nat, by: Threads \cup {"nobody"}, step: Steps])
  /\ in \in Seq(Pipe({"reply", "event", "runt", "bad"}))
  /\ tries \in 0..RecvTries
  /\ channel \in Channels \cup {HomeChannel} /\ width \in Widths /\ power \in Levels
  /\ chip \in [Registers -> Nat]
  /\ tsf \in Nat
  /\ got \in [Threads -> Seq(Nat)]
  /\ since \in [Threads -> Nat] /\ asked \in Int
  /\ crossed \in BOOLEAN /\ failed \subseteq Threads
  /\ calls \in [Threads -> Nat] /\ faults \in Nat /\ events \in Nat

\* wmi_cmd: a command that returns Ok returns the answer to itself, although the
\* answers to commands that gave up and the target's events come down the same pipe.
OwnReply == ~crossed

\* The command under way was sent last, so that it, and its reply, end their pipes.
OnItsWay(pipe) == pipe # <<>> /\ pipe[Len(pipe)].by # "nobody"
command == IF lock = "nobody" THEN [do |-> "none"] ELSE Head(todo[lock])
stage == IF lock = "nobody" THEN "free"
         ELSE IF OnItsWay(out) THEN "sent" ELSE IF OnItsWay(in) THEN "done" ELSE "lost"
value == IF stage = "done" THEN in[Len(in)].val ELSE 0
left == [i \in 1 .. Len(out) - (IF OnItsWay(out) THEN 1 ELSE 0) |-> out[i].step]

File == INSTANCE RegisterFile WITH Commands <- Steps, user <- lock, words <- got
\* wmi_cmd, "Strictly one command in flight, matched on the echoed sequence number": a
\* register access that returns Ok has taken effect once, between its call and its
\* return, and returns what the chip answered then; what a failed one left in the pipe
\* takes effect before it or not at all.
ImplementsRegisterFile == File!Spec

\* read_clock: what it returns is a time between its call and its return, also when
\* the low word wraps between two of its reads.
ClockIsCurrent ==
  [][\A t \in Threads : op[t] = "clock" /\ Return(t)
                        => ClockRead(got[t]) \in since[t]..tsf]_vars

Quiet == \A t \in Threads : pc[t] = "idle"
NoFailure(name) == \A t \in Threads : name \in Ops[t] => t \notin failed

\* When no operation is under way and no command of the tuning thread has failed,
\* the chip has the centre and the column of the mirrors, the board calibration the
\* radio was opened with, and the gain last asked for: a width change rewrites the
\* gain table and has to put both back.
KnobsAreProgrammed ==
  Quiet /\ NoFailure("tune") /\ NoFailure("power") =>
    /\ chip.synth = Mhz(channel) + (IF width = 40 THEN 10 ELSE 0)
    /\ chip.column = width
    /\ chip.board = CalApplied
    /\ asked # -1 => chip.gain = asked

\* When no operation is under way and no command has failed, the PHY is in the mode
\* of the mirror.  ath9k_htc.rs:1603 and :2548: the calibration clears DYN2040, so it
\* is re-asserted for HT40.
WidthIsProgrammed ==
  Quiet /\ failed = {} => (chip.turbo = 1) = (width = 40)

\* Every operation returns, whatever is lost, late or damaged.
CallsReturn == \A t \in Threads : pc[t] # "idle" ~> pc[t] = "idle"
=============================================================================
