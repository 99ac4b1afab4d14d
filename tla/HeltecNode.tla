----------------------------- MODULE HeltecNode -----------------------------
(***************************************************************************)
(* The radio task of the Heltec LoRa node (heltec-lora-rs/src/main.rs):    *)
(* one loop that arms reception, waits in a `select` for a queued command, *)
(* the chip's two interrupt lines or a deadline, and runs the handler to   *)
(* its end.  The one-deep scheduled transmission is programmed into the    *)
(* chip ahead of its deadline (staged) and keyed up at it; a command that  *)
(* arrives in between demotes it.  Hopping moves the carrier from an       *)
(* interrupt.  Every handler may fail on the bus, after any of its writes. *)
(*                                                                         *)
(* `mode`, `p`, `mdltn`, `hop`, `sched` are the firmware's variables;      *)
(* `chip` is what the SX1276 really holds.  `open`, `replies` and `keyed`  *)
(* are history.  A frame that is not the host's (beacon, relay, served     *)
(* Data) has the number 0.                                                 *)
(***************************************************************************)
EXTENDS Integers, Sequences, FiniteSets

CONSTANTS
  Freqs, Mods,       \* carriers and modulations
  HomeFreq, HomeMod, \* what the firmware boots with
  Refused,           \* the <<freq, mod>> pairs create_modulation_params rejects
  HopLists,          \* the hop lists a host sends
  Delays,            \* the delays of CMD_TX_AT and targets of CMD_TX_AT_ABS
  Ops,               \* the commands the host uses
  QueueCap,          \* CMDQ's depth
  StageBudget,       \* STAGE_FIXED_US + STAGE_PER_BYTE_US * len, in ticks
  LbtAttempts,       \* lbt_max_attempts
  MaxCmds,           \* bound: commands sent
  MaxTime,           \* bound: ticks of the clock while no frame is scheduled
  MaxFaults,         \* bound: steps in which the bus fails or an interrupt is lost
  MaxHops,           \* bound: hop interrupts
  MaxRx,             \* bound: frames received
  MaxBeacons         \* bound: beacon periods that elapse

ASSUME ParametersAssumption ==
  /\ HomeFreq \in Freqs /\ HomeMod \in Mods
  /\ HopLists \subseteq Seq(Freqs)
  /\ Delays \subseteq Nat
  /\ {QueueCap, StageBudget, LbtAttempts, MaxCmds, MaxTime, MaxFaults, MaxHops,
      MaxRx, MaxBeacons} \subseteq Nat
  /\ LbtAttempts >= 1

VARIABLES
  now,       \* the embassy clock
  cmdq,      \* CMDQ: entries [id, cmd]
  pc,        \* "top" | "select" | "lbt" | "clear" | "send" | "fire" | "beacon"
  job,       \* the transmission under way: who asked, which frame
  p,         \* st.p: the frequency and modulation knobs
  mdltn,     \* the modulation parameters built from them
  hop,       \* radio.hop: enabled, list, base_hz
  sched,     \* st.sched
  rxArmed, armFailed,
  beacon,    \* beacon_on, and whether next_beacon has passed
  mode,      \* radio.mode, the mirror of the chip's mode
  chip,
  open,      \* requests taken from the queue and not answered
  replies,   \* number of final answers per request
  keyed,     \* number of key-ups per request
  lostStandby, \* a set_standby that the firmware relies on was lost
  faults, hops, received, beacons

vars == <<now, cmdq, pc, job, p, mdltn, hop, sched, rxArmed, armFailed, beacon,
          mode, chip, open, replies, keyed, lostStandby, faults, hops, received,
          beacons>>

Ids == 1..MaxCmds
NoFreq == "none"
Knobs == [freq: Freqs, mod: Mods]

\* Commands by what they do to the node; the ones that only set a number the
\* model does not have, or only report, are "knob".
Commands ==
       [op: Ops \cap {"tx", "lbt", "knob", "standby", "cad", "scan", "rssi", "sense"}]
  \cup [op: Ops \cap {"freq"}, freq: Freqs]
  \cup [op: Ops \cap {"mod"}, mod: Mods]
  \cup [op: Ops \cap {"beacon"}, on: BOOLEAN]
  \cup [op: Ops \cap {"at", "abs"}, when: Delays]
  \cup {c \in [op: Ops \cap {"hop"}, on: BOOLEAN, list: HopLists] :
          c.on => c.list # <<>>}

Jobs == [who: {"none", "cmd", "sched", "beacon", "rx"}, id: 0..MaxCmds, attempt: Nat]
\* What the mirror says of the chip, and what the chip is doing.
Modes == {"standby", "rx", "tx", "cad"}
Slots == [st: {"idle", "pending", "staged"}, id: 0..MaxCmds, fire: Nat]
Chips == [mode: Modes, frf: Freqs, mod: Mods, fifo: 0..MaxCmds,
          hopping: BOOLEAN,  \* RegHopPeriod is not 0
          hopIrq: BOOLEAN,   \* FhssChangeChannel is not masked
          hopFlag: BOOLEAN,  \* it is latched: DIO1 is high
          rxDone: BOOLEAN]   \* DIO0 is high

Idle == [st |-> "idle", id |-> 0, fire |-> 0]
NoJob == [who |-> "none", id |-> 0, attempt |-> 0]

TypeOK ==
  /\ now \in Nat
  /\ cmdq \in Seq([id: Ids, cmd: Commands])
  /\ pc \in {"top", "select", "lbt", "clear", "send", "fire", "beacon"}
  /\ job \in Jobs
  /\ p \in Knobs /\ mdltn \in Knobs
  /\ hop \in [on: BOOLEAN, list: Seq(Freqs), base: Freqs \cup {NoFreq}]
  /\ sched \in Slots
  /\ rxArmed \in BOOLEAN /\ armFailed \in BOOLEAN
  /\ beacon \in [on: BOOLEAN, due: BOOLEAN]
  /\ mode \in Modes
  /\ chip \in Chips
  /\ open \subseteq Ids
  /\ replies \in [Ids -> Nat] /\ keyed \in [Ids -> Nat]
  /\ lostStandby \in BOOLEAN
  /\ faults \in Nat /\ hops \in Nat /\ received \in Nat /\ beacons \in Nat

Init ==
  /\ now = 0 /\ cmdq = <<>> /\ pc = "top" /\ job = NoJob
  /\ p = [freq |-> HomeFreq, mod |-> HomeMod] /\ mdltn = p
  /\ hop = [on |-> FALSE, list |-> <<>>, base |-> NoFreq]
  /\ sched = Idle
  /\ rxArmed = FALSE /\ armFailed = FALSE
  /\ beacon = [on |-> FALSE, due |-> FALSE]
  /\ mode = "standby"
  /\ chip = [mode |-> "standby", frf |-> HomeFreq, mod |-> HomeMod, fifo |-> 0,
             hopping |-> FALSE, hopIrq |-> FALSE, hopFlag |-> FALSE,
             rxDone |-> FALSE]
  /\ open = {} /\ replies = [i \in Ids |-> 0] /\ keyed = [i \in Ids |-> 0]
  /\ lostStandby = FALSE /\ faults = 0 /\ hops = 0 /\ received = 0 /\ beacons = 0

-----------------------------------------------------------------------------
(* The chip's register bursts.  `k` is the number of writes that got through *)
(* before the bus failed.                                                    *)

Fault == faults < MaxFaults /\ faults' = faults + 1
NoFault == UNCHANGED faults

\* to_standby trusts the mirror `md`.
ToStandby(c, md) == IF md = "standby" THEN c ELSE [c EXCEPT !.mode = "standby"]

ArmSteps == 6   \* standby, modulation, channel, irq params, hop irq, do_rx
\* apply_hop, when hopping is on, clears the flag and opens the interrupt that
\* set_irq_params has masked.
ArmUpTo(k, c, md) ==
  [c EXCEPT !.mode = IF k >= 6 THEN "rx" ELSE IF k >= 1 THEN ToStandby(c, md).mode ELSE @,
            !.mod = IF k >= 2 THEN mdltn.mod ELSE @,
            !.frf = IF k >= 3 THEN p.freq ELSE @,
            !.hopIrq = IF k >= 5 THEN hop.on ELSE k < 4 /\ @,
            !.hopFlag = (k < 5 \/ ~hop.on) /\ @,
            !.fifo = IF k >= 6 THEN 0 ELSE @]
\* The mirror is set to Receive before set_irq_params.
ArmMode(k, md) == IF k >= 3 THEN "rx" ELSE IF k >= 1 THEN "standby" ELSE md

StageSteps == 6  \* standby, modulation, channel, payload, irq params, hop irq
StageUpTo(k, c, md, id) ==
  [c EXCEPT !.mode = IF k >= 1 THEN ToStandby(c, md).mode ELSE @,
            !.mod = IF k >= 2 THEN mdltn.mod ELSE @,
            !.frf = IF k >= 3 THEN p.freq ELSE @,
            !.fifo = IF k >= 4 THEN id ELSE @,
            !.hopIrq = IF k >= 6 THEN hop.on ELSE k < 5 /\ @,
            !.hopFlag = (k < 6 \/ ~hop.on) /\ @]
StageMode(k, md) == IF k >= 4 THEN "tx" ELSE IF k >= 1 THEN "standby" ELSE md

\* What a handler makes of the radio: the chip, the mirror, and whether every
\* transaction got through.
Radio(md) == [chip |-> chip, mode |-> md, ok |-> TRUE]
Failing(S) == IF faults < MaxFaults THEN S ELSE {}
Becomes(r) == chip' = r.chip /\ mode' = r.mode /\ IF r.ok THEN NoFault ELSE Fault

CadSteps == 6   \* standby, modulation, channel, irq params, do_cad, RegLna
CadUpTo(k, c, md, m) ==
  [c EXCEPT !.mode = IF k >= 5 THEN "cad" ELSE IF k >= 1 THEN ToStandby(c, md).mode ELSE @,
            !.mod = IF k >= 2 THEN m ELSE @,
            !.frf = IF k >= 3 THEN p.freq ELSE @,
            !.hopIrq = k < 4 /\ @]
\* The mirror is set to ChannelActivityDetection before set_irq_params.
CadMode(k, md) == IF k >= 3 THEN "cad" ELSE IF k >= 1 THEN "standby" ELSE md
\* A CAD waited for: process_irq_event has cleared every flag, unless it failed.
\* The chip drops to standby by itself, so a set_standby lost here changes nothing.
CadDone(c, m, cleared) ==
  [c EXCEPT !.mode = "standby", !.mod = m, !.frf = p.freq, !.hopIrq = FALSE,
            !.hopFlag = ~cleared /\ @, !.rxDone = ~cleared /\ @]

\* cad at modulation m: done, busy or clear; failed in its wait, after which the
\* mirror says standby; or given up by a `?`, the mirror left where it was.
CadEnds(r, m) == [chip |-> CadDone(r.chip, m, TRUE), mode |-> "standby", ok |-> r.ok]
Cad(r, m) ==
       {CadEnds(r, m)}
  \cup Failing({[chip |-> CadDone(r.chip, m, cleared), mode |-> "standby", ok |-> FALSE] :
                  cleared \in BOOLEAN})
  \cup Failing({[chip |-> CadUpTo(k, r.chip, r.mode, m), mode |-> CadMode(k, r.mode),
                  ok |-> FALSE] : k \in 0..CadSteps - 1})
\* CADs in a row at modulations of ms: what is left is what the last one leaves,
\* the first or one that follows others.  (One of a row fails, at most.)
Cads(r, ms) == UNION {Cad(s, m) : s \in {r} \cup {CadEnds(r, l) : l \in ms}, m \in ms}

\* sense_rssi_dbm: the chip is armed for the reading unless the mirror says that
\* it is; the arming may fail, or the reading (or RegLna) after it.
Listens(r) == IF r.mode = "rx" THEN r
              ELSE [chip |-> ArmUpTo(ArmSteps, r.chip, r.mode), mode |-> "rx", ok |-> r.ok]
SenseRssi(r) ==
       {Listens(r)}
  \cup Failing({[Listens(r) EXCEPT !.ok = FALSE]})
  \cup Failing({[chip |-> ArmUpTo(k, r.chip, r.mode), mode |-> ArmMode(k, r.mode),
                  ok |-> FALSE] : k \in IF r.mode = "rx" THEN {} ELSE 0..ArmSteps - 1})

\* set_hop_regs, as far as the first k of its three writes.
HopRegs(k, c, on) ==
  IF on
  THEN [c EXCEPT !.hopping = (k >= 2) \/ @, !.hopIrq = (k >= 3) \/ @,
                 !.hopFlag = (k < 3) /\ @]
  ELSE [c EXCEPT !.hopping = (k < 1) /\ @, !.hopIrq = (k < 2) /\ @,
                 !.hopFlag = (k < 2) /\ @]

\* rebuild: the parameters of the knobs q, unless the chip rejects them.
Accepted(q) == <<q.freq, q.mod>> \notin Refused

-----------------------------------------------------------------------------
(* Environment. *)

\* The clock stops at MaxTime, unless a frame waits for it.
Tick ==
  /\ now < MaxTime \/ (sched.st # "idle" /\ now < sched.fire)
  /\ now' = now + 1
  /\ UNCHANGED <<cmdq, pc, job, p, mdltn, hop, sched, rxArmed, armFailed, beacon,
                 mode, chip, open, replies, keyed, lostStandby, faults, hops,
                 received, beacons>>

\* uart_reader hands a parsed command to the radio task; it waits while CMDQ is
\* full.  Commands are numbered in the order they are sent.
Sent == {i \in Ids : i \in open \/ replies[i] > 0}
          \cup {cmdq[n].id : n \in 1..Len(cmdq)}
UartReader ==
  /\ Len(cmdq) < QueueCap /\ Cardinality(Sent) < MaxCmds
  /\ \E c \in Commands :
       cmdq' = Append(cmdq, [id |-> Cardinality(Sent) + 1, cmd |-> c])
  /\ UNCHANGED <<now, pc, job, p, mdltn, hop, sched, rxArmed, armFailed, beacon,
                 mode, chip, open, replies, keyed, lostStandby, faults, hops, received, beacons>>

\* A frame is received whole: DIO0 goes high.
FrameArrives ==
  /\ received < MaxRx /\ chip.mode = "rx" /\ ~chip.rxDone
  /\ chip' = [chip EXCEPT !.rxDone = TRUE] /\ received' = received + 1
  /\ UNCHANGED <<now, cmdq, pc, job, p, mdltn, hop, sched, rxArmed, armFailed,
                 beacon, mode, open, replies, keyed, lostStandby, faults, hops, beacons>>

\* The dwell is over: DIO1 goes high.
HopDue ==
  /\ hops < MaxHops /\ chip.mode \in {"rx", "tx"}
  /\ chip.hopping /\ chip.hopIrq /\ ~chip.hopFlag
  /\ chip' = [chip EXCEPT !.hopFlag = TRUE] /\ hops' = hops + 1
  /\ UNCHANGED <<now, cmdq, pc, job, p, mdltn, hop, sched, rxArmed, armFailed,
                 beacon, mode, open, replies, keyed, lostStandby, faults, received, beacons>>

\* A CAD whose handler gave up while it ran ends by itself.  (The DIO0 it raises
\* is mapped anew before the loop looks at it, unless the next arming fails, too.)
CadExpires ==
  /\ chip.mode = "cad" /\ chip' = [chip EXCEPT !.mode = "standby"]
  /\ UNCHANGED <<now, cmdq, pc, job, p, mdltn, hop, sched, rxArmed, armFailed, beacon,
                 mode, open, replies, keyed, lostStandby, faults, hops, received, beacons>>

BeaconPeriod ==
  /\ beacons < MaxBeacons /\ beacon.on /\ ~beacon.due
  /\ beacon' = [beacon EXCEPT !.due = TRUE] /\ beacons' = beacons + 1
  /\ UNCHANGED <<now, cmdq, pc, job, p, mdltn, hop, sched, rxArmed, armFailed,
                 mode, chip, open, replies, keyed, lostStandby, faults, hops, received>>

-----------------------------------------------------------------------------
(* The head of the loop, and the transmission every sender shares. *)

OwnsRadio == sched.st = "staged"
\* Mutants of IsArmed: a frame that is staged, or one that is pending, is overlooked.
IsPendingOnly == sched.st = "pending"
IsStagedOnly == sched.st = "staged"
IsArmed == sched.st # "idle"

\* Arm reception unless it is armed or a staged frame owns the chip.
Top ==
  /\ pc = "top" /\ pc' = "select"
  /\ \/ /\ rxArmed \/ OwnsRadio
        /\ armFailed' = FALSE /\ NoFault /\ UNCHANGED <<rxArmed, mode, chip>>
     \/ /\ ~rxArmed /\ ~OwnsRadio
        /\ \/ /\ chip' = ArmUpTo(ArmSteps, chip, mode)
              /\ mode' = ArmMode(ArmSteps, mode)
              /\ rxArmed' = TRUE /\ armFailed' = FALSE /\ NoFault
           \/ \E k \in 0..ArmSteps :   \* k = ArmSteps: the write of RegLna failed
                /\ chip' = ArmUpTo(k, chip, mode) /\ mode' = ArmMode(k, mode)
                /\ rxArmed' = FALSE /\ armFailed' = TRUE /\ Fault
  /\ UNCHANGED <<now, cmdq, job, p, mdltn, hop, sched, beacon, open, replies,
                 keyed, lostStandby, hops, received, beacons>>

Answered(id) == IF id = 0 THEN replies ELSE [replies EXCEPT ![id] = @ + 1]

KeyUp(id) == keyed' = IF id = 0 THEN keyed ELSE [keyed EXCEPT ![id] = @ + 1]

\* stage_tx followed at once by the do_tx of fire_tx, for job j: it keys up, or
\* it fails in one of the two and j is over.
Transmit(c, md, j) ==
  \/ /\ chip' = [StageUpTo(StageSteps, c, md, j.id) EXCEPT !.mode = "tx"]
     /\ mode' = "tx" /\ pc' = "fire" /\ job' = j
     /\ KeyUp(j.id) /\ open' = open \cup ({j.id} \cap Ids)
     /\ NoFault /\ UNCHANGED replies
  \/ /\ \/ \E k \in 0..StageSteps - 1 :
             /\ chip' = StageUpTo(k, c, md, j.id) /\ mode' = StageMode(k, md)
        \/ /\ chip' = StageUpTo(StageSteps, c, md, j.id) /\ mode' = "standby"
     /\ Fault /\ pc' = "top" /\ job' = NoJob
     /\ replies' = Answered(j.id) /\ open' = open \ {j.id} /\ UNCHANGED keyed

-----------------------------------------------------------------------------
(* fire_tx's wait for TxDone. *)

\* Mutant of FireReturns: the slot is not emptied.
FireReturnsKeepsSlot ==
  /\ pc' = IF job.who = "sched" THEN "beacon" ELSE "top"
  /\ job' = NoJob /\ rxArmed' = FALSE /\ mode' = "standby"
  /\ sched' = sched
  /\ replies' = Answered(job.id) /\ open' = open \ {job.id}
\* A transmission ends: its sender answers, and reception must be armed anew.
FireReturns ==
  /\ pc' = IF job.who = "sched" THEN "beacon" ELSE "top"
  /\ job' = NoJob /\ rxArmed' = FALSE /\ mode' = "standby"
  /\ sched' = IF job.who = "sched" THEN Idle ELSE sched
  /\ replies' = Answered(job.id) /\ open' = open \ {job.id}

\* TxDone: process_irq_event clears every flag, the hop's included.
FireDone ==
  /\ pc = "fire"
  /\ chip' = [chip EXCEPT !.mode = "standby", !.hopFlag = FALSE, !.rxDone = FALSE]
  /\ FireReturns /\ NoFault
  /\ UNCHANGED <<now, cmdq, p, mdltn, hop, armFailed, beacon, keyed, lostStandby, hops,
                 received, beacons>>

\* The event cannot be read, or TxDone never comes within twice the airtime.
\* The mirror says standby afterwards even if set_standby, too, was lost.
FireFails ==
  /\ pc = "fire"
  /\ \E cleared, lost \in BOOLEAN :
       /\ lostStandby' = (lost \/ lostStandby)
       /\ chip' = [chip EXCEPT !.mode = IF lost THEN "tx" ELSE "standby",
                               !.hopFlag = ~cleared /\ @, !.hopIrq = ~cleared /\ @,
                               !.rxDone = ~cleared /\ @]
  /\ FireReturns /\ Fault
  /\ UNCHANGED <<now, cmdq, p, mdltn, hop, armFailed, beacon, keyed, hops,
                 received, beacons>>

\* service_hop: clear the flag, ask the chip which hop it is on, write RegFrf.
\* A failure turns hopping off, in the firmware and (if that write gets
\* through) in the chip.
ServiceHop ==
  \/ /\ \/ hop.list = <<>> /\ chip' = [chip EXCEPT !.hopFlag = FALSE]
        \/ \E i \in 1..Len(hop.list) :
             chip' = [chip EXCEPT !.hopFlag = FALSE, !.frf = hop.list[i]]
     /\ NoFault /\ UNCHANGED hop
  \/ /\ Fault /\ hop' = [hop EXCEPT !.on = FALSE]
     /\ \E flag, period \in BOOLEAN :
          chip' = [chip EXCEPT !.hopFlag = flag, !.hopping = period]

FireHop ==
  /\ pc = "fire" /\ hop.on /\ chip.hopFlag
  /\ ServiceHop
  /\ UNCHANGED <<now, cmdq, pc, job, p, mdltn, sched, rxArmed, armFailed, beacon,
                 mode, open, replies, keyed, lostStandby, hops, received, beacons>>

-----------------------------------------------------------------------------
(* lbt_tx: back off and sense, transmit when clear, give up after LbtAttempts. *)

LbtFrame == UNCHANGED <<now, cmdq, p, mdltn, hop, sched, rxArmed, armFailed, beacon,
                        lostStandby, hops, received, beacons>>

\* The channel is busy: once more, or the request is answered as not sent.
LbtDefers ==
  /\ job.attempt < LbtAttempts
  /\ IF job.attempt + 1 < LbtAttempts
     THEN pc' = "lbt" /\ job' = [job EXCEPT !.attempt = @ + 1] /\ UNCHANGED <<open, replies>>
     ELSE pc' = "top" /\ job' = NoJob
          /\ replies' = Answered(job.id) /\ open' = open \ {job.id}

\* A CAD detects a LoRa signal.
LbtBusy ==
  /\ pc = "lbt" /\ Becomes(CadEnds(Radio(mode), mdltn.mod)) /\ LbtDefers
  /\ LbtFrame /\ UNCHANGED keyed

\* cad_repeat CADs, up to the first that fails; that one counts as clear.
LbtClear ==
  /\ pc = "lbt" /\ pc' = "clear"
  /\ \E r \in Cads(Radio(mode), {mdltn.mod}) : Becomes(r)
  /\ LbtFrame /\ UNCHANGED <<job, open, replies, keyed>>

\* The host has set a threshold for the RSSI: it is over it, or it is under it or
\* cannot be read.
LbtRssi ==
  /\ pc = "clear"
  /\ \/ Becomes(Listens(Radio(mode))) /\ LbtDefers
     \/ /\ \E r \in SenseRssi(Radio(mode)) : Becomes(r)
        /\ pc' = "send" /\ UNCHANGED <<job, open, replies>>
  /\ LbtFrame /\ UNCHANGED keyed

LbtSend ==
  /\ pc \in {"clear", "send"} /\ Transmit(chip, mode, [job EXCEPT !.attempt = 0])
  /\ LbtFrame

-----------------------------------------------------------------------------
(* Wake::Cmd.  A staged frame is demoted first; afterwards reception is armed *)
(* anew, whatever the command was.                                           *)

Demoted == IF OwnsRadio THEN [sched EXCEPT !.st = "pending"] ELSE sched
\* abandon_staged_tx corrects the mirror and touches no register.
DemotedMode == IF OwnsRadio THEN "standby" ELSE mode

Cmd == Head(cmdq).cmd
Id == Head(cmdq).id

\* Mutant of Take: reception is not armed anew.
TakeStaysArmed(ops) ==
  /\ pc = "select" /\ cmdq # <<>> /\ Cmd.op \in ops
  /\ cmdq' = Tail(cmdq)
  /\ UNCHANGED <<rxArmed, now, armFailed, lostStandby, hops, received, beacons>>
\* The head of the queue is a command in `ops`.
Take(ops) ==
  /\ pc = "select" /\ cmdq # <<>> /\ Cmd.op \in ops
  /\ cmdq' = Tail(cmdq) /\ rxArmed' = FALSE
  /\ UNCHANGED <<now, armFailed, lostStandby, hops, received, beacons>>

Reply == /\ pc' = "top" /\ replies' = Answered(Id)
         /\ UNCHANGED <<open, keyed, job>>

HandleTx ==
  /\ Take({"tx"})
  /\ Transmit(chip, DemotedMode,
              [who |-> "cmd", id |-> Id, attempt |-> 0])
  /\ sched' = Demoted
  /\ UNCHANGED <<p, mdltn, hop, beacon>>

HandleTxLbt ==
  /\ Take({"lbt"})
  /\ pc' = "lbt" /\ open' = open \cup {Id}
  /\ job' = [who |-> "cmd", id |-> Id, attempt |-> 0]
  /\ sched' = Demoted /\ mode' = DemotedMode
  /\ NoFault /\ UNCHANGED <<p, mdltn, hop, beacon, chip, replies, keyed>>

\* Mutant of Retune: the hop list keeps the old base.
RetuneBaseOnly(q) ==
  /\ p' = IF Accepted(q) THEN q ELSE p
  /\ mdltn' = IF Accepted(q) THEN q ELSE mdltn
  /\ UNCHANGED hop
\* The knobs become q, unless the chip rejects it and they are rolled back;
\* hop[0] follows the carrier.
Retune(q) ==
  /\ p' = IF Accepted(q) THEN q ELSE p
  /\ mdltn' = IF Accepted(q) THEN q ELSE mdltn
  /\ hop' = IF hop.on THEN [hop EXCEPT !.list[1] = p'.freq] ELSE hop

HandleFreq ==
  /\ Take({"freq"}) /\ Retune([p EXCEPT !.freq = Cmd.freq])
  /\ Reply /\ sched' = Demoted /\ mode' = DemotedMode
  /\ NoFault /\ UNCHANGED <<beacon, chip>>

HandleMod ==
  /\ Take({"mod"})
  /\ LET q == [p EXCEPT !.mod = Cmd.mod] IN
       /\ p' = IF Accepted(q) THEN q ELSE p
       /\ mdltn' = IF Accepted(q) THEN q ELSE mdltn
  /\ Reply /\ sched' = Demoted /\ mode' = DemotedMode
  /\ NoFault /\ UNCHANGED <<hop, beacon, chip>>

\* Knobs without a part in the model, and reports.
HandleKnob ==
  /\ Take({"knob"})
  /\ Reply /\ sched' = Demoted /\ mode' = DemotedMode
  /\ NoFault /\ UNCHANGED <<p, mdltn, hop, beacon, chip>>

HandleBeacon ==
  /\ Take({"beacon"}) /\ beacon' = [beacon EXCEPT !.on = Cmd.on]
  /\ Reply /\ sched' = Demoted /\ mode' = DemotedMode
  /\ NoFault /\ UNCHANGED <<p, mdltn, hop, chip>>

\* CMD_SET_SYNC and CMD_SET_CAD_CFG put the chip in standby; a failure is ignored.
HandleStandby ==
  /\ Take({"standby"})
  /\ \/ /\ chip' = ToStandby(chip, DemotedMode) /\ mode' = "standby" /\ NoFault
     \/ /\ mode' = DemotedMode /\ Fault /\ UNCHANGED chip
  /\ Reply /\ sched' = Demoted
  /\ UNCHANGED <<p, mdltn, hop, beacon>>

\* CMD_CAD, or the sweep of CMD_SF_SCAN over the modulations the chip accepts; the
\* sweep leaves the chip on another one than mdltn's.  Failures are ignored.
Sweep(r) ==
  LET ms == {m \in Mods : Accepted([p EXCEPT !.mod = m])}
  IN  IF ms = {} THEN {r} ELSE Cads(r, ms)
HandleCad ==
  /\ Take({"cad", "scan"})
  /\ \E r \in IF Cmd.op = "cad" THEN Cad(Radio(DemotedMode), mdltn.mod)
             ELSE Sweep(Radio(DemotedMode)) : Becomes(r)
  /\ mdltn' = IF Cmd.op = "scan" /\ Accepted(p) THEN p ELSE mdltn
  /\ Reply /\ sched' = Demoted
  /\ UNCHANGED <<p, hop, beacon>>

\* CMD_GET_RSSI, and CMD_SENSE, which comes to it from cad_repeat CADs whatever
\* became of them.
HandleRssi ==
  /\ Take({"rssi", "sense"})
  /\ LET from == IF Cmd.op = "sense" THEN Cads(Radio(DemotedMode), {mdltn.mod})
                 ELSE {Radio(DemotedMode)}
     IN  \E r \in UNION {SenseRssi(s) : s \in from} : Becomes(r)
  /\ Reply /\ sched' = Demoted
  /\ UNCHANGED <<p, mdltn, hop, beacon>>

\* What the knobs are after CMD_SET_HOP disables hopping.
Restored == IF hop.base # NoFreq THEN [p EXCEPT !.freq = hop.base] ELSE p

\* CMD_SET_HOP: the list is taken over, the chip is put in standby (a failure is
\* ignored), then the three registers are written.  Enabling records the base and
\* starts at hop[0]; disabling goes back to the base, though the chip may reject it.
HopSet(c) ==
  LET q == IF Cmd.on THEN [p EXCEPT !.freq = Cmd.list[1]] ELSE Restored IN
    /\ chip' = HopRegs(3, c, Cmd.on)
    /\ p' = IF Accepted(q) \/ ~Cmd.on THEN q ELSE p
    /\ mdltn' = IF Accepted(q) THEN q ELSE mdltn
    /\ hop' = [on |-> Cmd.on,
               list |-> IF Cmd.on THEN [Cmd.list EXCEPT ![1] = p'.freq] ELSE Cmd.list,
               base |-> IF ~Cmd.on THEN NoFreq
                        ELSE IF hop.base = NoFreq THEN p.freq ELSE hop.base]

\* A failure disables hopping in firmware and, as far as the bus allows, in the
\* chip; the carrier is not restored.
HopSetFails(c) ==
  /\ \E k \in 0..2, l \in 0..3 : chip' = HopRegs(l, HopRegs(k, c, Cmd.on), FALSE)
  /\ hop' = [hop EXCEPT !.on = FALSE, !.list = Cmd.list]
  /\ UNCHANGED <<p, mdltn>>

HandleHop ==
  /\ Take({"hop"})
  /\ \/ /\ HopSet(ToStandby(chip, DemotedMode)) /\ mode' = "standby" /\ NoFault
     \/ HopSet(chip) /\ mode' = DemotedMode /\ Fault
     \/ HopSetFails(ToStandby(chip, DemotedMode)) /\ mode' = "standby" /\ Fault
     \/ HopSetFails(chip) /\ mode' = DemotedMode /\ Fault
  /\ Reply /\ sched' = Demoted
  /\ UNCHANGED beacon

\* CMD_TX_AT and CMD_TX_AT_ABS: refused while a frame is armed, answered when it
\* has gone otherwise.
HandleTxAt ==
  /\ Take({"at", "abs"})
  /\ LET fire == IF Cmd.op = "at" THEN now + Cmd.when ELSE Cmd.when IN
       IF IsArmed
       THEN Reply /\ sched' = Demoted
       ELSE /\ sched' = [st |-> "pending", id |-> Id, fire |-> fire]
            /\ pc' = "top" /\ open' = open \cup {Id}
            /\ UNCHANGED <<replies, keyed, job>>
  /\ mode' = DemotedMode
  /\ NoFault /\ UNCHANGED <<p, mdltn, hop, beacon, chip>>

HandleCmd ==
  \/ HandleTx \/ HandleTxLbt \/ HandleFreq \/ HandleMod \/ HandleKnob
  \/ HandleBeacon \/ HandleStandby \/ HandleCad \/ HandleRssi \/ HandleHop
  \/ HandleTxAt

-----------------------------------------------------------------------------
(* Wake::Irq, Wake::Hop, Wake::Timer.  The select looks at the queue first,   *)
(* then at DIO0, DIO1 and the timer; the two lines are not looked at while a *)
(* frame is staged.                                                          *)

IrqReady == chip.rxDone /\ ~OwnsRadio
HopReady == hop.on /\ chip.hopFlag /\ ~OwnsRadio

\* process_irq_event clears every flag.
RxRead == chip' = [chip EXCEPT !.rxDone = FALSE, !.hopFlag = FALSE]

\* take_rx and on_rx.  A frame that is served or relayed is followed by lbt_tx.
TakeRx ==
  /\ pc = "select" /\ cmdq = <<>> /\ IrqReady
  /\ \/ pc' = "top" /\ RxRead /\ NoFault /\ UNCHANGED <<job, rxArmed>>
     \/ /\ pc' = "top" /\ rxArmed' = FALSE /\ Fault /\ UNCHANGED job
        /\ RxRead \/ UNCHANGED chip
     \/ /\ pc' = "lbt" /\ rxArmed' = FALSE /\ RxRead /\ NoFault
        /\ job' = [who |-> "rx", id |-> 0, attempt |-> 0]
  /\ UNCHANGED <<now, cmdq, p, mdltn, hop, sched, armFailed, beacon, mode, open,
                 replies, keyed, lostStandby, hops, received, beacons>>

\* Reception stays armed, also when the hop could not be serviced.
WakeHop ==
  /\ pc = "select" /\ cmdq = <<>> /\ ~IrqReady /\ HopReady
  /\ ServiceHop /\ pc' = "top"
  /\ UNCHANGED <<now, cmdq, job, p, mdltn, sched, rxArmed, armFailed, beacon,
                 mode, open, replies, keyed, lostStandby, hops, received, beacons>>

StageAt == IF sched.fire > StageBudget THEN sched.fire - StageBudget ELSE 0
StageDue == sched.st = "pending" /\ now >= StageAt
FireDue == OwnsRadio /\ now >= sched.fire
BeaconDue == beacon.on /\ beacon.due

\* Mutants of TimerWakes: wake_at leaves out the staged frame's deadline, or the
\* retry of a failed arm.
TimerForgetsStaged ==
  /\ pc = "select" /\ cmdq = <<>> /\ ~IrqReady /\ ~HopReady
  /\ StageDue \/ BeaconDue \/ armFailed
TimerForgetsRetry ==
  /\ pc = "select" /\ cmdq = <<>> /\ ~IrqReady /\ ~HopReady
  /\ StageDue \/ FireDue \/ BeaconDue
TimerWakes ==
  /\ pc = "select" /\ cmdq = <<>> /\ ~IrqReady /\ ~HopReady
  /\ StageDue \/ FireDue \/ BeaconDue \/ armFailed

\* The scheduled frame is programmed into the chip, or given up and reported.
WakeStage ==
  /\ TimerWakes /\ StageDue
  /\ pc' = "beacon" /\ rxArmed' = FALSE
  /\ \/ /\ chip' = StageUpTo(StageSteps, chip, mode, sched.id)
        /\ mode' = StageMode(StageSteps, mode)
        /\ sched' = [sched EXCEPT !.st = "staged"]
        /\ NoFault /\ UNCHANGED <<open, replies>>
     \/ /\ \E k \in 0..StageSteps - 1 : /\ chip' = StageUpTo(k, chip, mode, sched.id)
                                        /\ mode' = StageMode(k, mode)
        /\ sched' = Idle /\ Fault
        /\ replies' = Answered(sched.id) /\ open' = open \ {sched.id}
  /\ UNCHANGED <<now, cmdq, job, p, mdltn, hop, armFailed, beacon, keyed,
                 lostStandby, hops, received, beacons>>

\* The staged frame is keyed up.
WakeFire ==
  /\ TimerWakes /\ FireDue
  /\ \/ /\ chip' = [chip EXCEPT !.mode = "tx"] /\ pc' = "fire"
        /\ job' = [who |-> "sched", id |-> sched.id, attempt |-> 0]
        /\ KeyUp(sched.id) /\ NoFault
        /\ UNCHANGED <<sched, mode, rxArmed, open, replies>>
     \/ /\ pc' = "beacon" /\ sched' = Idle /\ rxArmed' = FALSE /\ mode' = "standby"
        /\ replies' = Answered(sched.id) /\ open' = open \ {sched.id}
        /\ Fault /\ UNCHANGED <<chip, job, keyed>>
  /\ UNCHANGED <<now, cmdq, p, mdltn, hop, armFailed, beacon, lostStandby, hops,
                 received, beacons>>

\* No scheduled deadline is due: the beacon is, or the retry of a failed arm.
WakeTick ==
  /\ TimerWakes /\ ~StageDue /\ ~FireDue /\ pc' = "beacon"
  /\ UNCHANGED <<now, cmdq, job, p, mdltn, hop, sched, rxArmed, armFailed, beacon,
                 mode, chip, open, replies, keyed, lostStandby, faults, hops,
                 received, beacons>>

\* A beacon due while a frame is armed is skipped.
Beacon ==
  /\ pc = "beacon"
  /\ beacon' = [beacon EXCEPT !.due = @ /\ ~beacon.on]
  /\ IF BeaconDue /\ ~IsArmed
     THEN /\ Transmit(chip, mode,
                      [who |-> "beacon", id |-> 0, attempt |-> 0])
          /\ rxArmed' = FALSE
     ELSE pc' = "top" /\ UNCHANGED <<rxArmed, job, mode, chip, open, replies, keyed,
                                     faults>>
  /\ UNCHANGED <<now, cmdq, p, mdltn, hop, sched, armFailed, lostStandby, hops,
                 received, beacons>>

-----------------------------------------------------------------------------
FireStep == FireDone \/ FireFails \/ FireHop
LbtStep == LbtBusy \/ LbtClear \/ LbtRssi \/ LbtSend
WakeTimer == WakeStage \/ WakeFire \/ WakeTick
RadioTask == Top \/ HandleCmd \/ TakeRx \/ WakeHop \/ WakeTimer \/ Beacon
               \/ LbtStep \/ FireStep
Environment == Tick \/ UartReader \/ FrameArrives \/ HopDue \/ CadExpires
                 \/ BeaconPeriod

Next == RadioTask \/ Environment

Spec == Init /\ [][Next]_vars
\* The executor polls the task, and the clock runs.
FairSpec == Spec /\ WF_vars(RadioTask) /\ WF_vars(Tick)
-----------------------------------------------------------------------------
(* Properties. *)

\* While a frame is staged, the chip idles with exactly that frame in its FIFO,
\* on the carrier and modulation the knobs say, with the hop interrupt open and
\* none pending that the loop no longer looks at (main.rs:1640-1642, 1672-1675,
\* 2187-2190): nothing that a command, a beacon, a hop or a failed burst did in
\* between is left in it.  A chip that missed its set_standby may not idle.
StagedIsLoaded ==
  OwnsRadio /\ pc \in {"top", "select", "beacon"} =>
    /\ chip.fifo = sched.id /\ chip.frf = p.freq /\ chip.mod = mdltn.mod
    /\ hop.on => chip.hopIrq
    /\ lostStandby \/ (chip.mode = "standby" /\ ~(hop.on /\ chip.hopFlag))

\* The hop service failed: the firmware no longer hops, the interrupt is open.
HopGaveUp == chip.hopIrq /\ ~hop.on

\* When the loop waits believing that reception is armed (its local rxArmed, not the
\* mirror, which arm_rx sets before its last writes), the chip receives, at the
\* modulation of the knobs and on their carrier (on one of the list, while it hops),
\* and the hop interrupt is open if hops are serviced.  After a hop service that
\* failed, the receiver stays on whatever carrier it had until it is armed anew.
ArmedIsListening ==
  pc = "select" /\ rxArmed =>
    /\ chip.mode = "rx" /\ mode = "rx" /\ chip.mod = mdltn.mod
    /\ \/ HopGaveUp \/ chip.frf = p.freq
       \/ hop.on /\ \E i \in 1..Len(hop.list) : chip.frf = hop.list[i]
    /\ hop.on => chip.hopIrq

\* Of the requests taken from the queue, those not yet answered are the one in the
\* scheduled slot and the one being transmitted: an accepted frame is never
\* dropped or replaced without a word (main.rs:1960-1962, 3226-3229, 3455).
NoneForgotten ==
  open = (IF IsArmed THEN {sched.id} ELSE {})
         \cup (IF pc \in {"lbt", "clear", "send", "fire"} /\ job.who = "cmd" THEN {job.id} ELSE {})

\* A request is answered once, and its frame keyed up once at most, however often
\* it was staged, demoted and staged again.
AtMostOnce == \A i \in Ids : replies[i] <= 1 /\ keyed[i] <= 1
                              /\ (i \in open => replies[i] = 0)

\* Hop channel 0 is the base frequency (main.rs:3309), whether it was last moved
\* by CMD_SET_HOP, by CMD_SET_FREQ or by a rollback of either.
HopStartsAtBase == hop.on => hop.list # <<>> /\ hop.list[1] = p.freq

\* Every request taken is answered (main.rs:3531, "NEVER silence").
EveryRequestAnswered == \A i \in Ids : (i \in open) ~> (i \notin open)

\* The node never stays deaf: whatever failed, reception is armed again and again.
NeverDeafForGood == []<>(rxArmed /\ chip.mode = "rx")
=============================================================================
