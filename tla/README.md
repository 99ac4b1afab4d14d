# TLA+ verification of ndn-radio-drivers

This directory holds TLA+ models of ndn-radio-drivers, the TLC configurations
that check them, and TLAPS proofs about them.  Paths below are relative to the
repository; `lora_serial.rs` is `src/lora_serial.rs`, `main.rs` is
`firmware/waveshare-lora-rs/src/main.rs`, `rx_pump.rs` is `src/rx_pump.rs`,
`plan.rs` is `crates/ndn-radio-hal/src/bringup/plan.rs`, `ath9k_htc.rs` is
`src/ath9k_htc.rs`, `heltec/main.rs` is `firmware/heltec-lora-rs/src/main.rs`.

## 1. Inventory

The repository is a set of user-space radio drivers for Named Data Networking
and the firmware of the nodes some of them talk to.  Its parts, with the state
each keeps, its operations, and what makes it hard and correct:

| component | state | operations | hard behaviour | correct when |
|---|---|---|---|---|
| serial command link, host (`lora_serial.rs`) | `cmd` mutex with port and response channel, parameter mirror, stored `NodeProfile`, reader thread | `exec_on`, `recv_on`, `exec_idempotent`, knobs, `inject*`, `set_phy_mode`, `handle_event` | threads share one half-duplex conversation; replies late, lost or unasked; retries; port failure | a reply goes to its own command, an inject is on the air at most once, mirror and profile follow the node, every call returns |
| Waveshare node (`main.rs`, `sx1262.rs`) | byte ring, parser, one-deep scheduled transmission, radio settings, capability | `handle_cmd`, `sched_service`, beacon, relay, USART interrupt | one loop serves host, air and timer; a scheduled frame waits while commands are served | every command is answered once, a scheduled frame goes out as staged |
| RX pumps (`rx_pump.rs`) | frame queue, `Notify`, `pumped` flag; reader threads, or a transfer pool, raw queue, parse threads, event thread | `push`, `recv`, `spawn_rx_pump`, `spawn_rx_pump_async`, `async_xfer_cb` | threads, callbacks and tasks; weak references decide who ends; unplug | each frame to one caller, no wake lost, counters and flags tell the truth, threads end |
| bring-up runner (`plan.rs`) | plan, edits, records, facts, guards, warnings | `check`, `resolve`, `run_plan`, `validate_proof`, `tx_proof` | partial failure at any rung; deviations; four step classes | nothing touches the chip before the checks; the report says exactly what ran; no transmitter is up unexamined |
| lease grid (`src/lease.rs`) | geometry, shared clock | `owner_slot`, `wait_us`, `next_slot_start_us`, `fits_at` | boundaries, wrap, placement error, clock skew | names with different slots do not overlap on the air |
| stamps (`rxstamp.rs`, `capture.rs`, `sx1262.rs`, `lora_serial.rs`) | 16-bit timer with capture, its extension, baselines of the open window, pending verdict at the host | edge interrupt, `poll_rx`, `arm`, `attribute`, note, `handle_event` | edge, status, packet and count are read one after the other while packets go on completing; wrap; counters reset; note and frame are two messages on a lossy line | a published capture is the instant of that very packet; a verdict qualifies its own frame |
| Heltec node (`heltec/main.rs`) | command queue, mode mirror, knobs and what is programmed, one-deep scheduled transmission, hop list | `handle_cmd`, `arm_rx`, `stage`, `fire`, `service_hop`, beacon | one task selects among commands, two interrupt lines and deadlines; any bus transaction fails; a staged frame is only in the FIFO | what is keyed up is what was staged, an armed receiver listens, each request is answered once |
| ath9k_htc register path (`ath9k_htc.rs`) | sequence number and its mutex, two USB pipes, mirrors of channel, width and power | `wmi_cmd`, `set_channel`, `set_tx_power`, `read_clock` | threads share one pipe; late, lost, damaged replies and the target's own events; knobs are long command sequences | a command returns its own reply, a width change puts the power state back, the clock is current |
| serial radio, BW16, ESP32-C5 (`src/serial_radio.rs`, firmware) | node protocol session | request, reply, stream | resynchronisation, interleaved streams | as for the link above |
| MediaTek and Realtek backends | chip registers, MCU command channel | bring-up, tune, inject | sequence numbers, late answers | answers match requests |
| LR2021 node | phy mode, hop plan | FLRC/LR-FHSS service, tier-0 | mode switches under traffic | the announced capability is the running one |
| HaLow backends, opening and selection, frame I/O, env and coverage tables | little or none over time | one-shot calls, parsing, tables | formats | unit tests and fuzzing serve them better |

How they interact: a backend implements the HAL traits; the Realtek and other
USB backends embed `RxPumpState`, implement `Pumpable` and are drained by
`recv_frame` callers; the LoRa backend owns a serial port, whose other end is
the main loop of the node's firmware.  A received packet passes from the timer
of the node through its main loop and over that port to the reader thread, which
publishes it.  Every knob of the ath9k backend is a sequence of commands on the
register pipe its threads share.  The bring-up runner calls a backend's steps
before any of that runs; the lease grid is asked by whoever transmits.

The hazards of this code, each at its line, are listed in `PROJECT.json`.

## 2. Modules

| module | models | over |
|---|---|---|
| `CmdLink` | the command link: callers, mutex, reader thread, line, Waveshare node | - |
| `RxQueue` | `RxPumpState` and the tokio `Notify` | - |
| `SyncPump` | `spawn_rx_pump` | `RxQueue`, implements `FrameService` |
| `AsyncPump` | `spawn_rx_pump_async` | `RxQueue`, implements `FrameService` |
| `FrameService` | abstract: what `recv_frame` promises | - |
| `BringUp` | `run_plan`: check, resolve, rungs, readbacks, transmit question | - |
| `LeaseGrid` | the slot arithmetic of the airtime lease | - |
| `HeltecNode` | the radio task of the Heltec node | - |
| `Ath9kHtc` | the register path of the ath9k backend, its knobs and its clock | implements `RegisterFile` |
| `RegisterFile` | abstract: what a register access promises the threads that share the path | - |
| `RxStamp` | the receive time stamp, from the edge to the published frame | - |
| `*_proofs` | theorems about the module they are named after; `BringUp_proofs` also about `LeaseGrid` | that module |
| `MC*` | the instances TLC checks | each of the above |

A definition whose comment says "Mutant of" is a plausible error in the
definition below it; no specification uses it.

### CmdLink

*Host.*  `pc[c]` is where a thread is in its operation: `send_mod` (between
`set_spreading_factor`'s write of the mirror and `send_mod`'s reading of it),
`lock` (about to call `exec_on`), `wait` (inside it, holding the mutex),
`mirror` (in `set_channel`, after the reply and before the mirror is written),
`race`/`race_wait` (`set_phy_mode`'s second look through `recv_on`), `install`
(before `install_profile`).  A request carries an id that the real protocol does
not have: replies are matched by event type only, as in the code, and the ids
are history from which the properties are stated.  The drain at the head of
`exec_on` is `resp' = <<>>`.  The reader thread has two steps for an EVT_CAP,
store and offer, and one for every other event.

*Node.*  `ring` holds buffered commands; `RingCap = 0` is a USART without FIFO
or ring, where a command that arrives while one is served is destroyed.  While
`airing` is set the main loop is blocked in a transmission.  `slot` is the
scheduled transmission, `staged` its state, and `loaded` the request whose frame
the chip really holds; `start_rx` clears `loaded` wherever the firmware calls it.

*Time* is left out: a wait may time out at any moment, because a node may be
busy on the air for longer than any of the host's budgets.  What holds only with
timely replies is stated under `~disturbed`, where `disturbed` becomes true with
the first expired deadline, beacon, relay, re-published capability or trailing
EVT_PHY_ERR.

### RxQueue, SyncPump, AsyncPump

The queue and its wake signal are one module, the two pumps extend it.  The
`Notify` is external and modelled by its contract: `notify_one` wakes the
longest sleeper or leaves one permit, a dropped `Notified` that was already
picked passes the wake on.  `cons[c]` follows `recv`: `poll` (about to look at
the queue), `await` (looked, not asleep yet), `asleep`, `notified`; a caller that
dropped its call is `gone`, one that returned with a frame `idle`.  The difference
matters to `NoFrameSleeps`: one notify stands for the several frames of a transfer,
so a caller that took the first owes the second to its next call, while one that is
gone must have passed its wake on.

`SyncPump` has one control state per step of the reader loop; `Upgrade` is the
`Weak::upgrade`, and `Holding` the part of the turn in which the thread itself
keeps the backend alive.  `AsyncPump` follows a transfer from submission through
completion, callback and resubmission to its release; submission and the
counting of it are two steps, as in the code.  Both refine `FrameService` under
the mapping `held` (every frame somewhere in the driver).

### BringUp

One behaviour is one call of `run_plan`; `call` holds its arguments and what the
part offers (`B::asserts`, `B::tx_instruments`, `probe_tx`), and never changes.
`pc` is the stage of the function, `at` the rung and later the readback it has
come to.  A rung is an opaque function of the driver: `RunRung` chooses among the
outcomes of `StepOutcome`, `RungFails` is its error.  `steps`, `facts`,
`warnings`, `asserts` and `tx` are the report that every way out carries,
`guards` what still runs afterwards.  `ran` is history: what the rungs really
did, against which the report is judged.  Every `return Err` of the code is
`Fail`; what the code copies into a fresh report at each of them is the report as
it stands.

### LeaseGrid

Operators only, one for each function of `LeaseGrid` in `lease.rs`, on a record
of slot length, number of slots and guard.  There is no state to run, so its
properties are theorems (section 5).

### HeltecNode

`pc` is where the radio task is: at the head of its loop, in the `select`, or
inside a transmission, which is a few steps because interrupts are serviced in
it.  A command's handler is one action from the queue to the answer: the task
awaits the bus in it, but nothing else touches its state meanwhile.  What can go
wrong in between is the bus: `ArmUpTo(k, ...)` and `StageUpTo(k, ...)` are the
chip after the first k transactions of `arm_rx` and of the staging, and a fault
stops a handler after any of them.  `mode`, `p` and `mdltn` are the firmware's
mirror and knobs, `chip` what the SX1276 holds, including the FIFO's owner.
`rxArmed` is the loop's own belief; `ArmedIsListening` is about it and not about
`mode`, which `arm_rx` sets to receive before its last writes (`heltec/main.rs:1417`).

A carrier sense ends with what it found (`CadEnds`), fails in its wait, with the
flags cleared or not, or is given up by a `?` after any transaction (`CadUpTo`),
which leaves mirror, modulation, carrier and hop interrupt where they were then and
perhaps the chip sensing (`CadExpires` ends that).  `sense_rssi_dbm` arms the
receiver unless the mirror says that it is armed.  Listen-before-talk is two steps:
the CADs (`LbtBusy`, `LbtClear`), and then either the transmission (`LbtSend`) or the
energy detect that a host has asked for (`LbtRssi`), which may find the channel busy
after it armed the receiver.  A CAD that fails there counts as clear and in
CMD_SENSE, CMD_CAD and CMD_SF_SCAN as nothing found, as in the code.  Of several
CADs in a row one fails at most, and the DIO0 a given-up CAD raises later is left
out: the arming that precedes every wait maps the line anew, unless it fails, too.
`sched` is the scheduled transmission (`pending`, `staged`, ...); any command
that uses the radio demotes it.  `open`, `replies` and `keyed` are history.

### Ath9kHtc

A thread's operation is the list `todo` of what it still has to do; a routine in
it is replaced by its body when it is reached, so that mirrors are read when the
code reads them.  `Send` takes the mutex and the next sequence number, `Receive`
looks at one message, `Timeout` is the end of the wait, after which the mutex is
free while the reply may still come.  A step's `over` says how much of its routine
the code leaves out when it fails (the rest of `ar9271_cl_cal_ht20`, or one board
calibration); 0 ends the operation with the error.  The chip is reduced to five registers:
carrier, DYN2040 (`turbo`), the column of the initval tables, gain and board
calibration.  `ClockRead` combines the words of `read_clock`.

`RegisterFile` knows no pipes, numbers or replies: one command is under way at a
time (`user`, `command`), it takes effect at one moment (`Effect`) and `Succeed`
returns what the chip told then; a command that failed may still be `left`, and
takes effect before any later one or not at all.  The mapping reads this off the
pipes: the mutex is `user`; an owned command that ends `out` is "sent", an owned
reply that ends `in` is "done", neither is "lost"; the value is that of the last
message of `in`; `left` are the commands of `out` that nobody owns.

### RxStamp

The timer, the chip and the packets on the air are external; the interrupt has
its two halves (flags sampled, then capture read and published), `poll_rx` one
step for each SPI transaction or decision, and a packet may complete between any
two.  The interrupt preempts the loop, so `Runs` keeps the loop still while one
is pending; `late` counts how long that is.  A packet is its number in `log`,
which remembers when it completed, so that a stamp can be compared with the
truth; on the line a stamp has 32 bits (`OnWire`, with `Word` for 2^32), so a capture
is compared with the truncated instant.  `Leave`, `StartRx` and `Issue` are every excursion that closes a window
without a reception (transmission, carrier sense, staging, relay), each with its
own clear and arm.  On the line `note` is EVT_RX_STAMP, `frame` EVT_RX, `other`
anything else; `Lose` destroys the oldest.  `open`, `mark` and `clean` are
history: a packet is `clean` when it completed alone in an untouched window;
`lost` holds the packets whose note, and whose frame, was lost.

## 3. Runs

All runs use `CHECK_DEADLOCK FALSE`: the systems may stop, with the bounded
number of operations issued, the device gone, the frames of the air received or
`run_plan` returned.  Type invariants that are theorems (`CmdLink`, `SyncPump`,
`AsyncPump`, `BringUp`, `HeltecNode`, `Ath9kHtc`) are not repeated in the runs.

| run | question | bounds |
|---|---|---|
| `link_two` | whose replies are in flight; is an inject ever sent twice, or acknowledged unsent; is a FIFO-less node overrun | 2 callers, 2 requests of all 5 operations, ring of 0, 1 beacon, 1 lost message, failing port, 2 attempts |
| `link_one` | do mirror and profile follow the node | 1 caller, all 5 operations, 3 requests, 2 values, 1 re-published capability |
| `link_returns` | does every operation return | 2 callers, 2 requests, ring of 3, failing port |
| `pump_sync` | is each frame handed out once, is a wake lost, is every frame delivered without the 200 ms re-poll | 2 readers, 2 callers, 2 frames, aggregates of 2, 3 read errors, unplug |
| `pump_async` | the same, and is the transfer counter right, and does the pool keep its transfers | 2 transfers, 2 parse threads, 1 caller, 2 frames, raw queue of 1, unplug |
| `heltec` | does a staged frame stay in the chip until it is keyed up; does an armed receiver listen; is each request answered once and at last; does the node ever stay deaf | 3 commands of all 12 kinds, queue of 1, 2 carriers, 2 modulations, a refused pair, 2 attempts of listen-before-talk, 1 bus failure after any transaction, 1 hop, 1 frame, 1 beacon |
| `wmi` | whose reply does a command return; is the path a register file; does a width change put power and calibration back; is the clock current; does every call return | a tuning and a clock-reading thread, 2 + 1 calls, sequence numbers mod 4, 2 receive attempts, 1 lost, late or damaged message or failed write, 1 event, 1 wrap of the low clock word |
| `stamps` | is a capture published only for its own packet, and never given up without cause; is a packet reported twice; what does a note cost | 3 packets, timer and stamp word of 4 ticks with one wrap, interrupt 1 tick late, 1 counter reset, 1 excursion, 1 lost event |
| `bringup` | is the ordering contract kept, is the report true on every way out, is a transmitter examined | 171 calls: plans of 3 rungs of every class, unsound plans, 20 deviations, roles and requirements; every outcome |

Why the bounds are enough: two callers and one mutex show every order of two
critical sections; two requests are the shortest run in which a reply can pass
over one request to another, a third lets a setting change twice around a retry.
A ring of 0 is the tightest node, a ring of 3 has room for two callers' retries.
In the pumps two producers and two consumers give every race on the queue and the
`Notify`, aggregates of two frames the one-notify-for-several case, a raw queue
of one buffer overflows with the second transfer.  `run_plan` looks at one rung
at a time and at pairs through the ordering contract, so three rungs show what
stands before and after a failure; each unsound plan breaks one rule of `check`.
In `heltec` one command to schedule a frame, one to disturb it and one to
disturb its restoration meet one failure at any transaction; hops, frames and
beacons come once each because they leave nothing behind but what a second one
finds again.  In `wmi` two calls of the tuning thread and one of the other put a
late reply and an event before any reply; two sequence numbers can be confused
only modulo 4 when four commands pass while a reply waits, for which there are
too few strays (section 5 proves it of every modulus).  A `read_clock` takes less
than one turn of the low word, 71 minutes.  One thread sets knobs, because two
that race can leave the mirrors different from the chip (below).  In `stamps` the third packet is the
one after a window that was coalesced, reset or left, and a turn of 4 ticks with
a wrap in it puts an edge before, on and after the wrap, with the overflow
pending or not; `BootEnd` leaves two ticks before it.

What the properties except, because the code does otherwise or a run cannot reach
it, so that the hazard they are about is covered in part only:

* `OkWasServed` and `CleanLinkAttributes` except the late reply itself: nothing in
  the protocol tells it from the next command's own, so it is taken for that.  They
  show that this is the only way to a wrong reply.
* `QuietMirrorIsLive` and `QuietProfileIsCurrent` are about one caller on an
  undisturbed link: a refusal is caught, a retry or a second thread's knob in
  between is not, nor a fresher EVT_CAP stored while a profile waits to be installed.
* `RepliesAreOwned` excepts the trailing EVT_PHY_ERR, which may refuse the next
  SET_PHY.
* `NoOverrun` excepts a command sent after a deadline to a node still on the air.
* `NoteCostsOneFrame` excepts the frame behind a lost one, which takes its note.
* `ArmedIsListening` excepts the carrier after a hop service that failed.

Violation runs, each of a statement of the repository that the code does not
keep (details in `PROJECT.json`, `findings`):

| run | property | shows |
|---|---|---|
| `link_staged` | `IssuedFrameIsLoaded` | CMD_TX served between staging and key-up evicts the staged frame, and SetTx is issued all the same |
| `pump_sync_overlap` | `ReadersExit` | two reader threads keep each other's backend alive for ever |
| `wmi_width` | `WidthIsProgrammed` | a change of the channel alone leaves a 40 MHz radio with DYN2040 cleared |

Met while modelling, and not the subject of a run:

* *Link.*  A late EVT_TXDONE acknowledges the next inject; two racing
  `set_channel` calls leave the mirror on the other channel, two racing
  `set_phy_mode` calls an old profile installed.  `OkWasServed` and the `Quiet`
  properties say what holds without these.
* *Pumps.*  The `pumped` flag stays set after every reader thread has given up
  (`rx_pump.rs:91`), so `recv_frame` waits for threads that are gone; the event
  thread of `spawn_rx_pump_async` ends with the last transfer although the
  backend may still be in use.
* *Bring-up.*  `Assert::why` is documented as checked non-empty by
  `Plan::check`, which looks at rungs only; `check_or_panic` accepts a `why` of
  blanks that `check`, "the same rules", refuses.
* *Lease.*  `next_slot_start_us` (`src/lease.rs:322`), "at or after
  `not_before_us`", passes over an owned slot that starts exactly there, which
  its test asks for.
* *Heltec.*  A bus error in CMD_SET_HOP leaves the hop carrier programmed while
  hopping is off (`heltec/main.rs:3407`); the airtime of a scheduled frame is
  computed when it is accepted and outlives a CMD_SET_MOD (3232); when the
  standby before a key-up is lost the staged frame is left with a chip that does
  not idle, which `StagedIsLoaded` and `ArmedIsListening` allow for by name; after a hop
  service that failed (`HopGaveUp`) the armed receiver may stay on an old carrier.
* *ath9k.*  A `set_channel` repeated after a failure returns Ok and does nothing
  (`ath9k_htc.rs:3579`): the mirrors were set first; `set_tx_power` races the
  `reapply_power_state` of a width change; the first width change of a radio
  whose power was never commanded writes ladder level 0, the lowest gain
  (1607); the documentation at 447 still calls the live width change unsupported.
* *Stamps.*  A packet with a bad CRC that completes between `poll_rx`'s status
  read and its buffer read is delivered, with a software stamp, because the CRC
  flag was sampled before.  A lost EVT_RX_STAMP makes a software stamp a
  `RadioCapture` at the host, which is why `CapturedIsOwn` excepts that frame; a
  lost EVT_RX makes its note degrade the frame sent next if nothing comes
  between, which the comment at `lora_serial.rs:2988` means to exclude and
  `NoteCostsOneFrame` bounds.

## 4. Fairness

* Caller threads, the reader thread and the node's main loop are scheduled: weak
  fairness of their steps.  Nothing is owed to the issuing of operations, to
  beacons, relays or to the line.
* `FairSpec` of `CmdLink` owes no deadline of `exec_on`: what ends a wait there
  is the node's answer or the end of the port, which the reader thread passes on.
  The second look of `set_phy_mode` waits for an event the node sends only after
  a change, so its deadline (`RecvOnTimeout`) is owed.
* In the pumps every thread and every task is weakly fair, a caller calls
  `recv_frame` again after it returns, and neither the air nor the 200 ms re-poll
  of `recv` owes anything.  Completed transfers are handled in completion order
  by libusb; `AsyncPump` states this as strong fairness of each one's callback.
* `HeltecNode`: the radio task runs when it can (WF of `RadioTask`) and the clock
  goes on (WF of `Tick`).  Nothing is owed to the host, to interrupts or to the
  air, and bus failures are bounded: a node whose bus fails for ever is deaf.
* `Ath9kHtc`: each thread takes its next step, a receive that gets nothing comes
  back within `USB_TIMEOUT`, and the target serves what it is sent; it may still
  lose a bounded number of messages.  No call is owed.
* `BringUp` and `RxStamp` promise safety only and state no fairness.

## 5. Proofs

`CmdLink_proofs` proves, for any sets of callers, values and modulations and any
bounds, from the named assumptions of `CmdLink` only:

* `TypeCorrect`: `Spec => []TypeOK`.
* `MutexHeldWhileWaiting`: `Spec => []LockedWhileWaiting`.
* `LinkInvariant`: `Spec => []IInv`.  `IInv` adds to the types: the mutex is held
  exactly by the waiting caller, requests have distinct ids below `nextId`, each
  command and event in a queue belongs to a waiting caller or to a request given
  up, and on an undisturbed link at most one of command, slot, event and reply is
  anywhere between the host and the node.  The single properties are not
  inductive: that a reply is owned depends on the command having been owned while
  it was in the line, the ring and the slot.
* `RepliesOwned`, `CleanLink`, `NodeNotOverrun`: the properties of the same
  names that the runs check, from `IInv`.
* `SentOnceAlways`, by `OnceInv`: a command that must not be repeated is in one
  place at most (the caller's hand, the line, the ring, the slot), and is
  unexecuted there.
* `OkWasServedAlways`, by `EarnedInv`: the command of a request nobody gave up on
  is the last on its way to the node, so nothing is served between a frame's
  staging and its key-up and nothing evicts the frame; a positive reply on its
  way back means that the command was executed.
* `QuietProfile`, `WokenCaller`, `QuietMirror`, by `LoneInv`, which says in which
  stage of an operation the profile or the mirror may be out of step with the
  node.  Hypothesis `OneCaller`: one thread uses the link.  With two, racing
  installs make the three false (section 3), which is why run `link_one` checks
  them with one.

`BringUp_proofs` proves, for any plans, parts and requests, from the types of a
call (`CallsAssumption`) and the disjointness of outcomes (`OutcomesAssumption`):

* `TypeCorrect`.  That the cut of a deviation exists needs the largest of a set
  of bounded numbers, which comes from the well-foundedness of `<`.
* `OrderKept`: `RanInOrder`.  The invariant is that the plan was checked before
  the first rung (`Checked`), that the report's rungs are the first ones of the
  plan (`Prefix`), and that what ran is reported (`Reported`); that `position`
  finds the first rung of a name (`PositionIsFirst`) turns the comparisons of
  `check` into the contract.
* `EffectsReported`, `NothingLost`, `Examined`: each from its own strengthening,
  which says what holds while the run is under way.
* `ReportIsTrue`: `ReportTellsWhatRan`.  That what ran is the report without the
  removed rungs is said by counting: the k-th rung ran as the n-th if n of the
  first k were kept, which needs lemmas on the cardinality of what a report keeps
  and no recursion.

`BringUp_proofs` also proves, of `LeaseGrid` and for every geometry, hash and
time, what the functions of `lease.rs` promise: a geometry `new_for_frame` accepts holds one frame before
its guard; waiting `wait_us` reaches an owned slot and no earlier one;
`next_slot_start_us` is the first owned start after the slot of its argument;
the slot a superframe later has the same owner; and frames launched by two
owners whose clocks differ by no more than the guard allows do not overlap.

`SyncPump_proofs` and `AsyncPump_proofs`, over `RxQueue_proofs`, prove for any
sets of frames, threads, transfers and callers, and any capacities:

* `TypeCorrect` for both.
* `NoFrameSleepsAlways`: no caller sleeps beside a frame that waits, with all others
  asleep or gone, unless a notify is on its way.  Inductive with `WaitListKept` (the list of waiters is the sleepers,
  once each) and `WakeOwed` (a frame in the queue means a permit, a notified
  caller or a producer before its notify).
* `InflightIsLiveAlways` (asynchronous): the counter is the number of transfers
  that are live, with the one being submitted accounted for (`Counts`), which
  needs cardinalities of the sets of transfers by state.
* `PoolKeepsDepthAlways` (asynchronous): no transfer leaves the pool while the
  backend has its owner and its device is there, from `FreesAtEnd`.
* `NoBufferSleepsAlways` (asynchronous): the same as the first for the raw queue
  and its parse threads.
* `PumpImplementsService`: both pumps implement `FrameService`.  The invariant is
  that a frame is in at most one place of the driver (`Apart`), so that handing
  it up takes it out of `held`.

`HeltecNode_proofs` proves, for any commands, lists, delays, refused pairs and
number of faults:

* `TypeCorrect`, `HopStartsAtBaseAlways`.
* `NoneForgottenAlways`, `AtMostOnceAlways`: by a ledger.  `Owners` says where
  each request is (queue, slot, job, or closed) and that no two places share one;
  `Accounts` that `open`, `replies` and `keyed` agree with it.  Every action is
  one of seven moves of the ledger (nothing, answer the head of the queue, open
  it, key it up, send, key up the slot, close), each proved once.
* `StagedIsLoadedAlways`, `ArmedIsListeningAlways`: by `RadioOK`, which relates
  mirror and chip through every prefix of `arm_rx` and of the staging.

`RxStamp_proofs` proves, for every timer, any number of packets, losses, resets
and excursions, from `ParametersAssumption` (a turn of at least two ticks; an
interrupt is pending for no more than a quarter of a turn, 16 ms of the code's
65 ms, since `classify` compares with half a turn and an overflow may wait as
long as the edge before it):

* `TypeCorrect`, `CapturedIsOwnAlways`, `CleanIsCapturedAlways`,
  `ReportedOnceAlways`, `NoteCostsOneFrameAlways`.
* The invariant follows a stamp from the edge to the host.  `Clock`: the extended
  clock is the true time.  `Edge`, `Captured`: what is latched, and then what is
  counted, is the instant of a packet that completed since the arm.  `Counted`:
  the chip's count over the window bounds the packets in it.  `Window`: how many
  edges a window may have.  With a count of one the packet of the edge is the
  packet in hand (`Hand`).  `Written`: what was written is older than what is in
  hand.  `OnLine`, `Waiting`, `PubOK`: what may be on the line, and what a note
  that waits means.  None of these is inductive without the ones before it.
* The timer needs arithmetic that the provers do not find alone: counts of two
  times less than a turn apart differ, modulo the turn, by the times' difference
  (`CountDifference`).

`Ath9kHtc_proofs` proves, for any threads, operations, channels and receive
attempts and any number of faults and events:

* `TypeCorrect`, with `Turns` (exactly the holder of the mutex waits).
* `OwnReplyAlways`.  `LineInv` looks at commands and replies as one line, oldest
  first: ages (commands sent since a message's own) fall along the line, each is
  paid for by a fault, an event or the command under way, and only the youngest
  belongs to a waiting thread.  Hypothesis `FewStrays`: fewer faults and events
  than sequence numbers, because a reply that is 65536 commands late cannot be
  told from the right one.
* `KnobsAlwaysProgrammed`.  `KnobsInv`: as long as no command of the tuning
  thread has failed, each register that matters either agrees with the mirrors
  (`Settled`) or a step that will make it agree is still in the program, with the
  right argument (`Programs`, `Due`); no write is in the pipe for a thread that
  has given it up (`NoStaleWrite`); and a write whose reply waits has had its
  effect (`Effects`).  Hypothesis `OneTuner`: one thread calls `set_channel` and
  `set_tx_power`; with two the property is false (section 3).
* `ClockAlwaysCurrent`.  `ClockInv` bounds each word that was read by the time
  between the call and now, in the order of the reads; that the low word belongs
  to the high word chosen follows from the read taking less than one turn.
* `PathImplementsRegisterFile`: `Spec => ImplementsRegisterFile`, under
  `FewStrays` and from `LineInv`.  Only the last of a pipe can be owned
  (`OwnLast`), so sending, giving up and taking a command change `left` as
  `RegisterFile` says (`GivenSent`, `GivenUp`, `GivenTaken`); then each step of the
  path is the step of the file with its name, or a stutter (`FileNext`): the
  target serving an owned command is `Effect`, dropping it or damaging its reply
  is `Loss`, serving or dropping an orphan is `LateEffect`.

The proofs have one lemma or one case per action.

Only model-checked: liveness under fairness (`OperationsReturn`, `HeldIsDelivered`,
`EveryRequestAnswered`, `NeverDeafForGood`, `CallsReturn`), which is out of the
prover's reach.

## 6. Not modelled, and the plan

Not modelled on purpose: byte formats and parsing (fuzzed and unit-tested),
register sequences and calibration tables (their effect is in the chip), which
are most of the lines of the Realtek and MediaTek backends; vendored code, tools,
examples, blobs.  In the modules: the rendering, timing and digest of a report,
and what a rung itself writes into `RadioState` and the warnings through its
`Ctx`; the deadline arithmetic of the Waveshare scheduler; the forwarding tables
of both nodes; the bring-up, lease and EDCCA code of the ath9k backend; the
timer's self-test at boot.

The plan, in order:

1. A timed model of `inject_at_abs` against `sched_service`.
2. An abstract request/reply service, refined by `CmdLink` on a clean link, as
   `RegisterFile` is by `Ath9kHtc`.
3. The serial radio protocol and its bridges; the MCU channel of the MediaTek
   backends; `common_view_pool`; contention; the frequency discipline; phy
   switching and tier-0 hopping of the LR2021 node.
4. Proofs: that refinement.
