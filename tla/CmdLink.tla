------------------------------- MODULE CmdLink -------------------------------
(***************************************************************************)
(* The 7E-A5 command link: caller threads of one LoraSerialBackend share a *)
(* serial port behind the `cmd` mutex, one reader thread decodes what the  *)
(* node sends, and the node's firmware serves one command at a time.       *)
(*                                                                         *)
(* Host side: src/lora_serial.rs (exec_on, recv_on, exec_idempotent,   *)
(* set_channel, set_spreading_factor, set_phy_mode, inject, inject_after,  *)
(* reader_loop, handle_event).  Node side: the main loop, handle_cmd and   *)
(* sched_service of firmware/waveshare-lora-rs/src/main.rs.                *)
(*                                                                         *)
(* Deadlines are nondeterministic: a wait may end with a timeout at any    *)
(* moment, because a node may be on the air, relaying or beaconing for     *)
(* longer than any of the host's budgets.  EVT_TX_STARTED, which only      *)
(* moves a deadline, and EVT_LOG, which the reader drops, are left out.    *)
(***************************************************************************)
EXTENDS Naturals, Sequences, FiniteSets, Functions

CONSTANTS
  Callers,        \* the threads that share one backend
  NoCaller,       \* the value of a free mutex
  Ops,            \* the operations this instance issues, a subset of AllOps
  Values,         \* the settings of a knob: channels, and spreading factors
  Phys,           \* the modulations the node advertises
  LoRa,           \* the only member of Phys with a spreading factor
  RingCap,        \* commands the node buffers while busy; 0 is a FIFO-less USART
  KNOB_ATTEMPTS,  \* sends of an idempotent knob before it gives up
  MaxReqs,        \* bound: operations issued in one behaviour
  MaxBeacons,     \* bound: transmissions of the node's own, beacons and relays
  MaxPushes,      \* bound: moves of sched_gran_ns that re-publish EVT_CAP
  MaxLost,        \* bound: frames corrupted on the wire, either direction
  PortMayFail     \* whether the adapter may be unplugged in this instance

AllOps == {"tx", "txat", "freq", "mod", "phy"}

ASSUME CallersAssumption == NoCaller \notin Callers
ASSUME OpsAssumption == Ops \subseteq AllOps
ASSUME PhysAssumption == LoRa \in Phys
ASSUME BoundsAssumption ==
  /\ RingCap \in Nat
  /\ KNOB_ATTEMPTS \in Nat \ {0}
  /\ MaxReqs \in Nat /\ MaxBeacons \in Nat /\ MaxPushes \in Nat /\ MaxLost \in Nat
  /\ PortMayFail \in BOOLEAN

VARIABLES
  \* ---- host: the mutex, the callers, the mirror, the profile, the reader
  lock,      \* the caller that holds `cmd`, or NoCaller
  pc,        \* where each caller is in its operation
  req,       \* the operation each caller is running: [id, op, val]
  tries,     \* sends made of it so far
  learned,   \* the EVT_CAP a set_phy_mode took as its reply
  mirror,    \* LoraParams, the host's copy of the node's settings
  profile,   \* NodeProfile, the last capability stored
  resp,      \* the response channel from the reader to the callers
  offering,  \* the EVT_CAP the reader has stored and not yet offered
  readerUp,  \* the reader thread runs (the port has not failed)
  \* ---- the serial line
  toNode, toHost, lost,
  \* ---- node
  ring,      \* decoded and buffered commands, the head being served
  airing,    \* what blocks the main loop on the air: none, sched, beacon, relay
  slot,      \* the one-deep scheduled transmission: a request id, or 0
  staged,    \* its deadline is near and its frame was put into the chip
  loaded,    \* the request whose frame the chip holds ready to key up, or 0
  reg,       \* the settings the radio runs with
  cap,       \* what EVT_CAP would say now: [phy, ver]
  beacons, pushes,
  \* ---- history
  nextId,    \* the next request id
  opOf,      \* the operation of each request
  served,    \* how often the node executed each request
  result,    \* what each request returned to its caller
  adrift,    \* requests the host stopped waiting for before their own reply
  disturbed, \* a timeout, a beacon, a relay, a push or a closed port has happened
  overrun    \* a command reached a node with no room for it

hostVars == <<lock, pc, req, tries, learned, mirror, profile>>
readVars == <<resp, offering, readerUp>>
wireVars == <<toNode, toHost, lost>>
nodeVars == <<ring, airing, slot, staged, loaded, reg, cap, beacons, pushes>>
histVars == <<nextId, opOf, served, result, adrift, disturbed, overrun>>
vars == <<hostVars, readVars, wireVars, nodeVars, histVars>>

----------------------------------------------------------------------------
Ids == 1 .. MaxReqs
Caps == [phy : Phys, ver : Nat]
Settings == [freq : Values, sf : Values]
Requests ==
  {r \in [id : 0 .. MaxReqs, op : AllOps, val : Values \cup Phys] :
     IF r.op = "phy" THEN r.val \in Phys ELSE r.val \in Values}
EvTypes == {"TXDONE", "INFO", "CAP", "UNSUPPORTED", "PHY_ERR"}
Events == [typ : EvTypes, id : 0 .. MaxReqs, op : AllOps, ok : BOOLEAN, cap : Caps]
PcValues == {"idle", "send_mod", "lock", "wait", "mirror",
             "race", "race_wait", "install"}

\* The event type exec_on waits for, by operation.
Expect == [op \in AllOps |->
             CASE op \in {"tx", "txat"}   -> "TXDONE"
               [] op \in {"freq", "mod"}  -> "INFO"
               [] op = "phy"              -> "CAP"]

\* Mutant of Idempotent: a transmission is re-sent like any knob.
IdempotentTx(op) == op # "phy"
\* CMD_TX is never re-sent, and neither is a CMD_SET_PHY; a SET_* knob is.
Idempotent(op) == op \in {"freq", "mod"}

HasSpreadingFactor(p) == p.phy = LoRa

\* An event that answers request r; id 0 is one that nobody asked for.
Reply(typ, r, ok) == [typ |-> typ, id |-> r.id, op |-> r.op, ok |-> ok, cap |-> cap]
Unasked(typ, ok) == [typ |-> typ, id |-> 0, op |-> "tx", ok |-> ok, cap |-> cap]

Init ==
  /\ lock = NoCaller
  /\ pc = [c \in Callers |-> "idle"]
  /\ \E v \in Values :
       /\ reg = [freq |-> v, sf |-> v]
       /\ mirror = reg
       /\ req = [c \in Callers |-> [id |-> 0, op |-> "tx", val |-> v]]
  /\ tries = [c \in Callers |-> 0]
  /\ cap = [phy |-> LoRa, ver |-> 0]
  /\ profile = cap
  /\ learned = [c \in Callers |-> cap]
  /\ resp = <<>> /\ offering = <<>> /\ readerUp = TRUE
  /\ toNode = <<>> /\ toHost = <<>> /\ lost = 0
  /\ ring = <<>> /\ airing = "none"
  /\ slot = 0 /\ staged = FALSE /\ loaded = 0
  /\ beacons = 0 /\ pushes = 0
  /\ nextId = 1
  /\ opOf = [i \in Ids |-> "none"]
  /\ served = [i \in Ids |-> 0]
  /\ result = [i \in Ids |-> "none"]
  /\ adrift = {} /\ disturbed = FALSE /\ overrun = FALSE

----------------------------------------------------------------------------
(* Host: the callers.                                                      *)

\* `cmd.lock()` and the end of its guard's scope.  The mutants do without the
\* mutex, and forget to release it.
CanLockAlways == TRUE
CanLock == lock = NoCaller
KeepLock == UNCHANGED lock
Unlock == lock' = NoCaller

\* Mutant of Permitted: the spreading-factor gate is missing.
PermittedUngated(op, v) == op \in {"freq", "mod"} => v \in Values
\* require(): the capability gate, read from the stored profile.
Permitted(op, v) ==
  /\ op = "mod" => HasSpreadingFactor(profile)
  /\ op = "phy" => v \in Phys
  /\ op \in {"freq", "mod"} => v \in Values

\* A caller enters an operation.  set_spreading_factor moves the mirror first
\* and builds the command from the mirror later; set_channel does the reverse.
Begin(c, op, v) ==
  /\ pc[c] = "idle" /\ nextId <= MaxReqs
  /\ Permitted(op, v)
  /\ req' = [req EXCEPT ![c] = [id |-> nextId, op |-> op, val |-> v]]
  /\ nextId' = nextId + 1
  /\ opOf' = [opOf EXCEPT ![nextId] = op]
  /\ tries' = [tries EXCEPT ![c] = 0]
  /\ IF op = "mod"
       THEN /\ pc' = [pc EXCEPT ![c] = "send_mod"]
            /\ mirror' = [mirror EXCEPT !.sf = v]
       ELSE /\ pc' = [pc EXCEPT ![c] = "lock"]
            /\ UNCHANGED mirror
  /\ UNCHANGED <<lock, learned, profile, readVars, wireVars, nodeVars,
                 served, result, adrift, disturbed, overrun>>

\* The request of c is over and returned r; the mutex is free if c held it.
Finish(c, r) ==
  /\ pc' = [pc EXCEPT ![c] = "idle"]
  /\ result' = [result EXCEPT ![req[c].id] = r]

\* An error that is not a refusal: a knob is sent again while attempts remain.
Fail(c) ==
  IF Idempotent(req[c].op) /\ tries[c] < KNOB_ATTEMPTS
    THEN pc' = [pc EXCEPT ![c] = "lock"] /\ UNCHANGED result
    ELSE Finish(c, "err")

SendMod(c) ==
  /\ pc[c] = "send_mod"
  /\ IF HasSpreadingFactor(profile)
       THEN /\ req' = [req EXCEPT ![c].val = mirror.sf]
            /\ pc' = [pc EXCEPT ![c] = "lock"]
            /\ UNCHANGED result
       ELSE Finish(c, "err") /\ UNCHANGED req
  /\ UNCHANGED <<lock, tries, learned, mirror, profile, readVars, wireVars,
                 nodeVars, nextId, opOf, served, adrift, disturbed, overrun>>

\* exec_on up to its first wait: take the mutex, drain the replies already
\* there, send.  An event the reader appends between the drain and the send is
\* in the same place as one it appends just after the send.
ExecOn(c) ==
  /\ pc[c] = "lock" /\ CanLock /\ readerUp
  /\ lock' = c
  /\ resp' = <<>>
  /\ toNode' = Append(toNode, req[c])
  /\ tries' = [tries EXCEPT ![c] = @ + 1]
  /\ pc' = [pc EXCEPT ![c] = "wait"]
  /\ UNCHANGED <<req, learned, mirror, profile, offering, readerUp, toHost, lost,
                 nodeVars, histVars>>

\* The same call on a port that has failed: the write is the error.
ExecOnClosed(c) ==
  /\ pc[c] = "lock" /\ CanLock /\ ~readerUp
  /\ resp' = <<>>
  /\ tries' = [tries EXCEPT ![c] = @ + 1]
  /\ Fail(c)
  /\ UNCHANGED <<lock, req, learned, mirror, profile, offering, readerUp, wireVars,
                 nodeVars, nextId, opOf, served, adrift, disturbed, overrun>>

\* The request of c after it stopped waiting with event e in hand.
AdriftBut(c, e) ==
  IF e.id = req[c].id THEN adrift ELSE adrift \cup {req[c].id}

Matches(c, e) == e.typ = Expect[req[c].op]

\* EVT_UNSUPPORTED naming this command, or EVT_PHY_ERR before any capability.
Refuses(c, e) ==
  \/ e.typ = "UNSUPPORTED" /\ e.op = req[c].op
  \/ e.typ = "PHY_ERR" /\ req[c].op = "phy"

TakeReply(c) ==
  /\ pc[c] = "wait" /\ resp # <<>>
  /\ LET e == Head(resp) IN
       /\ Matches(c, e)
       /\ adrift' = AdriftBut(c, e)
       /\ CASE req[c].op = "freq" ->
                 pc' = [pc EXCEPT ![c] = "mirror"] /\ UNCHANGED <<result, learned>>
            [] req[c].op = "phy" ->
                 /\ learned' = [learned EXCEPT ![c] = e.cap]
                 /\ pc' = [pc EXCEPT ![c] =
                             IF e.cap.phy = req[c].val THEN "install" ELSE "race"]
                 /\ UNCHANGED result
            [] OTHER ->
                 Finish(c, IF e.ok THEN "ok" ELSE "err") /\ UNCHANGED learned
  /\ Unlock
  /\ resp' = Tail(resp)
  /\ UNCHANGED <<req, tries, mirror, profile, offering, readerUp, wireVars,
                 nodeVars, nextId, opOf, served, disturbed, overrun>>

TakeRefusal(c) ==
  /\ pc[c] = "wait" /\ resp # <<>>
  /\ Refuses(c, Head(resp)) /\ ~Matches(c, Head(resp))
  /\ adrift' = AdriftBut(c, Head(resp))
  /\ Finish(c, "err")
  /\ Unlock
  /\ resp' = Tail(resp)
  /\ UNCHANGED <<req, tries, learned, mirror, profile, offering, readerUp, wireVars,
                 nodeVars, nextId, opOf, served, disturbed, overrun>>

\* "some other event slipped in; keep waiting for ours"
SkipEvent(c) ==
  /\ resp # <<>>
  /\ \/ pc[c] = "wait" /\ ~Matches(c, Head(resp)) /\ ~Refuses(c, Head(resp))
     \/ pc[c] = "race_wait" /\ Head(resp).typ # "CAP"
  /\ resp' = Tail(resp)
  /\ UNCHANGED <<hostVars, offering, readerUp, wireVars, nodeVars, histVars>>

Timeout(c) ==
  /\ pc[c] = "wait"
  /\ Fail(c)
  /\ Unlock
  /\ adrift' = adrift \cup {req[c].id}
  /\ disturbed' = TRUE
  /\ UNCHANGED <<req, tries, learned, mirror, profile, readVars, wireVars,
                 nodeVars, nextId, opOf, served, overrun>>

\* The reader is gone and its channel empty: FaceError::Closed.
Disconnected(c) ==
  /\ pc[c] = "wait" /\ ~readerUp /\ resp = <<>>
  /\ Fail(c)
  /\ Unlock
  /\ adrift' = adrift \cup {req[c].id}
  /\ UNCHANGED <<req, tries, learned, mirror, profile, readVars, wireVars,
                 nodeVars, nextId, opOf, served, disturbed, overrun>>

\* set_channel copies the setting into the mirror after the node's Ok, with the
\* command mutex already released.
SetMirror(c) ==
  /\ pc[c] = "mirror"
  /\ mirror' = [mirror EXCEPT !.freq = req[c].val]
  /\ Finish(c, "ok")
  /\ UNCHANGED <<lock, req, tries, learned, profile, readVars, wireVars, nodeVars,
                 nextId, opOf, served, adrift, disturbed, overrun>>

\* recv_on: a second look at the channel, under a new hold of the mutex.
RecvOn(c) ==
  /\ pc[c] = "race" /\ CanLock
  /\ lock' = c
  /\ pc' = [pc EXCEPT ![c] = "race_wait"]
  /\ UNCHANGED <<req, tries, learned, mirror, profile, readVars, wireVars, nodeVars,
                 histVars>>

RecvOnCap(c) ==
  /\ pc[c] = "race_wait" /\ resp # <<>> /\ Head(resp).typ = "CAP"
  /\ learned' = [learned EXCEPT ![c] = Head(resp).cap]
  /\ resp' = Tail(resp)
  /\ Unlock
  /\ pc' = [pc EXCEPT ![c] = "install"]
  /\ UNCHANGED <<req, tries, mirror, profile, offering, readerUp, wireVars, nodeVars,
                 histVars>>

RecvOnTimeout(c) ==
  /\ pc[c] = "race_wait"
  /\ Unlock
  /\ pc' = [pc EXCEPT ![c] = "install"]
  /\ UNCHANGED <<req, tries, learned, mirror, profile, readVars, wireVars, nodeVars,
                 histVars>>

\* Mutant of Install: the new modulation is patched into the old profile.
InstallPatched(c) ==
  /\ pc[c] = "install"
  /\ profile' = [profile EXCEPT !.phy = learned[c].phy, !.ver = 0]
  /\ Finish(c, "ok")
  /\ UNCHANGED <<lock, req, tries, learned, mirror, readVars, wireVars, nodeVars,
                 nextId, opOf, served, adrift, disturbed, overrun>>

\* install_profile.  Its reconcile_params clamps the mirror into the new spans;
\* the frequency span of a node is the same in all its modulations and the
\* spreading-factor span exists in one of them only, so no setting moves here.
Install(c) ==
  /\ pc[c] = "install"
  /\ profile' = learned[c]
  /\ Finish(c, "ok")
  /\ UNCHANGED <<lock, req, tries, learned, mirror, readVars, wireVars, nodeVars,
                 nextId, opOf, served, adrift, disturbed, overrun>>

----------------------------------------------------------------------------
(* Host: the reader thread, and the line.                                  *)

\* Mutant of ReaderStoresCap: storing it is left to whoever asked.
ReaderOnlyOffersCap ==
  /\ readerUp /\ offering = <<>> /\ toHost # <<>> /\ Head(toHost).typ = "CAP"
  /\ offering' = <<Head(toHost)>>
  /\ toHost' = Tail(toHost)
  /\ UNCHANGED <<hostVars, resp, readerUp, toNode, lost, nodeVars, histVars>>

\* handle_event on an EVT_CAP, in the order of the code: the profile is stored
\* first, and only then is the event offered to the callers.
ReaderStoresCap ==
  /\ readerUp /\ offering = <<>> /\ toHost # <<>> /\ Head(toHost).typ = "CAP"
  /\ profile' = Head(toHost).cap
  /\ offering' = <<Head(toHost)>>
  /\ toHost' = Tail(toHost)
  /\ UNCHANGED <<lock, pc, req, tries, learned, mirror, resp, readerUp, toNode, lost,
                 nodeVars, histVars>>

ReaderOffersCap ==
  /\ offering # <<>>
  /\ resp' = resp \o offering
  /\ offering' = <<>>
  /\ UNCHANGED <<hostVars, readerUp, wireVars, nodeVars, histVars>>

\* Every other event goes straight to the callers.
ReaderForwards ==
  /\ readerUp /\ offering = <<>> /\ toHost # <<>> /\ Head(toHost).typ # "CAP"
  /\ resp' = Append(resp, Head(toHost))
  /\ toHost' = Tail(toHost)
  /\ UNCHANGED <<hostVars, offering, readerUp, toNode, lost, nodeVars, histVars>>

\* The port fails (an unplugged adapter): reader_loop returns, dropping the
\* channel, and nothing crosses the line any more.
PortFails ==
  /\ PortMayFail /\ readerUp /\ offering = <<>>
  /\ readerUp' = FALSE
  /\ toNode' = <<>> /\ toHost' = <<>>
  /\ disturbed' = TRUE
  /\ UNCHANGED <<hostVars, resp, offering, lost, nodeVars, nextId, opOf, served, result,
                 adrift, overrun>>

\* A frame whose checksum fails is skipped by next_event, or by the node's
\* parser, without a trace.
LoseEvent ==
  /\ lost < MaxLost /\ toHost # <<>>
  /\ toHost' = Tail(toHost)
  /\ lost' = lost + 1
  /\ UNCHANGED <<hostVars, readVars, toNode, nodeVars, histVars>>

LoseCommand ==
  /\ lost < MaxLost /\ toNode # <<>>
  /\ toNode' = Tail(toNode)
  /\ lost' = lost + 1
  /\ UNCHANGED <<hostVars, readVars, toHost, nodeVars, histVars>>

----------------------------------------------------------------------------
(* The node.                                                               *)

Busy == Len(ring) + (IF airing = "none" THEN 0 ELSE 1)

\* A command reaches the node: into the ring its interrupt fills, or, on a part
\* without one, destroyed when anything is being served.
Arrive ==
  /\ toNode # <<>>
  /\ IF Busy <= RingCap
       THEN ring' = Append(ring, Head(toNode)) /\ UNCHANGED overrun
       ELSE overrun' = TRUE /\ UNCHANGED ring
  /\ toNode' = Tail(toNode)
  /\ UNCHANGED <<hostVars, readVars, toHost, lost, airing, slot, staged, loaded, reg, cap,
                 beacons, pushes, nextId, opOf, served, result, adrift, disturbed>>

\* handle_cmd takes the head of the ring, of operation op, and answers it.
Serving(op) == airing = "none" /\ ring # <<>> /\ Head(ring).op = op
Answer(events) ==
  /\ ring' = Tail(ring)
  /\ toHost' = toHost \o events
Execute(id) == served' = [served EXCEPT ![id] = @ + 1]
\* start_rx: the receiver is armed again, with its own packet length and the
\* antenna switched back, whatever was loaded for the transmitter.
Rearm == loaded' = 0
NodeElse == <<hostVars, readVars, toNode, lost, airing, beacons, pushes,
              nextId, opOf, result, adrift, overrun>>

\* CMD_TX, and CMD_TX_LBT, whose sense may find the channel busy throughout.
HandleTx ==
  /\ Serving("tx")
  /\ \E ok \in BOOLEAN : Answer(<<Reply("TXDONE", Head(ring), ok)>>)
  /\ Execute(Head(ring).id)
  /\ Rearm
  /\ UNCHANGED <<NodeElse, slot, staged, reg, cap, disturbed>>

\* Mutant of HandleTxAt: answered when armed.
HandleTxAtEarly ==
  /\ Serving("txat")
  /\ slot' = IF slot = 0 THEN Head(ring).id ELSE slot
  /\ Answer(<<Reply("TXDONE", Head(ring), slot = 0)>>)
  /\ UNCHANGED <<NodeElse, staged, loaded, reg, cap, served, disturbed>>
\* CMD_TX_AT: armed and answered when the frame goes, or refused while the
\* slot is taken.
HandleTxAt ==
  /\ Serving("txat")
  /\ IF slot = 0
       THEN slot' = Head(ring).id /\ Answer(<<>>)
       ELSE Answer(<<Reply("TXDONE", Head(ring), FALSE)>>) /\ UNCHANGED slot
  /\ UNCHANGED <<NodeElse, staged, loaded, reg, cap, served, disturbed>>

\* A deadline beyond SCHED_MAX_DELAY_US, ahead or (absolute) behind, is refused by name.
RefuseTxAt ==
  /\ Serving("txat") /\ slot = 0
  /\ Answer(<<Reply("UNSUPPORTED", Head(ring), FALSE)>>)
  /\ UNCHANGED <<NodeElse, slot, staged, loaded, reg, cap, served, disturbed>>

HandleSetFreq ==
  /\ Serving("freq")
  /\ reg' = [reg EXCEPT !.freq = Head(ring).val]
  /\ Answer(<<Reply("INFO", Head(ring), TRUE)>>)
  /\ Execute(Head(ring).id)
  /\ Rearm
  /\ UNCHANGED <<NodeElse, slot, staged, cap, disturbed>>

\* Mutant of HandleSetMod: the refusal goes on to apply the command.
HandleSetModNoReturn ==
  /\ Serving("mod")
  /\ reg' = [reg EXCEPT !.sf = Head(ring).val]
  /\ Answer((IF HasSpreadingFactor(cap) THEN <<>>
              ELSE <<Reply("UNSUPPORTED", Head(ring), FALSE)>>)
             \o <<Reply("INFO", Head(ring), TRUE)>>)
  /\ Execute(Head(ring).id)
  /\ Rearm
  /\ UNCHANGED <<NodeElse, slot, staged, cap, disturbed>>
HandleSetMod ==
  /\ Serving("mod")
  /\ IF HasSpreadingFactor(cap)
       THEN /\ reg' = [reg EXCEPT !.sf = Head(ring).val]
            /\ Answer(<<Reply("INFO", Head(ring), TRUE)>>)
            /\ Execute(Head(ring).id)
            /\ Rearm
       ELSE /\ Answer(<<Reply("UNSUPPORTED", Head(ring), FALSE)>>)
            /\ UNCHANGED <<reg, served, loaded>>
  /\ UNCHANGED <<NodeElse, slot, staged, cap, disturbed>>

\* A queued transmission belongs to the old modulation: SET_PHY closes it with
\* EVT_TXDONE [0, 0] before anything else.
Cancelled ==
  IF slot = 0 THEN <<>>
  ELSE <<[Reply("TXDONE", Head(ring), FALSE) EXCEPT !.id = slot]>>

HandleSetPhy ==
  /\ Serving("phy")
  /\ slot' = 0 /\ staged' = FALSE
  /\ Rearm
  /\ cap' = [phy |-> Head(ring).val, ver |-> cap.ver + 1]
  /\ \/ /\ Answer(Cancelled \o <<[Reply("CAP", Head(ring), TRUE) EXCEPT !.cap = cap']>>)
        /\ UNCHANGED disturbed
     \* the mode came up and its receiver would not arm (LR-FHSS on an LR2021)
     \/ /\ Answer(Cancelled \o <<[Reply("CAP", Head(ring), TRUE) EXCEPT !.cap = cap']>>
                            \o <<Reply("PHY_ERR", Head(ring), FALSE)>>)
        /\ disturbed' = TRUE
  /\ Execute(Head(ring).id)
  /\ UNCHANGED <<NodeElse, reg>>

\* The chip declines the mode and the node goes back to the one it had.
RefuseSetPhy ==
  /\ Serving("phy")
  /\ slot' = 0 /\ staged' = FALSE
  /\ Rearm
  /\ Answer(Cancelled \o <<Reply("PHY_ERR", Head(ring), FALSE)>>)
  /\ UNCHANGED <<NodeElse, reg, cap, served, disturbed>>

\* sched_service: shortly before its deadline the frame is put into the chip ...
SchedStage ==
  /\ slot # 0 /\ ~staged /\ airing = "none"
  /\ staged' = TRUE /\ loaded' = slot
  /\ UNCHANGED <<hostVars, readVars, wireVars, ring, airing, slot, reg, cap, beacons, pushes,
                 histVars>>

\* ... the host link is drained meanwhile, and at the deadline the chip keys up
\* with whatever it holds ...
SchedIssue ==
  /\ staged /\ airing = "none"
  /\ airing' = "sched"
  /\ IF loaded = slot THEN Execute(slot) ELSE UNCHANGED served
  /\ UNCHANGED <<hostVars, readVars, wireVars, ring, slot, staged, loaded, reg, cap, beacons,
                 pushes, nextId, opOf, result, adrift, disturbed, overrun>>

\* ... and is reported; when its key-up moved sched_gran_ns materially, a new
\* EVT_CAP that nobody asked for follows.
SchedDone ==
  /\ airing = "sched"
  /\ airing' = "none" /\ slot' = 0 /\ staged' = FALSE
  /\ Rearm
  /\ \E ok \in BOOLEAN :
       LET done == <<[Unasked("TXDONE", ok) EXCEPT !.id = slot]>> IN
       \/ /\ toHost' = toHost \o done
          /\ UNCHANGED <<cap, pushes, disturbed>>
       \/ /\ pushes < MaxPushes
          /\ pushes' = pushes + 1
          /\ cap' = [cap EXCEPT !.ver = @ + 1]
          /\ toHost' = toHost \o done \o <<[Unasked("CAP", TRUE) EXCEPT !.cap = cap']>>
          /\ disturbed' = TRUE
  /\ UNCHANGED <<hostVars, readVars, toNode, lost, ring, reg, beacons, nextId, opOf, served,
                 result, adrift, overrun>>

\* The beacon, off while a transmission is scheduled, announces its own
\* transmission with the event that answers CMD_TX.
BeaconStart ==
  /\ beacons < MaxBeacons /\ airing = "none" /\ ring = <<>> /\ slot = 0
  /\ airing' = "beacon"
  /\ beacons' = beacons + 1
  /\ disturbed' = TRUE
  /\ UNCHANGED <<hostVars, readVars, wireVars, ring, slot, staged, loaded, reg, cap, pushes,
                 nextId, opOf, served, result, adrift, overrun>>

BeaconDone ==
  /\ airing = "beacon"
  /\ airing' = "none"
  /\ \E ok \in BOOLEAN : toHost' = Append(toHost, Unasked("TXDONE", ok))
  /\ UNCHANGED <<hostVars, readVars, toNode, lost, ring, slot, staged, loaded, reg, cap,
                 beacons, pushes, histVars>>

\* A frame heard on the air is relayed, or answered from the content store,
\* with listen-before-talk: seconds in which the main loop drains nothing.  The
\* chip does not receive while a frame is staged.  The host hears of it only as
\* a received frame, if at all.
RelayStart ==
  /\ beacons < MaxBeacons /\ airing = "none" /\ ring = <<>> /\ ~staged
  /\ airing' = "relay"
  /\ beacons' = beacons + 1
  /\ disturbed' = TRUE
  /\ UNCHANGED <<hostVars, readVars, wireVars, ring, slot, staged, loaded, reg, cap, pushes,
                 nextId, opOf, served, result, adrift, overrun>>

RelayDone ==
  /\ airing = "relay"
  /\ airing' = "none"
  /\ UNCHANGED <<hostVars, readVars, wireVars, ring, slot, staged, loaded, reg, cap, beacons,
                 pushes, histVars>>

----------------------------------------------------------------------------
Issue(c) ==
  \E op \in Ops : \E v \in (IF op = "phy" THEN Phys ELSE Values) : Begin(c, op, v)

\* What a caller does once it is inside an operation.
CallerStep(c) ==
  \/ SendMod(c) \/ ExecOn(c) \/ ExecOnClosed(c)
  \/ TakeReply(c) \/ TakeRefusal(c) \/ SkipEvent(c) \/ Timeout(c) \/ Disconnected(c)
  \/ SetMirror(c) \/ RecvOn(c) \/ RecvOnCap(c) \/ RecvOnTimeout(c) \/ Install(c)

ReaderStep == ReaderStoresCap \/ ReaderOffersCap \/ ReaderForwards

LineStep == PortFails \/ LoseEvent \/ LoseCommand

NodeStep ==
  \/ Arrive \/ HandleTx \/ HandleTxAt \/ RefuseTxAt \/ HandleSetFreq \/ HandleSetMod
  \/ HandleSetPhy \/ RefuseSetPhy \/ SchedStage \/ SchedIssue \/ SchedDone
  \/ BeaconStart \/ BeaconDone \/ RelayStart \/ RelayDone

Next ==
  \/ \E c \in Callers : Issue(c) \/ CallerStep(c)
  \/ ReaderStep \/ LineStep \/ NodeStep

Spec == Init /\ [][Next]_vars

\* What a caller does without its deadline.
PatientStep(c) ==
  \/ SendMod(c) \/ ExecOn(c) \/ ExecOnClosed(c)
  \/ TakeReply(c) \/ TakeRefusal(c) \/ SkipEvent(c) \/ Disconnected(c)
  \/ SetMirror(c) \/ RecvOn(c) \/ RecvOnCap(c) \/ RecvOnTimeout(c) \/ Install(c)

\* The scheduling the code gives: the callers run, a free mutex is eventually
\* taken (callers issue finitely many operations here, so nobody can hold it
\* for ever), the reader thread and the node's main loop keep running.  Nothing
\* is owed to Issue, to the line, or to the deadlines of exec_on.
FairSpec ==
  /\ Spec
  /\ \A c \in Callers : WF_vars(PatientStep(c))
  /\ WF_vars(ReaderStep) /\ WF_vars(NodeStep)

----------------------------------------------------------------------------
(* Types.                                                                  *)

HostTypeOK ==
  /\ lock \in Callers \cup {NoCaller}
  /\ pc \in [Callers -> PcValues]
  /\ req \in [Callers -> Requests]
  /\ tries \in [Callers -> Nat]
  /\ learned \in [Callers -> Caps]
  /\ mirror \in Settings
  /\ profile \in Caps
  /\ resp \in Seq(Events) /\ offering \in Seq(Events)
  /\ readerUp \in BOOLEAN

NodeTypeOK ==
  /\ toNode \in Seq(Requests) /\ toHost \in Seq(Events) /\ ring \in Seq(Requests)
  /\ airing \in {"none", "sched", "beacon", "relay"}
  /\ slot \in 0 .. MaxReqs /\ staged \in BOOLEAN /\ loaded \in 0 .. MaxReqs
  /\ reg \in Settings
  /\ cap \in Caps
  /\ lost \in Nat /\ beacons \in Nat /\ pushes \in Nat

HistoryTypeOK ==
  /\ nextId \in 1 .. MaxReqs + 1
  /\ opOf \in [Ids -> AllOps \cup {"none"}]
  /\ served \in [Ids -> Nat]
  /\ result \in [Ids -> {"none", "ok", "err"}]
  /\ adrift \subseteq Ids
  /\ disturbed \in BOOLEAN /\ overrun \in BOOLEAN

\* What each stage of an operation holds in hand.
StageTypeOK ==
  \A c \in Callers :
    /\ pc[c] # "idle" => req[c].id \in Ids
    /\ pc[c] = "send_mod" => req[c].op = "mod"
    /\ pc[c] = "mirror" => req[c].op = "freq"

\* Every variable keeps its type, and every operation has the request and the
\* stages of its own kind.
TypeOK == HostTypeOK /\ NodeTypeOK /\ HistoryTypeOK /\ StageTypeOK

----------------------------------------------------------------------------
(* Safety.                                                                 *)

AllItems(s) == Range(s)

\* Commands on their way to the node, or in it.
Outstanding == {r.id : r \in AllItems(toNode) \cup AllItems(ring)} \cup ({slot} \ {0})
\* Events on their way to a caller.
Upward == AllItems(toHost) \cup AllItems(offering) \cup AllItems(resp)
Waiting(c) == pc[c] \in {"wait", "race_wait"}

\* The mutex is held exactly by the caller that waits for a reply: exec_on and
\* recv_on hold it across the whole wait and release it on every way out.
LockedWhileWaiting ==
  \A c \in Callers : Waiting(c) <=> lock = c

\* An inject puts its frame on the air at most once, and a set_phy_mode switches
\* the modulation at most once, whatever is lost, late or repeated ("CMD_TX gets
\* no retry": exec_idempotent).
SentOnce ==
  \A i \in Ids : opOf[i] \in {"tx", "txat", "phy"} => served[i] <= 1

\* A command the node still holds, and a reply on its way up, belong to the
\* caller that is waiting, or to a request its caller gave up on earlier, or to
\* nobody (id 0).  The reply matching by event type of exec_on, and its drain,
\* rest on this; the diagnostic EVT_PHY_ERR that trails an accepted switch is
\* the one event outside it.
Owned(i) ==
  \/ i = 0 \/ i \in adrift
  \/ \E c \in Callers : pc[c] = "wait" /\ req[c].id = i

RepliesAreOwned ==
  /\ \A i \in Outstanding : Owned(i)
  /\ \A e \in Upward : e.typ # "PHY_ERR" => Owned(e.id)

\* While no deadline has expired and the node has aired and said nothing of its
\* own, no caller has ever taken a reply meant for another request.
CleanLinkAttributes == ~disturbed => adrift = {}

\* An operation that returned Ok on its own reply was executed by the node.
OkWasServed ==
  \A i \in Ids : result[i] = "ok" /\ i \notin adrift => served[i] >= 1

\* "hold this lock, send, and wait for the reply" (CmdPort): on the same link
\* no command reaches a node with no room for it, even a FIFO-less one.
NoOverrun == ~disturbed => ~overrun

\* Nobody is inside an operation and nothing is on its way.
Quiet ==
  /\ \A c \in Callers : pc[c] = "idle"
  /\ toNode = <<>> /\ toHost = <<>> /\ offering = <<>> /\ ring = <<>>
  /\ slot = 0 /\ airing = "none"

\* The stored profile describes the node once the link is quiet.
QuietProfileIsCurrent == Quiet /\ ~disturbed => profile = cap

\* "a caller that is woken by this very CAP already sees the profile it
\* describes" (handle_event): on a link where every reply was in time, the
\* profile is never older than the capability a set_phy_mode will install.
WokenCallerSeesCap ==
  ~disturbed =>
    \A c \in Callers : pc[c] = "install" => profile.ver >= learned[c].ver

\* "capability() and params() reflect the live values" (LoraSerialBackend): the
\* mirror is what the node runs with once the link is quiet.
QuietMirrorIsLive == Quiet /\ ~disturbed => mirror = reg

\* "the frame is in the chip and only SetTx remains" (sched_service): once SetTx
\* has been issued for the scheduled transmission, the chip is sending its frame.
IssuedFrameIsLoaded == airing = "sched" => loaded = slot

----------------------------------------------------------------------------
(* Liveness.                                                               *)

\* Every operation returns to its caller, on a failed port too, and with no
\* deadline to help on a line that loses nothing: the node answers whatever
\* reached it ("NEVER silence (7E-A5 v2 rule)"), the mutex is released on every
\* way out, and knobs give up.
OperationsReturn == \A c \in Callers : pc[c] # "idle" ~> pc[c] = "idle"
=============================================================================
