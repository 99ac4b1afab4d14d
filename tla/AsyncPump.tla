------------------------------ MODULE AsyncPump ------------------------------
(***************************************************************************)
(* spawn_rx_pump_async (src/rx_pump.rs): a pool of bulk-IN transfers that  *)
(* their completion callback resubmits, a bounded queue of raw buffers,    *)
(* parse threads that drain it into the queue of RxQueue, and one event    *)
(* thread that runs until no transfer is left.                             *)
(*                                                                         *)
(* libusb runs one callback at a time, on the event thread or on any       *)
(* thread that is inside a synchronous transfer of the same context, so    *)
(* callbacks may run while the transfers are still being submitted.        *)
(***************************************************************************)
EXTENDS RxQueue, Integers

CONSTANTS
  Xfers,          \* the transfers of the pool, depth of them
  Parsers,        \* the parse threads
  RawCap,         \* buffers the raw queue takes (2048 in the code)
  MayUnplug       \* whether the device may go away in this instance

ASSUME AsyncAssumption ==
  /\ RawCap \in Nat \ {0} /\ MayUnplug \in BOOLEAN
  /\ IsFiniteSet(Xfers) /\ Parsers # {}

VARIABLES
  xfer,       \* each transfer: unsubmitted, flight, done, or freed
  data,       \* the frames a done transfer holds
  counted,    \* transfers the spawning thread has added to inflight
  inflight,   \* the counter the event thread watches
  cb,         \* the callback that runs: [at, t, buf], or idle
  raw,        \* buffers awaiting parse
  parser,     \* where each parse thread is
  buf,        \* the buffer it took, then the frames it decoded
  events,     \* the event thread: none, runs, exited
  device      \* the device is still on the bus

pumpVars == <<xfer, data, counted, inflight, cb, raw, parser, buf, events, device>>
vars == <<queueVars, pumpVars>>

NoCb == [at |-> "idle"]

Init ==
  /\ QueueInit
  /\ xfer = [t \in Xfers |-> "unsubmitted"]
  /\ data = [t \in Xfers |-> <<>>]
  /\ counted = {} /\ inflight = 0 /\ cb = NoCb
  /\ raw = <<>>
  /\ parser = [p \in Parsers |-> "none"]
  /\ buf = [p \in Parsers |-> <<>>]
  /\ events = "none" /\ device = TRUE

\* The parse threads upgrade their Weak for one buffer; a transfer only asks
\* whether anybody holds the backend.
Holding == {"push", "notify"}
Alive == owner \/ \E p \in Parsers : parser[p] \in Holding

----------------------------------------------------------------------------
(* The spawning thread, whose caller holds the backend.                    *)

Spawn ==
  /\ owner /\ ~pumped
  /\ pumped' = TRUE
  /\ parser' = [p \in Parsers |-> "lock"]
  /\ UNCHANGED <<owner, air, pending, permit, waiters, cons, got, xfer, data, counted,
                 inflight, cb, raw, buf, events, device>>

\* libusb_submit_transfer, and after it the count; a transfer that cannot be
\* allocated or submitted is freed and not counted.
Submit(t) ==
  /\ owner /\ pumped /\ events = "none" /\ xfer[t] = "unsubmitted"
  /\ \A u \in Xfers : xfer[u] # "unsubmitted" => u \in counted
  /\ \/ device /\ xfer' = [xfer EXCEPT ![t] = "flight"] /\ UNCHANGED counted
     \/ xfer' = [xfer EXCEPT ![t] = "freed"] /\ counted' = counted \cup {t}
  /\ UNCHANGED <<queueVars, data, inflight, cb, raw, parser, buf, events, device>>

Count(t) ==
  /\ xfer[t] # "unsubmitted" /\ t \notin counted
  /\ inflight' = inflight + 1
  /\ counted' = counted \cup {t}
  /\ UNCHANGED <<queueVars, xfer, data, cb, raw, parser, buf, events, device>>

\* Mutant of StartEvents: the event thread is started before the loop.
StartEventsFirst ==
  /\ owner /\ pumped /\ events = "none"
  /\ events' = "runs"
  /\ UNCHANGED <<queueVars, xfer, data, counted, inflight, cb, raw, parser, buf, device>>
StartEvents ==
  /\ owner /\ pumped /\ events = "none" /\ counted = Xfers
  /\ events' = "runs"
  /\ UNCHANGED <<queueVars, xfer, data, counted, inflight, cb, raw, parser, buf, device>>

\* The spawning call borrows the backend until it returns.
DropBackend ==
  /\ DropOwner /\ (pumped => events # "none")
  /\ UNCHANGED pumpVars

----------------------------------------------------------------------------
(* The transfers, their callback and the event thread.                     *)

\* A transfer has no timeout of its own: it completes with frames, or when the
\* device goes away.
Complete(t) ==
  /\ xfer[t] = "flight"
  /\ \/ /\ device /\ air # {}
        /\ \E b \in Batches :
             data' = [data EXCEPT ![t] = b] /\ air' = air \ Range(b)
     \/ /\ ~device
        /\ UNCHANGED <<data, air>>
  /\ xfer' = [xfer EXCEPT ![t] = "done"]
  /\ UNCHANGED <<owner, pumped, pending, permit, waiters, cons, got, counted, inflight, cb,
                 raw, parser, buf, events, device>>

\* async_xfer_cb asks first whether the backend is there ...
CbStarts(t) ==
  /\ cb = NoCb /\ xfer[t] = "done"
  /\ cb' = [at |-> IF ~Alive THEN "free"
                   ELSE IF data[t] # <<>> THEN "store" ELSE "resubmit", t |-> t]
  /\ UNCHANGED <<queueVars, xfer, data, counted, inflight, raw, parser, buf, events, device>>

\* Mutants of CbStores: a transfer whose buffer is dropped is freed; no notify.
CbStoresOrFrees ==
  /\ cb.at = "store"
  /\ IF Len(raw) < RawCap
       THEN raw' = Append(raw, data[cb.t]) /\ cb' = [cb EXCEPT !.at = "notify"]
       ELSE UNCHANGED raw /\ cb' = [cb EXCEPT !.at = "free"]
  /\ data' = [data EXCEPT ![cb.t] = <<>>]
  /\ UNCHANGED <<queueVars, xfer, counted, inflight, parser, buf, events, device>>
CbStoresSilently ==
  /\ cb.at = "store"
  /\ raw' = IF Len(raw) < RawCap THEN Append(raw, data[cb.t]) ELSE raw
  /\ cb' = [cb EXCEPT !.at = "resubmit"]
  /\ data' = [data EXCEPT ![cb.t] = <<>>]
  /\ UNCHANGED <<queueVars, xfer, counted, inflight, parser, buf, events, device>>
\* ... stores the buffer while the raw queue has room, and drops it otherwise, ...
CbStores ==
  /\ cb.at = "store"
  /\ IF Len(raw) < RawCap
       THEN raw' = Append(raw, data[cb.t]) /\ cb' = [cb EXCEPT !.at = "notify"]
       ELSE UNCHANGED raw /\ cb' = [cb EXCEPT !.at = "resubmit"]
  /\ data' = [data EXCEPT ![cb.t] = <<>>]
  /\ UNCHANGED <<queueVars, xfer, counted, inflight, parser, buf, events, device>>

\* ... wakes a parse thread, ...
CbNotifies ==
  /\ cb.at = "notify"
  /\ IF \E p \in Parsers : parser[p] = "waiting"
       THEN \E p \in Parsers :
              parser[p] = "waiting" /\ parser' = [parser EXCEPT ![p] = "lock"]
       ELSE UNCHANGED parser
  /\ cb' = [cb EXCEPT !.at = "resubmit"]
  /\ UNCHANGED <<queueVars, xfer, data, counted, inflight, raw, buf, events, device>>

\* ... puts the transfer back in flight, ...
CbResubmits ==
  /\ cb.at = "resubmit"
  /\ IF device
       THEN xfer' = [xfer EXCEPT ![cb.t] = "flight"] /\ cb' = NoCb
       ELSE UNCHANGED xfer /\ cb' = [cb EXCEPT !.at = "free"]
  /\ UNCHANGED <<queueVars, data, counted, inflight, raw, parser, buf, events, device>>

\* ... or frees it, when nobody holds the backend or libusb refuses it.  The
\* count is a wrapping usize: below zero it is a large number, until the
\* spawning thread catches up.
CbFrees ==
  /\ cb.at = "free"
  /\ inflight' = inflight - 1
  /\ xfer' = [xfer EXCEPT ![cb.t] = "freed"]
  /\ data' = [data EXCEPT ![cb.t] = <<>>]
  /\ cb' = NoCb
  /\ UNCHANGED <<queueVars, counted, raw, parser, buf, events, device>>

EventsEnd ==
  /\ events = "runs" /\ inflight = 0
  /\ events' = "exited"
  /\ UNCHANGED <<queueVars, xfer, data, counted, inflight, cb, raw, parser, buf, device>>

----------------------------------------------------------------------------
(* The parse threads.                                                      *)

\* Mutant of Take: the buffer stays in the queue.
TakePeek(p) ==
  /\ parser[p] = "lock"
  /\ IF raw = <<>>
       THEN parser' = [parser EXCEPT ![p] = "waiting"] /\ UNCHANGED buf
       ELSE /\ buf' = [buf EXCEPT ![p] = Head(raw)]
            /\ parser' = [parser EXCEPT ![p] = "upgrade"]
  /\ UNCHANGED <<queueVars, xfer, data, counted, inflight, cb, raw, events, device>>
\* Under the lock: wait on the condition variable while there is nothing.
Take(p) ==
  /\ parser[p] = "lock"
  /\ IF raw = <<>>
       THEN parser' = [parser EXCEPT ![p] = "waiting"] /\ UNCHANGED <<raw, buf>>
       ELSE /\ buf' = [buf EXCEPT ![p] = Head(raw)]
            /\ raw' = Tail(raw)
            /\ parser' = [parser EXCEPT ![p] = "upgrade"]
  /\ UNCHANGED <<queueVars, xfer, data, counted, inflight, cb, events, device>>

Upgrade(p) ==
  /\ parser[p] = "upgrade"
  /\ IF Alive
       THEN parser' = [parser EXCEPT ![p] = "push"] /\ UNCHANGED buf
       ELSE /\ parser' = [parser EXCEPT ![p] = "exited"]
            /\ buf' = [buf EXCEPT ![p] = <<>>]
  /\ UNCHANGED <<queueVars, xfer, data, counted, inflight, cb, raw, events, device>>

Push(p) ==
  /\ parser[p] = "push"
  /\ Enqueue(buf[p])
  /\ buf' = [buf EXCEPT ![p] = <<>>]
  /\ parser' = [parser EXCEPT ![p] = "notify"]
  /\ UNCHANGED <<owner, pumped, air, permit, waiters, cons, got, xfer, data, counted,
                 inflight, cb, raw, events, device>>

Notify(p) ==
  /\ parser[p] = "notify"
  /\ NotifyOne
  /\ parser' = [parser EXCEPT ![p] = "lock"]
  /\ UNCHANGED <<owner, pumped, air, pending, got, xfer, data, counted, inflight, cb, raw,
                 buf, events, device>>

Unplug ==
  /\ MayUnplug /\ device
  /\ device' = FALSE
  /\ UNCHANGED <<queueVars, xfer, data, counted, inflight, cb, raw, parser, buf, events>>

----------------------------------------------------------------------------
SpawnStep == Spawn \/ StartEvents \/ \E t \in Xfers : Submit(t) \/ Count(t)

\* While callbacks run: the event thread, or another thread inside libusb.
EventStep ==
  \/ \E t \in Xfers : CbStarts(t)
  \/ CbStores \/ CbNotifies \/ CbResubmits \/ CbFrees \/ EventsEnd

ParserStep(p) == Take(p) \/ Upgrade(p) \/ Push(p) \/ Notify(p)

Next ==
  \/ QueueStep /\ UNCHANGED pumpVars
  \/ DropBackend
  \/ SpawnStep \/ EventStep \/ Unplug
  \/ \E t \in Xfers : Complete(t)
  \/ \E p \in Parsers : ParserStep(p)

Spec == Init /\ [][Next]_vars

\* Every thread runs and a task that uses recv_frame calls it again.  The
\* event thread's steps are owed only while it runs, and it reaps completed
\* transfers in their order, so that none is passed over for ever; nothing is
\* owed to the air or to the 200 ms re-poll of recv.
FairSpec ==
  /\ Spec
  /\ WF_vars(SpawnStep)
  /\ WF_vars(EventStep /\ events = "runs")
  /\ \A t \in Xfers : SF_vars(CbStarts(t) /\ events = "runs")
  /\ \A p \in Parsers : WF_vars(ParserStep(p))
  /\ \A c \in Consumers : WF_vars(Receive(c) /\ UNCHANGED pumpVars)

----------------------------------------------------------------------------
Callbacks ==
  [at : {"idle"}] \cup
  [at : {"store", "notify", "resubmit", "free"}, t : Xfers]

\* The state of spawn_rx_pump_async keeps its types; the raw queue its capacity,
\* and the event thread's counter the bounds of the number of transfers.
TypeOK ==
  /\ QueueTypeOK
  /\ xfer \in [Xfers -> {"unsubmitted", "flight", "done", "freed"}]
  /\ data \in [Xfers -> Seq(Frames)]
  /\ counted \subseteq Xfers
  /\ inflight \in -Cardinality(Xfers) .. Cardinality(Xfers)
  /\ cb \in Callbacks
  /\ raw \in Seq(Seq(Frames)) /\ Len(raw) <= RawCap
  /\ parser \in [Parsers -> {"none", "lock", "waiting", "upgrade", "push", "notify",
                             "exited"}]
  /\ buf \in [Parsers -> Seq(Frames)]
  /\ events \in {"none", "runs", "exited"}
  /\ device \in BOOLEAN

held ==
  Range(pending) \cup (UNION {Range(b) : b \in Range(raw)})
    \cup (UNION {Range(data[t]) : t \in Xfers}) \cup (UNION {Range(buf[p]) : p \in Parsers})

Service == INSTANCE FrameService WITH Frames <- Frames, Consumers <- Consumers,
                                     air <- air, held <- held, got <- got
\* recv_frame hands out each received frame once, through every queue and
\* thread of the pump.
ImplementsService == Service!Spec

Submitted == {t \in Xfers : xfer[t] \in {"flight", "done"}}

\* The event thread watches the number of transfers that exist, although they
\* are counted after they are submitted and freed by whoever runs the callback:
\* it neither leaves one behind nor waits for one that is gone.
InflightIsLive ==
  events # "none" =>
    /\ inflight = Cardinality(Submitted)
    /\ events = "exited" => Submitted = {}

\* "resubmit immediately, so the transfer is back in flight without waiting for
\* parse" (async_xfer_cb): whatever becomes of its buffer, no transfer leaves the
\* pool while the backend has its owner and the device is there.
PoolKeepsDepth == [][owner /\ device => Submitted \subseteq Submitted']_vars

\* push() and recv(): "wake one waiting recv".
NoFrameSleeps == NoLostWake(\E p \in Parsers : parser[p] = "notify")

\* A raw buffer is not left to parse threads that all wait for a notify that
\* has already been given.
NoBufferSleeps ==
  raw # <<>> /\ (\A p \in Parsers : parser[p] = "waiting") => cb.at = "notify"

\* A frame that reached the driver is handed to a caller, or dropped by a full
\* raw queue, as long as one keeps calling and the backend has its owner.
HeldIsDelivered ==
  \A f \in Frames : f \in held /\ owner /\ events = "runs" ~> f \notin held \/ ~owner
=============================================================================
