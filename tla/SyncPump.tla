------------------------------- MODULE SyncPump -------------------------------
(***************************************************************************)
(* spawn_rx_pump (src/rx_pump.rs): reader threads that each block in a     *)
(* bulk-IN read, parse what it brought into the queue of RxQueue, and read *)
(* again, until the backend is gone, the device is gone, or the endpoint   *)
(* has failed too often in a row.                                          *)
(*                                                                         *)
(* The threads hold a Weak reference and upgrade it for one turn of their  *)
(* loop, so the backend lives while its owner or any such turn does.       *)
(***************************************************************************)
EXTENDS RxQueue

CONSTANTS
  Readers,        \* the reader threads, depth of them
  MAX_CONSEC,     \* consecutive errors a reader survives (500 in the code)
  MaxErrors,      \* bound: transfers that fail in one behaviour
  MayUnplug       \* whether the device may go away in this instance

ASSUME ErrorsAssumption ==
  MAX_CONSEC \in Nat /\ MaxErrors \in Nat /\ MayUnplug \in BOOLEAN

VARIABLES
  reader,     \* where each thread is in its loop
  buf,        \* the frames each one parsed and has not pushed
  consec,     \* its consecutive errors
  rx_errors,  \* failed transfers, all threads together
  device      \* the device is still on the bus

pumpVars == <<reader, buf, consec, rx_errors, device>>
vars == <<queueVars, pumpVars>>

Init ==
  /\ QueueInit
  /\ reader = [r \in Readers |-> "none"]
  /\ buf = [r \in Readers |-> <<>>]
  /\ consec = [r \in Readers |-> 0]
  /\ rx_errors = 0 /\ device = TRUE

\* spawn_rx_pump: the flag first, then the threads.
Spawn ==
  /\ owner /\ ~pumped
  /\ pumped' = TRUE
  /\ reader' = [r \in Readers |-> "top"]
  /\ UNCHANGED <<owner, air, pending, permit, waiters, cons, got, buf, consec, rx_errors,
                 device>>

\* The turns that hold a strong reference, from the upgrade to the loop's end.
Holding == {"read", "push", "notify"}
Alive == owner \/ \E r \in Readers : reader[r] \in Holding

Upgrade(r) ==
  /\ reader[r] = "top"
  /\ reader' = [reader EXCEPT ![r] = IF Alive THEN "read" ELSE "exited"]
  /\ UNCHANGED <<queueVars, buf, consec, rx_errors, device>>

\* read_bulk, by outcome: frames, ...
ReadFrames(r) ==
  /\ reader[r] = "read" /\ device /\ air # {}
  /\ \E b \in Batches :
       /\ buf' = [buf EXCEPT ![r] = b]
       /\ air' = air \ Range(b)
  /\ consec' = [consec EXCEPT ![r] = 0]
  /\ reader' = [reader EXCEPT ![r] = "push"]
  /\ UNCHANGED <<owner, pumped, pending, permit, waiters, cons, got, rx_errors, device>>

\* ... nothing within 200 ms, ...
ReadTimesOut(r) ==
  /\ reader[r] = "read" /\ device
  /\ consec' = [consec EXCEPT ![r] = 0]
  /\ reader' = [reader EXCEPT ![r] = "top"]
  /\ UNCHANGED <<queueVars, buf, rx_errors, device>>

\* ... a stall or another error, survived MAX_CONSEC times in a row, ...
ReadFails(r) ==
  /\ reader[r] = "read" /\ device /\ rx_errors < MaxErrors
  /\ rx_errors' = rx_errors + 1
  /\ consec' = [consec EXCEPT ![r] = @ + 1]
  /\ reader' = [reader EXCEPT ![r] = IF consec[r] + 1 > MAX_CONSEC THEN "exited" ELSE "top"]
  /\ UNCHANGED <<queueVars, buf, device>>

\* ... or no device any more.
ReadFindsNoDevice(r) ==
  /\ reader[r] = "read" /\ ~device
  /\ reader' = [reader EXCEPT ![r] = "exited"]
  /\ UNCHANGED <<queueVars, buf, consec, rx_errors, device>>

\* Mutant of Push: the frames are put there twice.
PushTwice(r) ==
  /\ reader[r] = "push"
  /\ Enqueue(buf[r] \o buf[r])
  /\ buf' = [buf EXCEPT ![r] = <<>>]
  /\ reader' = [reader EXCEPT ![r] = "notify"]
  /\ UNCHANGED <<owner, pumped, air, permit, waiters, cons, got, consec, rx_errors, device>>
Push(r) ==
  /\ reader[r] = "push"
  /\ Enqueue(buf[r])
  /\ buf' = [buf EXCEPT ![r] = <<>>]
  /\ reader' = [reader EXCEPT ![r] = "notify"]
  /\ UNCHANGED <<owner, pumped, air, permit, waiters, cons, got, consec, rx_errors, device>>

\* Mutant of Notify: nobody is woken.
NotifyNobody(r) ==
  /\ reader[r] = "notify"
  /\ reader' = [reader EXCEPT ![r] = "top"]
  /\ UNCHANGED <<queueVars, buf, consec, rx_errors, device>>
Notify(r) ==
  /\ reader[r] = "notify"
  /\ NotifyOne
  /\ reader' = [reader EXCEPT ![r] = "top"]
  /\ UNCHANGED <<owner, pumped, air, pending, got, buf, consec, rx_errors, device>>

Unplug ==
  /\ MayUnplug /\ device
  /\ device' = FALSE
  /\ UNCHANGED <<queueVars, reader, buf, consec, rx_errors>>

ReaderStep(r) ==
  \/ Upgrade(r) \/ ReadFrames(r) \/ ReadTimesOut(r) \/ ReadFails(r)
  \/ ReadFindsNoDevice(r) \/ Push(r) \/ Notify(r)

Next ==
  \/ (QueueStep \/ DropOwner) /\ UNCHANGED pumpVars
  \/ Spawn \/ Unplug
  \/ \E r \in Readers : ReaderStep(r)

Spec == Init /\ [][Next]_vars

\* The operating system runs every reader thread, the runtime every woken
\* task, and a task that uses recv_frame calls it again, also after it gave up.  The
\* 200 ms re-poll of recv is left out on purpose.
FairSpec ==
  /\ Spec
  /\ \A r \in Readers : WF_vars(ReaderStep(r))
  /\ \A c \in Consumers : WF_vars(Receive(c) /\ UNCHANGED pumpVars)

----------------------------------------------------------------------------
\* The state of spawn_rx_pump keeps its types, and no reader counts more
\* consecutive errors than it gives up after.
TypeOK ==
  /\ QueueTypeOK
  /\ reader \in [Readers -> {"none", "top", "read", "push", "notify", "exited"}]
  /\ buf \in [Readers -> Seq(Frames)]
  /\ consec \in [Readers -> 0 .. MAX_CONSEC + 1]
  /\ rx_errors \in Nat /\ device \in BOOLEAN

\* Frames in the driver: parsed and not pushed, or pushed and not received.
held == Range(pending) \cup UNION {Range(buf[r]) : r \in Readers}

Service == INSTANCE FrameService WITH Frames <- Frames, Consumers <- Consumers,
                                     air <- air, held <- held, got <- got
\* recv_frame hands out each received frame once, whatever threads race.
ImplementsService == Service!Spec

\* push() and recv(): "wake one waiting recv".
NoFrameSleeps == NoLostWake(\E r \in Readers : reader[r] = "notify")

\* "The threads hold a Weak ref, so they exit when the backend is dropped."
ReadersExit == ~owner /\ pumped ~> \A r \in Readers : reader[r] = "exited"

\* A frame that reached the driver is handed to a caller, as long as one keeps
\* calling and the backend has its owner; the re-poll of recv is not needed.
HeldIsDelivered == \A f \in Frames : f \in held /\ owner ~> f \notin held \/ ~owner
=============================================================================
