------------------------------- MODULE RxQueue -------------------------------
(***************************************************************************)
(* RxPumpState (src/rx_pump.rs): the queue of decoded frames that a pump   *)
(* fills and recv_frame drains, and the tokio Notify that wakes the        *)
(* callers.  The two pumps, SyncPump and AsyncPump, are built on it.       *)
(*                                                                         *)
(* The Notify is modelled by its contract: notify_one wakes the caller     *)
(* that has slept longest, or leaves one permit that the next sleeper      *)
(* takes; a woken caller that is cancelled passes the wake on.             *)
(***************************************************************************)
EXTENDS Naturals, FiniteSets, SequencesExt

CONSTANTS
  Frames,      \* the frames the radio hears in one behaviour
  Consumers,   \* the tasks that call recv_frame
  MaxAgg       \* bound: frames the chip packs into one USB transfer

ASSUME MaxAggAssumption == MaxAgg \in Nat \ {0}

VARIABLES
  owner,       \* somebody outside the pump still has the backend
  pumped,      \* is_pumped(): recv_frame waits for the pump
  air,         \* frames not yet in a completed transfer
  pending,     \* decoded frames waiting for recv_frame
  permit,      \* the stored permit of the Notify
  waiters,     \* consumers asleep on it, longest first
  cons,        \* where each consumer is in recv
  got          \* what each consumer has received

queueVars == <<owner, pumped, air, pending, permit, waiters, cons, got>>

QueueInit ==
  /\ owner = TRUE /\ pumped = FALSE
  /\ air = Frames /\ pending = <<>>
  /\ permit = FALSE /\ waiters = <<>>
  /\ cons = [c \in Consumers |-> "idle"]
  /\ got = [c \in Consumers |-> {}]

\* What one transfer may bring: any frames of the air in any order, or none
\* that survives the parse.
Batches == {b \in UNION {[1 .. n -> air] : n \in 0 .. MaxAgg} : IsInjective(b)}

----------------------------------------------------------------------------
(* The producer's side: push() under the lock, then notify_one.            *)

Enqueue(frames) == pending' = pending \o frames

NotifyOne ==
  IF waiters = <<>>
    THEN permit' = TRUE /\ UNCHANGED <<waiters, cons>>
    ELSE /\ waiters' = Tail(waiters)
         /\ cons' = [cons EXCEPT ![Head(waiters)] = "notified"]
         /\ UNCHANGED permit

----------------------------------------------------------------------------
(* The consumer's side: recv().                                            *)

\* Outside recv: before a call, after it returned a frame, or having given it up.
Away == {"idle", "gone"}

\* recv_frame of a pumped backend.
Recv(c) ==
  /\ cons[c] \in Away /\ owner /\ pumped
  /\ cons' = [cons EXCEPT ![c] = "poll"]
  /\ UNCHANGED <<owner, pumped, air, pending, permit, waiters, got>>

\* Mutant of TryPop: the frame is read and left in the queue.
TryPopPeek(c) ==
  /\ cons[c] = "poll"
  /\ IF pending # <<>>
       THEN /\ got' = [got EXCEPT ![c] = @ \cup {Head(pending)}]
            /\ cons' = [cons EXCEPT ![c] = "idle"]
       ELSE cons' = [cons EXCEPT ![c] = "await"] /\ UNCHANGED got
  /\ UNCHANGED <<owner, pumped, air, pending, permit, waiters>>
TryPop(c) ==
  /\ cons[c] = "poll"
  /\ IF pending # <<>>
       THEN /\ got' = [got EXCEPT ![c] = @ \cup {Head(pending)}]
            /\ pending' = Tail(pending)
            /\ cons' = [cons EXCEPT ![c] = "idle"]
       ELSE cons' = [cons EXCEPT ![c] = "await"] /\ UNCHANGED <<pending, got>>
  /\ UNCHANGED <<owner, pumped, air, permit, waiters>>

\* Mutant of Await: the stored permit is not looked at.
AwaitAlways(c) ==
  /\ cons[c] = "await"
  /\ waiters' = Append(waiters, c)
  /\ cons' = [cons EXCEPT ![c] = "asleep"]
  /\ UNCHANGED <<owner, pumped, air, pending, permit, got>>
\* The first poll of the Notified: take the permit, or go to sleep.
Await(c) ==
  /\ cons[c] = "await"
  /\ IF permit
       THEN permit' = FALSE /\ cons' = [cons EXCEPT ![c] = "poll"] /\ UNCHANGED waiters
       ELSE /\ waiters' = Append(waiters, c)
            /\ cons' = [cons EXCEPT ![c] = "asleep"]
            /\ UNCHANGED permit
  /\ UNCHANGED <<owner, pumped, air, pending, got>>

Woken(c) ==
  /\ cons[c] = "notified"
  /\ cons' = [cons EXCEPT ![c] = "poll"]
  /\ UNCHANGED <<owner, pumped, air, pending, permit, waiters, got>>

\* Mutant of Leave: the wake of a caller that was picked goes with it.
LeaveSilently(c, to) ==
  /\ cons[c] \in {"asleep", "notified"}
  /\ waiters' = SelectSeq(waiters, LAMBDA d : d # c)
  /\ cons' = [cons EXCEPT ![c] = to]
  /\ UNCHANGED <<owner, pumped, air, pending, permit, got>>
\* The Notified is dropped before it resolved: out of the wait list, or, when a
\* notify_one has just picked it, the wake goes to the next.
Leave(c, to) ==
  \/ /\ cons[c] = "asleep"
     /\ \E i \in DOMAIN waiters :
          waiters[i] = c /\ waiters' = RemoveAt(waiters, i)
     /\ cons' = [cons EXCEPT ![c] = to]
     /\ UNCHANGED <<owner, pumped, air, pending, permit, got>>
  \/ /\ cons[c] = "notified"
     /\ IF waiters = <<>>
          THEN permit' = TRUE /\ cons' = [cons EXCEPT ![c] = to] /\ UNCHANGED waiters
          ELSE /\ waiters' = Tail(waiters)
               /\ cons' = [cons EXCEPT ![c] = to, ![Head(waiters)] = "notified"]
               /\ UNCHANGED permit
     /\ UNCHANGED <<owner, pumped, air, pending, got>>

\* The 200 ms of recv, after which it looks again ...
WaitExpires(c) == Leave(c, "poll")
\* ... and a caller that gives up the future at its only await point.
Cancel(c) == Leave(c, "gone")

\* The last Arc outside the pump is dropped; no call borrows the backend then.
DropOwner ==
  /\ owner /\ \A c \in Consumers : cons[c] \in Away
  /\ owner' = FALSE
  /\ UNCHANGED <<pumped, air, pending, permit, waiters, cons, got>>

Receive(c) == Recv(c) \/ TryPop(c) \/ Await(c) \/ Woken(c)

QueueStep == \E c \in Consumers : Receive(c) \/ WaitExpires(c) \/ Cancel(c)

----------------------------------------------------------------------------
QueueTypeOK ==
  /\ owner \in BOOLEAN /\ pumped \in BOOLEAN /\ permit \in BOOLEAN
  /\ air \subseteq Frames
  /\ pending \in Seq(Frames)
  /\ waiters \in Seq(Consumers)
  /\ cons \in [Consumers -> {"idle", "gone", "poll", "await", "asleep", "notified"}]
  /\ got \in [Consumers -> SUBSET Frames]

\* No wake is lost: nobody sleeps beside a decoded frame that waits, with all the
\* others asleep too or gone, unless the notify_one of some push is still to come.
\* (A caller that gave up after it was woken has passed the wake on.  One that
\* returned with a frame may owe a second one of the same push to its next call.)
NoLostWake(notifying) ==
  /\ pending # <<>>
  /\ \E c \in Consumers : cons[c] = "asleep"
  /\ \A c \in Consumers : cons[c] \in {"asleep", "gone"}
  => notifying
=============================================================================
