----------------------------- MODULE FrameService -----------------------------
(***************************************************************************)
(* What recv_frame promises of a USB radio, whatever pump is behind it:    *)
(* a frame the radio delivered is in the driver, and then handed to one    *)
(* caller at most, or lost; nothing is handed out that was not received.   *)
(***************************************************************************)
CONSTANTS
  Frames,     \* the frames the radio hears in one behaviour
  Consumers   \* the tasks that call recv_frame

VARIABLES
  air,        \* frames the radio has not yet put into a USB transfer
  held,       \* frames somewhere in the driver
  got         \* frames each consumer has received

vars == <<air, held, got>>

Init ==
  /\ air = Frames /\ held = {}
  /\ got = [c \in Consumers |-> {}]

\* A USB transfer completes with some frames, or the driver discards some.
Capture ==
  \E S \in SUBSET air :
    air' = air \ S /\ held' = held \cup S /\ UNCHANGED got
Lose ==
  \E S \in SUBSET held :
    held' = held \ S /\ UNCHANGED <<air, got>>
Deliver ==
  \E c \in Consumers, f \in held :
    /\ held' = held \ {f}
    /\ got' = [got EXCEPT ![c] = @ \cup {f}]
    /\ UNCHANGED air

Next == Capture \/ Lose \/ Deliver

Spec == Init /\ [][Next]_vars

\* No two callers of recv_frame are given the same frame.
OneOwner ==
  \A c, d \in Consumers : got[c] \cap got[d] # {} => c = d
=============================================================================
