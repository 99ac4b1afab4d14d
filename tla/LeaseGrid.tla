----------------------------- MODULE LeaseGrid -----------------------------
(***************************************************************************)
(* The airtime lease's geometry (lease.rs): a name owns one slot of every  *)
(* superframe, the last `guard` microseconds of a slot are its trailing    *)
(* guard.  Pure arithmetic on times, hashes and lengths; the wrap of a u64 *)
(* microsecond count is left out.                                          *)
(***************************************************************************)
EXTENDS Integers

Geometries == [slot: Nat, slots: Nat, guard: Nat]

\* MIN_GUARD_US.
MinGuard == 1000

\* for_measurement accepts every geometry in which a slot has a usable window.
ForMeasurement(g) == g.slots >= 2 /\ g.guard < g.slot

\* new_for_frame also wants room for one frame and the guard that contains its
\* placement error.
NewForFrame(g, cost) ==
  /\ ForMeasurement(g)
  /\ g.guard >= MinGuard
  /\ g.slot >= g.guard + cost /\ g.slot >= g.guard + 1

Grids == {g \in Geometries : ForMeasurement(g)}

Superframe(g) == g.slot * g.slots
Usable(g) == g.slot - g.guard

OwnerSlot(g, hash) == hash % g.slots
Epoch(g, t) == t \div g.slot
CurrentSlot(g, t) == Epoch(g, t) % g.slots
SlotStart(g, t) == Epoch(g, t) * g.slot
Phase(g, t) == t % g.slot

OwnsNow(g, hash, t) == OwnerSlot(g, hash) = CurrentSlot(g, t)

\* inside_lease: in an owned slot and before its guard.
InsideLease(g, hash, t) == OwnsNow(g, hash, t) /\ Phase(g, t) < Usable(g)

\* fits_at: a frame launched at t is over before the guard.
FitsAt(g, hash, t, airtime) ==
  InsideLease(g, hash, t) /\ Phase(g, t) + airtime <= Usable(g)

\* ends_inside_slot: only the slot itself contains the frame, not the guard.
EndsInsideSlot(g, hash, t, airtime) ==
  OwnsNow(g, hash, t) /\ Phase(g, t) + airtime <= g.slot

\* Slots from the one of this epoch to the owner's next one.
Ahead(g, hash, epoch) == (OwnerSlot(g, hash) + g.slots - (epoch % g.slots)) % g.slots

\* wait_us.
Wait(g, hash, t) ==
  IF OwnsNow(g, hash, t) THEN 0
  ELSE (Epoch(g, t) + Ahead(g, hash, Epoch(g, t))) * g.slot - t

\* next_slot_start_us: rounded up to a boundary first.
NextSlotStart(g, hash, notBefore) ==
  LET next == Epoch(g, notBefore) + 1
  IN  (next + Ahead(g, hash, next)) * g.slot

\* following_slot_start_us.
FollowingSlotStart(g, start) == start + Superframe(g)
=============================================================================
