----------------------------- MODULE MCAth9kHtc -----------------------------
(* Instances of Ath9kHtc for TLC. *)
EXTENDS Ath9kHtc, TLC

CONSTANTS control, sampler

TwoThreads == {control, sampler}
KnobsAndClock ==
  control :> {"tune", "power"} @@ sampler :> {"clock"}
OneThread == {control}
KnobsOnly == control :> {"tune"}
TwoAndOne == control :> 2 @@ sampler :> 1
TwoCalls == control :> 2
=============================================================================
