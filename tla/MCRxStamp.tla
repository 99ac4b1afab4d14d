----------------------------- MODULE MCRxStamp ------------------------------
(* The instance of RxStamp for TLC. *)
EXTENDS RxStamp
=============================================================================
