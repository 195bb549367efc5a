------------------------------- MODULE MCRamp -------------------------------
(* The instance of DeltaTime whose signal is checked by the ramp program. *)
EXTENDS Ramp, MCDeltaTime
=============================================================================
