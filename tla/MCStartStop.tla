---------------------------- MODULE MCStartStop ----------------------------
(* The instance of Session for either kind of program. *)
EXTENDS StartStop, MCSession

CONSTANTS s, t
=============================================================================
