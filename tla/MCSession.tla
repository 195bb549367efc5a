----------------------------- MODULE MCSession -----------------------------
(* Two devices, each with a command interface that is not POST: one lists  *)
(* it after the POST interface, whose port must not be replaced by its     *)
(* own, the other one before it, whose path is the later one.              *)
EXTENDS Session

CONSTANTS a, b

MCInterfaces ==
  [d \in Devices |-> IF d = a THEN <<TRUE, FALSE>> ELSE <<FALSE, TRUE>>]
=============================================================================
