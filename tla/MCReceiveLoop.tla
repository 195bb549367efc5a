--------------------------- MODULE MCReceiveLoop ---------------------------
(* Small instances of ReceiveLoop.  A buffer of 6 bytes and 2 values per   *)
(* call stand for 8192 and 128: values of V divide the buffer, a tuple of  *)
(* TV does not, so that the rest of a chunk is moved to the front.         *)
EXTENDS ReceiveLoop, TLC

V  == [pattern |-> "V",  value |-> 2, time |-> 0]
TV == [pattern |-> "TV", value |-> 2, time |-> 2]
TB == [pattern |-> "TB", value |-> 1, time |-> 2]

MCFormats == {V, TV, TB}

(* One call's worth of values with V and TB, several chunks with TV. *)
MCSizes == V :> {0, 2, 4} @@ TV :> {0, 5, 8, 12} @@ TB :> {3, 4}

(* Values of pattern V that exceed one call of processMeasuredData. *)
LongFormats == {V}
LongSizes == V :> {4, 6, 8}
=============================================================================
