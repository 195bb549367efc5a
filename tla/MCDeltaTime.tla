---------------------------- MODULE MCDeltaTime ----------------------------
(* Small instances of DeltaTime: words of 8 values, stamps that are zero,  *)
(* in the middle of a second, and about to overflow.                       *)
EXTENDS DeltaTime

MCStamps == {0, 13, 62}

(* Deltas with and without sub fractions that collect to an overflow, one  *)
(* that overflows the time stamp soon, one that throws.                    *)
MCRates == {[samples |-> s, ntp |-> d, sub |-> f] :
              s \in {0, 1, 3}, d \in {5, 40}, f \in {0, 7}}
=============================================================================
