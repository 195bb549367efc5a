----------------------------- MODULE DeltaTime -----------------------------
(***************************************************************************)
(* The time of a synchronous signal (pattern V): deltaTimeInfo and the     *)
(* timeInfo inside it.  A time is an NTP time stamp of two words, seconds  *)
(* and fraction, to which the delta is added for every value; a third word *)
(* collects sub fractions.  W is the number of values of a word: 2^32 in   *)
(* the code, whose uint64_t counts modulo W * W.                           *)
(***************************************************************************)
EXTENDS Integers

CONSTANTS
  W,          \* 2^32: a word
  MaxCount,   \* values in one increment; m_valueBufferMaxValues in the code
  Stamps,     \* NTP time stamps sent with "time"
  Eras,       \* eras sent with "time"
  Rates,      \* samples and delta sent with "signalRate"
  MaxSamples  \* bound: values counted since the history began

ASSUME WordAssumption ==
  /\ W \in Nat \ {0} /\ MaxCount \in Nat /\ MaxSamples \in Nat
  /\ W + 2 * W * MaxCount <= W * W
  /\ Stamps \subseteq 0 .. W * W - 1 /\ Eras \subseteq 0 .. W - 1
  /\ Rates \subseteq
       [samples : 0 .. W - 1, ntp : 0 .. W * W - 1, sub : 0 .. W - 1]

VARIABLES
  m_era, m_ntpTimestamp,               \* timeInfo m_time
  m_deltaNtpTimestamp, m_deltaSubFraction, m_deltaSubFractionCollected,
  start,   \* history: time the accumulation began with
  exact,   \* history: sub fractions the increments stand for, not truncated
  wraps,   \* history: overflows of m_ntpTimestamp
  rate, n  \* history: the rate in force, increments by it from start

timeVars  == <<m_era, m_ntpTimestamp>>
deltaVars == <<m_deltaNtpTimestamp, m_deltaSubFraction>>
vars == <<timeVars, deltaVars, m_deltaSubFractionCollected, start, exact,
          wraps, rate, n>>

NoRate == [samples |-> 1, ntp |-> 0, sub |-> 0]

TypeOK ==
  /\ m_era \in 0 .. W - 1 /\ m_ntpTimestamp \in 0 .. W * W - 1
  /\ m_deltaNtpTimestamp \in 0 .. W * W - 1
  /\ m_deltaSubFraction \in 0 .. 2 * W
  /\ m_deltaSubFractionCollected \in 0 .. W - 1
  /\ start \in Nat /\ exact \in Nat /\ wraps \in Nat /\ n \in Nat
  /\ rate \in [samples : 1 .. W, ntp : 0 .. W * W - 1, sub : 0 .. W - 1]

Init ==
  /\ m_era = 0 /\ m_ntpTimestamp = 0
  /\ m_deltaNtpTimestamp = 0 /\ m_deltaSubFraction = 0
  /\ m_deltaSubFractionCollected = 0
  /\ start = 0 /\ exact = 0 /\ wraps = 0 /\ rate = NoRate /\ n = 0

(* The history begins anew at time t, with sub fractions c collected. *)
Restarted(t, c) ==
  /\ start' = t * W + c /\ exact' = 0 /\ wraps' = 0 /\ n' = 0

-----------------------------------------------------------------------------
(* Mutant of Carried: the overflow of the sub fractions is lost. *)
NotCarried(collected) == 0

(* Mutant of Kept: the carried part is not masked out. *)
NotMasked(collected) == collected

(* What the collected sub fractions overflow, and what stays collected.    *)
Carried(collected) == collected \div W
Kept(collected)    == collected % W

(* increment(count): both words of the time, plus what the collected sub   *)
(* fractions overflow.                                                     *)
Increment(count) ==
  /\ n + count <= MaxSamples
  /\ LET collected ==
           (m_deltaSubFractionCollected + m_deltaSubFraction * count) % (W * W)
         sum == m_ntpTimestamp + m_deltaNtpTimestamp * count + Carried(collected)
     IN /\ m_deltaSubFractionCollected' = Kept(collected)
        /\ m_ntpTimestamp' = sum % (W * W)
        /\ wraps' = wraps + sum \div (W * W)
  /\ exact' = exact + count * (m_deltaNtpTimestamp * W + m_deltaSubFraction)
  /\ n' = n + count
  /\ UNCHANGED <<m_era, deltaVars, start, rate>>

(* setTime() with a stamp of type "ntp". *)
SetTime(era, stamp) ==
  /\ m_deltaSubFractionCollected' = 0
  /\ m_era' = era /\ m_ntpTimestamp' = stamp
  /\ Restarted(stamp, 0)
  /\ UNCHANGED <<deltaVars, rate>>

(* setTime() with anything else: the correction is cleared all the same. *)
SetTimeUnknown ==
  /\ m_deltaSubFractionCollected' = 0
  /\ Restarted(m_ntpTimestamp, 0)
  /\ UNCHANGED <<timeVars, deltaVars, rate>>

(* The sub fraction of a delta per sample.  The remainder is taken of the  *)
(* quotient.                                                               *)
SubFractionOf(r) ==
  LET remainder == (r.ntp \div r.samples) % r.samples IN
  r.sub \div r.samples + (remainder * W) \div r.samples

(* setDelta(); samples = 0 throws before anything is changed. *)
SetDelta(r) ==
  /\ r.samples > 0
  /\ m_deltaNtpTimestamp' = r.ntp \div r.samples
  /\ m_deltaSubFraction' = SubFractionOf(r)
  /\ rate' = r
  /\ Restarted(m_ntpTimestamp, m_deltaSubFractionCollected)
  /\ UNCHANGED <<timeVars, m_deltaSubFractionCollected>>

(* clear(): the era stays. *)
Clear ==
  /\ m_deltaNtpTimestamp' = 0 /\ m_deltaSubFraction' = 0
  /\ m_deltaSubFractionCollected' = 0
  /\ m_ntpTimestamp' = 0
  /\ rate' = NoRate /\ Restarted(0, 0)
  /\ UNCHANGED m_era

(* A signal that is subscribed anew has an object of its own. *)
Construct ==
  /\ m_deltaNtpTimestamp' = 0 /\ m_deltaSubFraction' = 0
  /\ m_deltaSubFractionCollected' = 0
  /\ m_era' = 0 /\ m_ntpTimestamp' = 0
  /\ rate' = NoRate /\ Restarted(0, 0)

Next ==
  \/ \E count \in 0 .. MaxCount : Increment(count)
  \/ \E era \in Eras, stamp \in Stamps : SetTime(era, stamp)
  \/ SetTimeUnknown
  \/ \E r \in Rates : SetDelta(r)
  \/ Clear \/ Construct

Spec == Init /\ [][Next]_vars

-----------------------------------------------------------------------------
(* Properties                                                              *)

(* No sub fraction is lost or added by the increments, in whatever batches *)
(* the values come: time and collected sub fractions are what start and    *)
(* the deltas add up to, modulo the overflows of the time stamp.           *)
Accumulated == m_ntpTimestamp * W + m_deltaSubFractionCollected

NoDrift == Accumulated + wraps * W * W * W = start + exact

(* deltatimeinfo.cpp on the division by samples: "we are loosing precision *)
(* here. In order to compensate this, we calculate a correction to use.":  *)
(* an increment is short of the rate by less than two sub fractions, what  *)
(* two divisions that truncate can lose, and never beyond it.              *)
RateKept ==
  LET due == n * (rate.ntp * W + rate.sub) IN
  exact * rate.samples \in due - 2 * n * rate.samples .. due
=============================================================================
