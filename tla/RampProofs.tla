----------------------------- MODULE RampProofs -----------------------------
(***************************************************************************)
(* Proofs about DeltaTime, for every width of the words and every number   *)
(* of values in an increment that lets the collected sub fractions fit     *)
(* into a uint64_t, and about the ramp program, which is composed with it: *)
(* rounding never makes it end.                                            *)
(***************************************************************************)
EXTENDS Ramp, TLAPS

TimeInv == TypeOK /\ NoDrift

-----------------------------------------------------------------------------
(* Arithmetic                                                              *)

LEMMA Quotient ==
  ASSUME NEW a \in Nat, NEW b \in Nat \ {0}
  PROVE  a \div b \in Nat /\ a \div b <= a
BY SMTT(30)

LEMMA Division ==
  ASSUME NEW a \in Nat, NEW b \in Nat \ {0}
  PROVE  a % b \in 0 .. b - 1 /\ a = b * (a \div b) + (a % b)
OBVIOUS

LEMMA QuotientBelow ==
  ASSUME NEW a \in Nat, NEW b \in Nat \ {0}, NEW c \in Nat, a <= c * b
  PROVE  a \div b <= c
BY SMTT(30)

LEMMA Monotonic ==
  ASSUME NEW a \in Nat, NEW b \in Nat, NEW c \in Nat, a <= b
  PROVE  /\ a * c \in Nat /\ b * c \in Nat
         /\ a * c <= b * c /\ c * a <= c * b
         /\ a * c <= c * b
BY SMTT(30)

LEMMA Bookkeeping ==
  ASSUME NEW T \in Nat, NEW D \in Nat, NEW k \in Nat, NEW s \in Nat,
         NEW c \in Nat, NEW q \in Nat, NEW r \in Nat, NEW w \in Nat,
         NEW U \in Nat, NEW P \in Nat, NEW V \in Nat,
         c + s * k = V * q + r,
         T + D * k + q = (V * V) * w + U
  PROVE  U * V + r + (P + w) * V * V * V
           = (T * V + c + P * V * V * V) + k * (D * V + s)
<1>1. (T + D * k + q) * V = ((V * V) * w + U) * V
  OBVIOUS
<1>2. T * V + D * k * V + q * V = V * V * w * V + U * V
  BY <1>1, SMTT(30)
<1>3. (P + w) * V * V * V = P * V * V * V + V * V * w * V
  BY SMTT(30)
<1>4. k * (D * V + s) = D * k * V + s * k
  BY SMTT(30)
<1> QED BY <1>2, <1>3, <1>4, SMTT(30)

LEMMA WordFacts ==
  /\ W \in Nat \ {0} /\ MaxCount \in Nat
  /\ W * W \in Nat \ {0} /\ W <= W * W
  /\ W + 2 * W * MaxCount <= W * W
<1>1. W \in Nat \ {0} /\ MaxCount \in Nat /\ W + 2 * W * MaxCount <= W * W
  BY WordAssumption
<1>2. W * W \in Nat \ {0} /\ W <= W * W
  BY <1>1, SMTT(30)
<1> QED BY <1>1, <1>2

-----------------------------------------------------------------------------
LEMMA InitInv == Init => TimeInv
<1> SUFFICES ASSUME Init PROVE TimeInv
  OBVIOUS
<1>1. TypeOK
  BY WordFacts DEF Init, TypeOK, NoRate
<1>2. NoDrift
  BY WordFacts, SMTT(30) DEF Init, NoDrift, Accumulated
<1> QED BY <1>1, <1>2 DEF TimeInv

(* The collected sub fractions fit, so that none is lost to the modulus.   *)
LEMMA IncrementInv ==
  ASSUME TimeInv, NEW count \in 0 .. MaxCount, Increment(count)
  PROVE  TimeInv'
<1> DEFINE plain == m_deltaSubFractionCollected + m_deltaSubFraction * count
           sum == m_ntpTimestamp + m_deltaNtpTimestamp * count + plain \div W
<1>1. /\ m_ntpTimestamp \in Nat /\ m_deltaNtpTimestamp \in Nat
      /\ m_deltaSubFraction \in 0 .. 2 * W /\ count \in Nat
      /\ m_deltaSubFractionCollected \in 0 .. W - 1
      /\ start \in Nat /\ exact \in Nat /\ wraps \in Nat /\ n \in Nat
      /\ m_era \in 0 .. W - 1 /\ m_deltaNtpTimestamp \in 0 .. W * W - 1
      /\ rate \in [samples : 1 .. W, ntp : 0 .. W * W - 1, sub : 0 .. W - 1]
      /\ NoDrift
  BY WordFacts DEF TimeInv, TypeOK
<1>2. plain \in Nat /\ plain < W * W
  <2>1. m_deltaSubFraction * count \in Nat
        /\ m_deltaSubFraction * count <= 2 * W * MaxCount
    <3>1. m_deltaSubFraction * count <= 2 * W * count
      BY <1>1, WordFacts, Monotonic
    <3>2. 2 * W * count <= 2 * W * MaxCount
      BY <1>1, WordFacts, Monotonic
    <3>3. m_deltaSubFraction * count \in Nat /\ 2 * W * count \in Nat
          /\ 2 * W * MaxCount \in Nat
      BY <1>1, WordFacts, Monotonic
    <3> QED BY <3>1, <3>2, <3>3
  <2> QED BY <1>1, <2>1, WordFacts
<1>3. plain % (W * W) = plain
  BY <1>2, WordFacts
<1>4. plain \div W \in Nat /\ plain % W \in 0 .. W - 1
      /\ plain = W * (plain \div W) + (plain % W)
  BY <1>2, WordFacts, Division, Quotient
<1>5. m_deltaNtpTimestamp * count \in Nat
  BY <1>1, Monotonic
<1>6. sum \in Nat
  BY <1>1, <1>4, <1>5
<1>7. sum \div (W * W) \in Nat /\ sum % (W * W) \in 0 .. W * W - 1
      /\ sum = (W * W) * (sum \div (W * W)) + (sum % (W * W))
  BY <1>6, WordFacts, Division, Quotient
<1>8. /\ m_deltaSubFractionCollected' = plain % W
      /\ m_ntpTimestamp' = sum % (W * W)
      /\ wraps' = wraps + sum \div (W * W)
      /\ exact' = exact + count * (m_deltaNtpTimestamp * W + m_deltaSubFraction)
      /\ n' = n + count
      /\ UNCHANGED <<m_era, m_deltaNtpTimestamp, m_deltaSubFraction, start, rate>>
  BY <1>3 DEF Increment, Carried, Kept, deltaVars
<1>9. TypeOK'
  <2>1. exact' \in Nat
    <3>1. m_deltaNtpTimestamp * W \in Nat /\ m_deltaSubFraction \in Nat
      BY <1>1, WordFacts, Monotonic
    <3>2. count * (m_deltaNtpTimestamp * W + m_deltaSubFraction) \in Nat
      BY <1>1, <3>1, Monotonic
    <3> QED BY <1>1, <1>8, <3>2
  <2> HIDE DEF plain, sum
  <2> QED BY <1>1, <1>4, <1>7, <1>8, <2>1 DEF TypeOK
<1>10. NoDrift'
  <2> DEFINE q == plain \div W
             r == plain % W
             w == sum \div (W * W)
             U == sum % (W * W)
  <2>0. plain = m_deltaSubFractionCollected + m_deltaSubFraction * count
    OBVIOUS
  <2>9. sum = m_ntpTimestamp + m_deltaNtpTimestamp * count + q
    OBVIOUS
  <2> HIDE DEF plain, sum
  <2>1. m_deltaSubFractionCollected + m_deltaSubFraction * count = W * q + r
    BY <1>4, <2>0
  <2>2. m_ntpTimestamp + m_deltaNtpTimestamp * count + q = (W * W) * w + U
    BY <1>7, <2>9
  <2>3. q \in Nat /\ r \in Nat /\ w \in Nat /\ U \in Nat /\ W \in Nat
        /\ m_deltaSubFraction \in Nat /\ m_deltaSubFractionCollected \in Nat
    BY <1>1, <1>4, <1>7, WordFacts
  <2>4. /\ m_deltaSubFractionCollected' = r /\ m_ntpTimestamp' = U
        /\ wraps' = wraps + w /\ start' = start
        /\ exact' = exact + count * (m_deltaNtpTimestamp * W + m_deltaSubFraction)
    BY <1>8
  <2> HIDE DEF q, r, w, U
  <2>5. U * W + r + (wraps + w) * W * W * W
          = (m_ntpTimestamp * W + m_deltaSubFractionCollected
               + wraps * W * W * W)
            + count * (m_deltaNtpTimestamp * W + m_deltaSubFraction)
    BY <1>1, <2>1, <2>2, <2>3, Bookkeeping
  <2>6. m_ntpTimestamp * W + m_deltaSubFractionCollected + wraps * W * W * W
          = start + exact
    BY <1>1 DEF NoDrift, Accumulated
  <2>7. count * (m_deltaNtpTimestamp * W + m_deltaSubFraction) \in Int
    BY <1>1, <2>3
  <2> QED BY <1>1, <2>4, <2>5, <2>6, <2>7 DEF NoDrift, Accumulated
<1> QED BY <1>9, <1>10 DEF TimeInv

(* The history starts over: what is accumulated is where it starts. *)
LEMMA RestartedInv ==
  ASSUME NEW t \in Nat, NEW c \in Nat, Restarted(t, c),
         m_ntpTimestamp' = t, m_deltaSubFractionCollected' = c
  PROVE  /\ NoDrift'
         /\ start' \in Nat /\ exact' \in Nat /\ wraps' \in Nat /\ n' \in Nat
<1>1. t * W \in Nat /\ W \in Nat
  BY WordFacts, Monotonic
<1>2. start' = t * W + c /\ exact' = 0 /\ wraps' = 0 /\ n' = 0
  BY DEF Restarted
<1>3. wraps' * W * W * W = 0
  BY <1>1, <1>2
<1> QED BY <1>1, <1>2, <1>3 DEF NoDrift, Accumulated

LEMMA SetTimeInv ==
  ASSUME TimeInv, NEW era \in Eras, NEW ts \in Stamps,
         SetTime(era, ts)
  PROVE  TimeInv'
<1>1. era \in 0 .. W - 1 /\ ts \in 0 .. W * W - 1 /\ ts \in Nat
  BY WordAssumption
<1>2. NoDrift' /\ start' \in Nat /\ exact' \in Nat /\ wraps' \in Nat /\ n' \in Nat
  BY <1>1, RestartedInv DEF SetTime
<1>3. TypeOK'
  BY <1>1, <1>2, WordFacts DEF TimeInv, TypeOK, SetTime, deltaVars
<1> QED BY <1>2, <1>3 DEF TimeInv

LEMMA SetTimeUnknownInv == ASSUME TimeInv, SetTimeUnknown PROVE TimeInv'
<1>1. m_ntpTimestamp \in Nat
  BY WordFacts DEF TimeInv, TypeOK
<1>2. NoDrift' /\ start' \in Nat /\ exact' \in Nat /\ wraps' \in Nat /\ n' \in Nat
  BY <1>1, RestartedInv DEF SetTimeUnknown, timeVars
<1>3. TypeOK'
  BY <1>2, WordFacts DEF TimeInv, TypeOK, SetTimeUnknown, timeVars, deltaVars
<1> QED BY <1>2, <1>3 DEF TimeInv

(* The sub fraction of a delta is the sum of two quotients, each of which  *)
(* is a word at most.                                                      *)
LEMMA SubFractionFits ==
  ASSUME NEW r \in [samples : 1 .. W, ntp : 0 .. W * W - 1, sub : 0 .. W - 1]
  PROVE  SubFractionOf(r) \in 0 .. 2 * W
<1> DEFINE remainder == (r.ntp \div r.samples) % r.samples
<1>1. r.samples \in Nat \ {0} /\ r.ntp \in Nat /\ r.sub \in Nat /\ r.sub <= W
      /\ W \in Nat
  BY WordFacts
<1>2. r.ntp \div r.samples \in Nat
  BY <1>1, Quotient
<1>3. remainder \in 0 .. r.samples - 1
  BY <1>1, <1>2, Division
<1>4. remainder \in Nat /\ remainder <= r.samples
  BY <1>1, <1>3
<1> HIDE DEF remainder
<1>5. remainder * W \in Nat /\ remainder * W <= W * r.samples
  BY <1>1, <1>4, Monotonic
<1>6. (remainder * W) \div r.samples \in Nat
      /\ (remainder * W) \div r.samples <= W
  BY <1>1, <1>5, Quotient, QuotientBelow
<1>7. r.sub \div r.samples \in Nat /\ r.sub \div r.samples <= W
  BY <1>1, Quotient
<1>8. SubFractionOf(r) = r.sub \div r.samples + (remainder * W) \div r.samples
  BY DEF SubFractionOf, remainder
<1> QED BY <1>1, <1>6, <1>7, <1>8

LEMMA SetDeltaInv ==
  ASSUME TimeInv, NEW r \in Rates, SetDelta(r) PROVE TimeInv'
<1>1. r \in [samples : 1 .. W, ntp : 0 .. W * W - 1, sub : 0 .. W - 1]
  <2>1. r \in [samples : 0 .. W - 1, ntp : 0 .. W * W - 1, sub : 0 .. W - 1]
    BY WordAssumption
  <2>2. r.samples > 0
    BY DEF SetDelta
  <2>3. r = [samples |-> r.samples, ntp |-> r.ntp, sub |-> r.sub]
    BY <2>1
  <2>4. r.samples \in 1 .. W
    BY <2>1, <2>2, WordFacts
  <2> QED BY <2>1, <2>3, <2>4
<1>2. r.samples \in Nat \ {0} /\ r.ntp \in Nat /\ r.ntp < W * W
  BY <1>1, WordFacts
<1>3. r.ntp \div r.samples \in 0 .. W * W - 1
  BY <1>2, WordFacts, Quotient
<1>4. m_ntpTimestamp \in Nat /\ m_deltaSubFractionCollected \in Nat
  BY WordFacts DEF TimeInv, TypeOK
<1>5. NoDrift' /\ start' \in Nat /\ exact' \in Nat /\ wraps' \in Nat /\ n' \in Nat
  BY <1>4, RestartedInv DEF SetDelta, timeVars
<1>6. TypeOK'
  BY <1>1, <1>3, <1>5, SubFractionFits DEF TimeInv, TypeOK, SetDelta, timeVars
<1> QED BY <1>5, <1>6 DEF TimeInv

LEMMA ClearInv == ASSUME TimeInv, Clear PROVE TimeInv'
<1>1. NoDrift' /\ start' \in Nat /\ exact' \in Nat /\ wraps' \in Nat /\ n' \in Nat
  BY RestartedInv DEF Clear
<1>2. TypeOK'
  BY <1>1, WordFacts DEF TimeInv, TypeOK, Clear, NoRate
<1> QED BY <1>1, <1>2 DEF TimeInv

LEMMA ConstructInv == ASSUME TimeInv, Construct PROVE TimeInv'
<1>1. NoDrift' /\ start' \in Nat /\ exact' \in Nat /\ wraps' \in Nat /\ n' \in Nat
  BY RestartedInv DEF Construct
<1>2. TypeOK'
  BY <1>1, WordFacts DEF TimeInv, TypeOK, Construct, NoRate
<1> QED BY <1>1, <1>2 DEF TimeInv

LEMMA StutterInv == ASSUME TimeInv, UNCHANGED vars PROVE TimeInv'
BY DEF TimeInv, TypeOK, NoDrift, Accumulated, vars, timeVars, deltaVars

LEMMA StepInv == TimeInv /\ [Next]_vars => TimeInv'
BY IncrementInv, SetTimeInv, SetTimeUnknownInv, SetDeltaInv, ClearInv,
   ConstructInv, StutterInv DEF Next

(* The inductive invariant: no drift, and every word keeps its width.      *)
THEOREM TimeInvariance == Spec => []TimeInv
BY InitInv, StepInv, PTL DEF Spec

(* The sub fractions collected never exceed a word and the time stamp never *)
(* two, and the intermediate sum of sub fractions fits into a uint64_t.    *)
THEOREM KeepsWidth == Spec => []TypeOK
<1>1. TimeInv => TypeOK
  BY DEF TimeInv
<1> QED BY TimeInvariance, <1>1, PTL

(* In whatever batches the values of a signal come, its time is what the   *)
(* start and the deltas add up to, for every word width and batch size.    *)
THEOREM NeverDrifts == Spec => []NoDrift
<1>1. TimeInv => NoDrift
  BY DEF TimeInv
<1> QED BY TimeInvariance, <1>1, PTL

-----------------------------------------------------------------------------
(* The ramp program                                                        *)

(* Every step of the program is one of the signal's time, or none. *)
LEMMA RampSteps == [RampNext]_<<vars, rampVars>> => [Next]_vars
<1> SUFFICES ASSUME RampNext PROVE [Next]_vars
  BY Zenon
<1>1. CASE Interrupt
  BY <1>1, Zenon DEF Interrupt
<1>2. CASE Meta
  BY <1>2, Zenon DEF Meta, Next
<1>3. CASE NoData
  BY <1>3, WordAssumption DEF NoData, Next
<1>4. CASE \E count \in 1 .. MaxCount : DataCb(count)
  BY <1>4, WordAssumption DEF DataCb, Next
<1> QED BY <1>1, <1>2, <1>3, <1>4 DEF RampNext

(* An increment leaves the beginning of the history alone and does not     *)
(* undo an overflow.                                                       *)
LEMMA IncrementGrows ==
  ASSUME TimeInv, NEW count \in 0 .. MaxCount, Increment(count)
  PROVE  start' = start /\ wraps <= wraps'
<1> DEFINE collected ==
             (m_deltaSubFractionCollected + m_deltaSubFraction * count) % (W * W)
           sum == m_ntpTimestamp + m_deltaNtpTimestamp * count + Carried(collected)
<1>1. /\ m_ntpTimestamp \in Nat /\ m_deltaNtpTimestamp \in Nat /\ count \in Nat
      /\ m_deltaSubFraction \in Nat /\ m_deltaSubFractionCollected \in Nat
      /\ wraps \in Nat
  BY WordFacts DEF TimeInv, TypeOK
<1>2. m_deltaNtpTimestamp * count \in Nat /\ m_deltaSubFraction * count \in Nat
  BY <1>1, Monotonic
<1>3. collected \in Nat
  <2>1. m_deltaSubFractionCollected + m_deltaSubFraction * count \in Nat
    BY <1>1, <1>2
  <2> QED BY <2>1, WordFacts
<1>4. Carried(collected) \in Nat
  BY <1>3, WordFacts, Quotient DEF Carried
<1>5. sum \in Nat
  BY <1>1, <1>2, <1>4
<1>6. sum \div (W * W) \in Nat
  BY <1>5, WordFacts, Quotient
<1>7. wraps' = wraps + sum \div (W * W) /\ start' = start
  BY DEF Increment
<1> QED BY <1>1, <1>6, <1>7

-----------------------------------------------------------------------------
(* The invariant                                                           *)

RampTypes ==
  /\ entry \in BOOLEAN /\ stamp \in 0 .. W * W - 1 /\ broken \in BOOLEAN
  /\ thrown \in {"nothing", "value", "time"}
  /\ since \in [exact : Nat, wraps : Nat, same : BOOLEAN]

(* Since the entry was made: its stamp is where the history was then, less *)
(* than a fraction aside.                                                  *)
Overflows(k) == k * W * W * W

EntryIsStart ==
  since.same =>
    /\ since.wraps <= wraps
    /\ stamp * W + Overflows(since.wraps) <= start + since.exact
    /\ start + since.exact < stamp * W + W + Overflows(since.wraps)

RampInv == TimeInv /\ RampTypes /\ EntryIsStart /\ AlarmIsDue

(* What a stamp is, by NoDrift: the history so far without its overflows   *)
(* and without the rest of a fraction.                                     *)
InHistory ==
  /\ m_ntpTimestamp * W + Overflows(wraps) <= start + exact
  /\ start + exact < m_ntpTimestamp * W + W + Overflows(wraps)

LEMMA StampOfHistory == TimeInv => InHistory
<1> SUFFICES ASSUME TimeInv PROVE InHistory
  OBVIOUS
<1>1. /\ m_deltaSubFractionCollected \in 0 .. W - 1 /\ W \in Nat
      /\ m_ntpTimestamp \in Nat /\ wraps \in Nat
  BY WordFacts DEF TimeInv, TypeOK
<1>2. m_ntpTimestamp * W \in Nat /\ Overflows(wraps) \in Int
  BY <1>1, Monotonic, SMTT(30) DEF Overflows
<1>3. m_ntpTimestamp * W + m_deltaSubFractionCollected + Overflows(wraps)
        = start + exact
  BY DEF TimeInv, NoDrift, Accumulated, Overflows
<1> QED BY <1>1, <1>2, <1>3 DEF InHistory

LEMMA MetaStep ==
  ASSUME RampInv, Meta \/ Interrupt PROVE RampTypes' /\ EntryIsStart'
<1>1. CASE Interrupt
  <2>1. UNCHANGED <<entry, stamp, thrown, since, start, wraps>> /\ broken' = TRUE
    BY <1>1 DEF Interrupt, vars
  <2>2. RampTypes'
    BY <2>1, Zenon DEF RampInv, RampTypes
  <2>3. EntryIsStart'
    BY <2>1, Zenon DEF RampInv, EntryIsStart
  <2> QED BY <2>2, <2>3
<1>2. CASE Meta
  <2>1. /\ since' = Set /\ UNCHANGED <<entry, stamp, thrown>>
        /\ broken' = broken \/ broken' = entry
    BY <1>2, Zenon DEF Meta
  <2>2. Set \in [exact : Nat, wraps : Nat, same : BOOLEAN] /\ Set.same = FALSE
    BY DEF Set
  <2>3. broken' \in BOOLEAN
    BY <2>1, Zenon DEF RampInv, RampTypes
  <2>4. RampTypes'
    BY <2>1, <2>2, <2>3, Zenon DEF RampInv, RampTypes
  <2>5. since'.same = FALSE
    BY <2>1, <2>2
  <2>6. EntryIsStart'
    BY <2>5 DEF EntryIsStart
  <2> QED BY <2>4, <2>6
<1> QED BY <1>1, <1>2

LEMMA FirstBlockStep ==
  ASSUME RampInv, TimeInv', FirstBlock, broken' = FALSE
  PROVE  RampTypes' /\ EntryIsStart'
<1> DEFINE r == [exact |-> exact', wraps |-> wraps', same |-> TRUE]
<1>1. exact' \in Nat /\ wraps' \in Nat /\ m_ntpTimestamp' \in 0 .. W * W - 1
  BY DEF TimeInv, TypeOK
<1>2. r \in [exact : Nat, wraps : Nat, same : BOOLEAN]
      /\ r.exact = exact' /\ r.wraps = wraps'
  BY <1>1
<1>3. since' = r /\ stamp' = m_ntpTimestamp' /\ entry' = TRUE /\ UNCHANGED thrown
  BY DEF FirstBlock
<1> HIDE DEF r
<1>4. RampTypes'
  BY <1>1, <1>2, <1>3, Zenon DEF RampInv, RampTypes
<1>5. /\ m_ntpTimestamp' * W + Overflows(wraps') <= start' + exact'
      /\ start' + exact' < m_ntpTimestamp' * W + W + Overflows(wraps')
  <2>1. InHistory'
    BY StampOfHistory, PTL
  <2> QED BY <2>1 DEF InHistory, Overflows
<1>6. EntryIsStart'
  BY <1>1, <1>2, <1>3, <1>5 DEF EntryIsStart, Overflows
<1> QED BY <1>4, <1>6

(* The arithmetic of a stamp that is not later than the first one. *)
LEMMA NotLater ==
  ASSUME NEW s \in Nat, NEW m \in Nat, NEW V \in Nat, NEW o \in Int,
         NEW b \in Nat, NEW e \in Nat, NEW f \in Nat, m <= s,
         s * V + o <= b + e, b + f < m * V + V + o
  PROVE  f - e < V
<1>1. m * V <= s * V /\ m * V \in Nat /\ s * V \in Nat
  BY Monotonic
<1> QED BY <1>1

LEMMA NextBlockStep ==
  ASSUME RampInv, TimeInv', NextBlock, NEW count \in 0 .. MaxCount,
         Increment(count), broken' = FALSE
  PROVE  RampTypes' /\ EntryIsStart' /\ AlarmIsDue'
<1>1. UNCHANGED <<entry, stamp, since>>
      /\ thrown' \in {"nothing", "value", "time"}
  BY DEF NextBlock
<1>2. RampTypes'
  BY <1>1, Zenon DEF RampInv, RampTypes
<1>3. start' = start /\ wraps <= wraps'
  BY IncrementGrows DEF RampInv
<1>4. /\ stamp \in Nat /\ since.wraps \in Nat /\ since.exact \in Nat
      /\ wraps \in Nat /\ wraps' \in Nat /\ exact' \in Nat /\ start \in Nat
      /\ m_ntpTimestamp' \in Nat /\ W \in Nat
  BY WordFacts DEF RampInv, RampTypes, TimeInv, TypeOK
<1>5. EntryIsStart'
  <2> SUFFICES ASSUME since'.same PROVE EntryIsStart'
    BY DEF EntryIsStart
  <2>1. since.same
    BY <1>1
  <2>2. /\ since.wraps <= wraps
        /\ stamp * W + Overflows(since.wraps) <= start + since.exact
        /\ start + since.exact < stamp * W + W + Overflows(since.wraps)
    BY <2>1 DEF RampInv, EntryIsStart
  <2>3. since.wraps <= wraps'
    BY <1>3, <1>4, <2>2
  <2> QED BY <1>1, <1>3, <2>2, <2>3 DEF EntryIsStart, Overflows
<1>6. AlarmIsDue'
  <2> SUFFICES ASSUME thrown' = "time", since'.same, ~(wraps' > since'.wraps)
               PROVE  exact' - since'.exact < W
    BY DEF AlarmIsDue
  <2>1. m_ntpTimestamp' <= stamp
    BY <1>4 DEF NextBlock, NotAfter
  <2>2. wraps' = since.wraps
    <3>1. since.wraps <= wraps /\ ~(wraps' > since.wraps)
      BY <1>1 DEF RampInv, EntryIsStart
    <3> QED BY <1>3, <1>4, <3>1
  <2>3. stamp * W + Overflows(since.wraps) <= start + since.exact
    BY <1>1 DEF RampInv, EntryIsStart
  <2>4. start' + exact' < m_ntpTimestamp' * W + W + Overflows(wraps')
    <3>1. InHistory'
      BY StampOfHistory, PTL
    <3> QED BY <3>1 DEF InHistory, Overflows
  <2>5. Overflows(since.wraps) \in Int
    BY <1>4, SMTT(30) DEF Overflows
  <2> DEFINE o == Overflows(since.wraps)
  <2>6. Overflows(wraps') = o
    BY <2>2
  <2>7. start + exact' < m_ntpTimestamp' * W + W + o
    BY <1>3, <2>4, <2>6
  <2> HIDE DEF o
  <2>8. o \in Int /\ stamp * W + o <= start + since.exact
    BY <2>3, <2>5 DEF o
  <2> QED BY <1>1, <1>4, <2>1, <2>7, <2>8, NotLater
<1> QED BY <1>2, <1>5, <1>6

(* What leaves the entry alone keeps it, as long as the history goes on. *)
LEMMA EntryKept ==
  ASSUME RampInv, UNCHANGED rampVars, start' = start, wraps <= wraps',
         wraps' \in Nat
  PROVE  RampTypes' /\ EntryIsStart'
<1>1. UNCHANGED <<entry, stamp, broken, thrown, since>>
  BY DEF rampVars
<1>2. RampTypes'
  BY <1>1, Zenon DEF RampInv, RampTypes
<1>3. since.wraps \in Nat /\ wraps \in Nat
  BY DEF RampInv, RampTypes, TimeInv, TypeOK
<1>4. EntryIsStart'
  BY <1>1, <1>3 DEF RampInv, EntryIsStart, Overflows
<1> QED BY <1>2, <1>4

LEMMA RampStepInv == RampInv /\ [RampNext]_<<vars, rampVars>> => RampInv'
<1> SUFFICES ASSUME RampInv, [RampNext]_<<vars, rampVars>> PROVE RampInv'
  OBVIOUS
<1>1. TimeInv'
  BY RampSteps, StepInv DEF RampInv
<1>2. wraps \in Nat /\ wraps' \in Nat
  BY <1>1 DEF RampInv, TimeInv, TypeOK
<1>3. CASE UNCHANGED <<vars, rampVars>>
  <2>1. UNCHANGED <<start, wraps, exact, thrown, since>>
    BY <1>3 DEF vars, rampVars
  <2>2. AlarmIsDue'
    BY <2>1, Zenon DEF RampInv, AlarmIsDue
  <2> QED BY <1>1, <1>2, <1>3, <2>1, <2>2, EntryKept DEF RampInv
<1>4. CASE NoData /\ thrown = "nothing"
  <2>1. start' = start /\ wraps <= wraps' /\ UNCHANGED rampVars
    BY <1>4, IncrementGrows, WordAssumption DEF NoData, RampInv
  <2>2. thrown' = "nothing"
    BY <1>4, <2>1 DEF rampVars
  <2> QED BY <1>1, <1>2, <2>1, <2>2, EntryKept DEF RampInv, AlarmIsDue
<1>5. CASE (Interrupt \/ Meta) /\ thrown = "nothing"
  <2>1. thrown' = "nothing"
    BY <1>5 DEF Interrupt, Meta
  <2> QED BY <1>1, <1>5, <2>1, MetaStep DEF RampInv, AlarmIsDue
<1>6. CASE (\E count \in 1 .. MaxCount : DataCb(count)) /\ thrown = "nothing"
  <2>1. PICK count \in 1 .. MaxCount : DataCb(count)
    BY <1>6
  <2>2. count \in 0 .. MaxCount /\ Increment(count) /\ broken' = FALSE
    BY <2>1, WordAssumption DEF DataCb
  <2>3. CASE FirstBlock
    <3>1. thrown' = "nothing"
      BY <1>6, <2>3 DEF FirstBlock
    <3> QED BY <1>1, <2>2, <2>3, <3>1, FirstBlockStep DEF RampInv, AlarmIsDue
  <2>4. CASE NextBlock
    BY <1>1, <2>2, <2>4, NextBlockStep DEF RampInv
  <2> QED BY <2>1, <2>3, <2>4 DEF DataCb
<1> QED BY <1>3, <1>4, <1>5, <1>6 DEF RampNext

(* Types, no drift and the meaning of the first block's stamp together.    *)
THEOREM RampInvariance == RampSpec => []RampInv
<1>1. RampInit => RampInv
  <2> SUFFICES ASSUME RampInit PROVE RampInv
    OBVIOUS
  <2>1. TimeInv
    BY InitInv DEF RampInit
  <2>2. Set \in [exact : Nat, wraps : Nat, same : BOOLEAN] /\ Set.same = FALSE
    BY DEF Set
  <2>3. RampTypes
    <3>1. 0 \in 0 .. W * W - 1
      BY WordFacts
    <3> QED BY <2>2, <3>1, Zenon DEF RampInit, RampTypes
  <2>4. since.same = FALSE /\ thrown = "nothing"
    BY <2>2 DEF RampInit
  <2>5. EntryIsStart /\ AlarmIsDue
    BY <2>4 DEF EntryIsStart, AlarmIsDue
  <2> QED BY <2>1, <2>3, <2>5 DEF RampInv
<1> QED BY <1>1, RampStepInv, PTL DEF RampSpec

(* The types of the program's variables and of its signal's time.          *)
THEOREM RampTypeCorrect == RampSpec => []RampTypeOK
<1>1. RampInv => RampTypeOK
  BY DEF RampInv, TimeInv, RampTypes, RampTypeOK
<1> QED BY <1>1, RampInvariance, PTL

(* The program's use of a signal's time keeps it from drifting.            *)
THEOREM RampNeverDrifts == RampSpec => []NoDrift
<1>1. RampInv => NoDrift
  BY DEF RampInv, TimeInv
<1> QED BY <1>1, RampInvariance, PTL

(* For every width, rate and batch size the program takes a stamp for a    *)
(* step back only if the time has not come forward by a fraction since the *)
(* first block, or an era has ended: dividing and collecting deltas cannot *)
(* raise the alarm.                                                        *)
THEOREM AlarmsAreDue == RampSpec => []AlarmIsDue
<1>1. RampInv => AlarmIsDue
  BY DEF RampInv
<1> QED BY <1>1, RampInvariance, PTL
=============================================================================
