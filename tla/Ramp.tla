------------------------------- MODULE Ramp --------------------------------
(***************************************************************************)
(* The program src/ramp.cpp: each signal is expected to deliver a ramp,    *)
(* and dataCb compares the first value of a block with the last one of the *)
(* block before, and its time stamp with the one of the first block of all.*)
(* What it throws nobody catches: the process ends.  The program is        *)
(* composed with the time of one synchronous signal, DeltaTime; of the     *)
(* values it matters only whether they continue the ramp.                  *)
(***************************************************************************)
EXTENDS DeltaTime

VARIABLES
  entry,    \* the signal number is in m_lastRampValues
  stamp,    \* timeStamp of the entry
  broken,   \* the next value does not continue the last block
  thrown,   \* what has ended the process
  since     \* history: exact and wraps when the entry was made, unless
            \* time or rate have been set since

rampVars == <<entry, stamp, broken, thrown, since>>

Set == [exact |-> 0, wraps |-> 0, same |-> FALSE]

RampTypeOK ==
  /\ TypeOK
  /\ entry \in BOOLEAN /\ stamp \in 0 .. W * W - 1 /\ broken \in BOOLEAN
  /\ thrown \in {"nothing", "value", "time"}
  /\ since \in [exact : Nat, wraps : Nat, same : BOOLEAN]

RampInit ==
  /\ Init
  /\ entry = FALSE /\ stamp = 0 /\ broken = FALSE /\ thrown = "nothing"
  /\ since = Set

(* Values are lost, or the ramp begins again: it matters when there has    *)
(* been a block.                                                           *)
Interrupt ==
  /\ entry /\ broken' = TRUE
  /\ UNCHANGED <<vars, entry, stamp, thrown, since>>

(* Meta information sets the signal's time; a signal that is subscribed    *)
(* again begins its ramp anew, though "unsubscribe" has left the entry.    *)
Meta ==
  /\ \/ \E era \in Eras, s \in Stamps : SetTime(era, s) /\ UNCHANGED broken
     \/ SetTimeUnknown /\ UNCHANGED broken
     \/ \E r \in Rates : SetDelta(r) /\ UNCHANGED broken
     \/ (Clear \/ Construct) /\ broken' = entry
  /\ since' = Set
  /\ UNCHANGED <<entry, stamp, thrown>>

(* dataCb() for a block of count values, stamped by increment(). *)

FirstBlock ==
  /\ ~entry
  /\ entry' = TRUE /\ stamp' = m_ntpTimestamp'
  /\ since' = [exact |-> exact', wraps |-> wraps', same |-> TRUE]
  /\ UNCHANGED thrown

(* Mutant of NotAfter: only the seconds are compared. *)
NotAfterSeconds(first, now) == first \div W >= now \div W

NotAfter(first, now) == first >= now

(* The entry's time stamp is not updated. *)
NextBlock ==
  /\ entry
  /\ thrown' = IF broken THEN "value"
               ELSE IF NotAfter(stamp, m_ntpTimestamp') THEN "time"
               ELSE "nothing"
  /\ UNCHANGED <<entry, stamp, since>>

DataCb(count) ==
  /\ Increment(count)
  /\ FirstBlock \/ NextBlock
  /\ broken' = FALSE

(* Data that hold no value are not given to the callback. *)
NoData == Increment(0) /\ UNCHANGED rampVars

RampNext ==
  /\ thrown = "nothing"
  /\ Interrupt \/ Meta \/ NoData \/ \E count \in 1 .. MaxCount : DataCb(count)

RampSpec == RampInit /\ [][RampNext]_<<vars, rampVars>>

-----------------------------------------------------------------------------
(* Properties                                                              *)

(* The program never ends for a ramp in order whose time is right: however *)
(* the values come in batches and however their deltas are rounded, a time *)
(* stamp that is called unexpected is not a whole fraction later than the  *)
(* first one, or the NTP era has ended since, which the program takes for  *)
(* a step back.                                                            *)
AlarmIsDue ==
  thrown = "time" /\ since.same =>
    exact - since.exact < W \/ wraps > since.wraps
=============================================================================
