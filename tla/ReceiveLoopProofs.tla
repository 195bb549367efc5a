------------------------- MODULE ReceiveLoopProofs -------------------------
(***************************************************************************)
(* Proofs about ReceiveLoop, for every size of the buffer and of the       *)
(* messages: the loop stays in step with the messages of the peer and      *)
(* within its buffer, its state keeps its types, a clock follows the       *)
(* values sent, values are delivered in their order and, as far as one     *)
(* call takes them, without exception, and raw bytes with them.            *)
(***************************************************************************)
EXTENDS ReceiveLoop, TLAPS

AllFormats == Formats \cup {DefaultFormat}

CountersOK ==
  /\ toProcess \in Nat /\ unread \in Nat /\ size \in Nat
  /\ buf \in Seq(Int) /\ Len(buf) <= RecvBuffer

PlacesOK ==
  /\ pc \in {"header", "data", "process", "meta", "stopped", "overrun"}
  /\ hasContainer \in BOOLEAN
  /\ signal \in Signals \cup {0} /\ known \subseteq Signals
  /\ format \in [Signals -> AllFormats]
  /\ srv \in [Signals -> Formats \cup {None}]

(* What the loop still has to process is buffered or in the socket. *)
Counted == pc \in {"data", "process"} => toProcess = Len(buf) + unread

(* A full buffer never comes back to the head of the loop with more to     *)
(* read, unless the connection has ended.                                  *)
Room ==
  pc = "data" /\ toProcess > RecvBuffer => Len(buf) < RecvBuffer \/ ended

(* Before a chunk is processed the buffer holds all that was wanted, or    *)
(* the connection has ended.                                               *)
Filled == pc = "process" /\ ~ended => Len(buf) = Lesser(toProcess, RecvBuffer)

(* The container knows the format of every signal the peer has announced.  *)
FormatsAgree ==
  pc # "stopped" /\ hasContainer
    => \A s \in Signals :
         srv[s] # None => s \in known /\ format[s] = srv[s]

(* Data of a signal nobody knows have been counted once too much at most,  *)
(* and only when the last byte of the message is in the buffer.            *)
StrayFits ==
  pc \in {"data", "process"}
    => /\ signal \in Signals
       /\ srv[signal] = None =>
            \/ toProcess <= size
            \/ /\ pc = "data" /\ toProcess = size + 1
               /\ ended \/ Len(buf) = toProcess

MetaWhole == pc = "meta" => unread = size /\ size \in MetaSizes

OverrunOnly ==
  pc = "overrun" => hasContainer /\ srv[signal] = None /\ size >= RecvBuffer

LoopInv ==
  /\ CountersOK /\ PlacesOK
  /\ Counted /\ Filled /\ Room /\ FormatsAgree
  /\ StrayFits /\ MetaWhole /\ Framed /\ OverrunOnly
-----------------------------------------------------------------------------
(* Arithmetic of whole values                                              *)

LEMMA Products ==
  ASSUME NEW c \in Nat, NEW d \in Nat, NEW v \in Nat, c <= d
  PROVE  /\ c * v \in Nat /\ c * v <= d * v
         /\ c >= 1 /\ v >= 1 => c * v >= 1
BY SMTT(30)

LEMMA Quotients ==
  ASSUME NEW n \in Nat, NEW v \in Nat \ {0}
  PROVE  /\ n \div v \in Nat /\ (n \div v) * v <= n
         /\ n >= v => n \div v >= 1
BY SMTT(30)

(* processMeasuredData takes no more than there is, and something whenever *)
(* a time stamp and a value are there.                                     *)
LEMMA TakenFits ==
  ASSUME NEW f \in AllFormats, NEW n \in Nat
  PROVE  Taken(f, n) \in 0 .. n /\ (n >= Tuple(f) => Taken(f, n) > 0)
<1>1. /\ f.pattern \in {"V", "TV", "TB"} /\ f.value \in Nat \ {0}
      /\ f.time \in Nat /\ MaxValues \in Nat \ {0}
  BY FormatsAssumption DEF AllFormats
<1>2. ASSUME NEW d \in Nat
      PROVE  Lesser(d, MaxValues) \in Nat /\ Lesser(d, MaxValues) <= d
             /\ (d >= 1 => Lesser(d, MaxValues) >= 1)
  BY <1>1 DEF Lesser
<1>3. CASE f.pattern = "V"
  <2> DEFINE d == n \div f.value
             c == Lesser(d, MaxValues)
  <2>1. d \in Nat /\ d * f.value <= n /\ (n >= f.value => d >= 1)
    BY <1>1, Quotients
  <2>2. c \in Nat /\ c <= d /\ (d >= 1 => c >= 1)
    BY <1>2, <2>1
  <2>3. Taken(f, n) = c * f.value
    BY <1>3 DEF Taken, ValueCount
  <2> HIDE DEF d, c
  <2>4. c * f.value \in Nat /\ c * f.value <= d * f.value /\ d * f.value \in Nat
        /\ (c >= 1 => c * f.value >= 1)
    BY <1>1, <2>1, <2>2, Products
  <2>5. n >= Tuple(f) => n >= f.value
    BY <1>1 DEF Tuple
  <2> QED BY <2>1, <2>2, <2>3, <2>4, <2>5
<1>4. CASE f.pattern = "TV"
  <2> DEFINE d == n \div Tuple(f)
  <2>1. Tuple(f) \in Nat \ {0}
    BY <1>1 DEF Tuple
  <2>2. d \in Nat /\ d * Tuple(f) <= n /\ (n >= Tuple(f) => d >= 1)
    BY <2>1, Quotients
  <2>3. Taken(f, n) = d * Tuple(f)
    BY <1>4 DEF Taken, ValueCount
  <2> HIDE DEF d
  <2>4. d * Tuple(f) \in Nat /\ (d >= 1 => d * Tuple(f) >= 1)
    BY <2>1, <2>2, Products
  <2> QED BY <2>2, <2>3, <2>4
<1>5. CASE f.pattern = "TB"
  <2>1. CASE n < Tuple(f)
    <3>1. Taken(f, n) = 0
      BY <1>5, <2>1 DEF Taken, ValueCount
    <3>2. Tuple(f) \in Nat
      BY <1>1 DEF Tuple
    <3> QED BY <2>1, <3>1, <3>2
  <2>2. CASE ~(n < Tuple(f))
    <3> DEFINE m == n - f.time
               d == m \div f.value
               c == Lesser(d, MaxValues)
    <3>1. m \in Nat /\ m >= f.value /\ n = f.time + m
      BY <1>1, <2>2 DEF Tuple
    <3>2. d \in Nat /\ d * f.value <= m /\ d >= 1
      BY <1>1, <3>1, Quotients
    <3>3. c \in Nat /\ c <= d /\ c >= 1
      BY <1>2, <3>2
    <3>4. Taken(f, n) = f.time + c * f.value
      BY <1>5, <2>2, <3>3 DEF Taken, ValueCount
    <3> HIDE DEF d, c, m
    <3>5. /\ c * f.value \in Nat /\ c * f.value <= d * f.value
          /\ d * f.value \in Nat /\ c * f.value >= 1
      BY <1>1, <3>2, <3>3, Products
    <3> QED BY <1>1, <3>1, <3>2, <3>4, <3>5
  <2> QED BY <2>1, <2>2
<1> QED BY <1>1, <1>3, <1>4, <1>5

-----------------------------------------------------------------------------
LEMMA InitInv == Init => LoopInv
<1> SUFFICES ASSUME Init PROVE LoopInv
  OBVIOUS
<1> USE DEF Init
<1>1. buf \in Seq(Int) /\ Len(buf) = 0
  OBVIOUS
<1>2. CountersOK
  BY <1>1, FormatsAssumption DEF CountersOK
<1>3. PlacesOK
  BY DEF PlacesOK, AllFormats
<1>4. Counted /\ Filled /\ Room /\ StrayFits /\ MetaWhole /\ Framed /\ OverrunOnly
  BY DEF Counted, Filled, Room, StrayFits, MetaWhole, Framed, OverrunOnly
<1>5. FormatsAgree
  BY DEF FormatsAgree
<1> QED BY <1>2, <1>3, <1>4, <1>5 DEF LoopInv

(* The header of the next message, when the socket has been emptied. *)
LEMMA NewMessageInv ==
  ASSUME LoopInv, NEW t \in {"data", "meta", "other"},
         NEW s \in Signals \cup {0}, NEW n \in Nat, NewMessage(t, s, n),
         t = "data" => s \in Signals,
         t = "meta" => n \in MetaSizes,
         t = "other" => n = 0
  PROVE  LoopInv'
<1> USE DEF NewMessage, sigVars
<1>1. buf' \in Seq(Int) /\ Len(buf') = 0
  OBVIOUS
<1>2. CountersOK'
  BY <1>1, FormatsAssumption DEF CountersOK
<1>3. PlacesOK'
  BY DEF LoopInv, PlacesOK
<1>4. Counted' /\ Filled' /\ Room' /\ MetaWhole' /\ Framed'
      /\ OverrunOnly'
  BY <1>1, FormatsAssumption DEF Counted, Filled, Room, MetaWhole, Framed, OverrunOnly
<1>5. StrayFits'
  BY <1>1 DEF StrayFits
<1>6. FormatsAgree'
  BY DEF LoopInv, FormatsAgree
<1> QED BY <1>2, <1>3, <1>4, <1>5, <1>6 DEF LoopInv

LEMMA HeaderInv == ASSUME LoopInv, Header PROVE LoopInv'
<1>1. ASSUME NEW s \in Signals, NEW f \in Formats, NEW n \in DataSizes[f],
             DataHeader(s, n)
      PROVE  LoopInv'
  <2>1. n \in Nat
    BY FormatsAssumption
  <2>2. NewMessage("data", s, n) /\ srv[s] # None
    BY <1>1 DEF DataHeader
  <2> QED BY <2>1, <2>2, NewMessageInv
<1>2. ASSUME NEW s \in Signals, NEW n \in StraySizes, StrayDataHeader(s, n)
      PROVE  LoopInv'
  <2>1. n \in Nat
    BY FormatsAssumption
  <2>2. NewMessage("data", s, n)
    BY <1>2 DEF StrayDataHeader
  <2> QED BY <2>1, <2>2, NewMessageInv
<1>3. ASSUME NEW s \in Signals \cup {0}, NEW n \in MetaSizes, MetaHeader(s, n)
      PROVE  LoopInv'
  <2>1. n \in Nat
    BY FormatsAssumption
  <2>2. NewMessage("meta", s, n)
    BY <1>3 DEF MetaHeader
  <2> QED BY <2>1, <2>2, NewMessageInv
<1>4. CASE OtherHeader
  <2>1. NewMessage("other", 0, 0)
    BY <1>4 DEF OtherHeader
  <2> QED BY <2>1, NewMessageInv
<1>5. CASE HeaderFails
  <2> USE <1>5 DEF HeaderFails, sigVars, msgVars, peerVars, LoopInv
  <2>1. CountersOK' /\ Counted' /\ Filled' /\ Room' /\ StrayFits' /\ MetaWhole' /\ Framed'
      /\ OverrunOnly'
    BY DEF CountersOK, Counted, Filled, Room, StrayFits, MetaWhole, Framed, OverrunOnly
  <2>2. PlacesOK' /\ FormatsAgree'
    BY DEF PlacesOK, FormatsAgree
  <2> QED BY <2>1, <2>2
<1> QED BY <1>1, <1>2, <1>3, <1>4, <1>5 DEF Header, Message

-----------------------------------------------------------------------------
(* The data loop                                                           *)

(* What the container knows of formats does not change in the loop. *)
LEMMA DataKeepsFormats ==
  ASSUME LoopInv, pc # "stopped", pc' \in {"header", "data", "process", "overrun"},
         UNCHANGED <<hasContainer, known, format, signal, peerVars>>
  PROVE  PlacesOK' /\ FormatsAgree'
BY DEF LoopInv, PlacesOK, FormatsAgree, peerVars

LEMMA DataDoneInv == ASSUME LoopInv, DataDone PROVE LoopInv'
<1> USE DEF DataDone, sigVars, msgVars
<1>1. PlacesOK' /\ FormatsAgree'
  BY DataKeepsFormats
<1>2. CountersOK'
  BY DEF LoopInv, CountersOK
<1>3. unread = 0
  BY DEF LoopInv, CountersOK, Counted
<1>4. Counted' /\ Filled' /\ Room' /\ StrayFits' /\ MetaWhole' /\ Framed'
      /\ OverrunOnly'
  BY <1>3 DEF Counted, Filled, Room, StrayFits, MetaWhole, Framed, OverrunOnly
<1> QED BY <1>1, <1>2, <1>4 DEF LoopInv

LEMMA ReadNothingInv == ASSUME LoopInv, ReadNothing PROVE LoopInv'
<1> USE DEF ReadNothing, AfterNothing, sigVars, msgVars
<1>1. PlacesOK' /\ FormatsAgree'
  BY DataKeepsFormats
<1>2. CountersOK'
  BY DEF LoopInv, CountersOK
<1>3. Framed'
  <2> SUFFICES ASSUME ~ended' PROVE unread = 0
    BY DEF Framed
  <2>1. ToRead = 0
    OBVIOUS
  <2>2. ~ended
    OBVIOUS
  <2>3. /\ toProcess \in Nat /\ unread \in Nat /\ Len(buf) \in Nat
        /\ RecvBuffer \in Nat /\ toProcess = Len(buf) + unread
        /\ toProcess > RecvBuffer => Len(buf) < RecvBuffer
    BY <2>2, FormatsAssumption DEF LoopInv, CountersOK, Counted, Room
  <2> QED BY <2>1, <2>3 DEF ToRead, Lesser
<1>4. Counted' /\ Filled' /\ Room' /\ StrayFits' /\ MetaWhole' /\ OverrunOnly'
  BY DEF Counted, Filled, Room, StrayFits, MetaWhole, OverrunOnly
<1> QED BY <1>1, <1>2, <1>3, <1>4 DEF LoopInv

LEMMA ReadChunkInv == ASSUME LoopInv, NEW got, ReadChunk(got) PROVE LoopInv'
<1> DEFINE chunk == [i \in 1 .. got |-> size - unread + i - 1]
<1>1. /\ pc = "data" /\ pc' = "process" /\ toProcess > 0 /\ ~ended
      /\ got \in 1 .. Lesser(ToRead, unread)
      /\ buf' = buf \o chunk /\ unread' = unread - got
      /\ UNCHANGED <<hasContainer, known, format, signal, size, toProcess,
                      peerVars>>
  BY DEF ReadChunk, sigVars
<1>2. /\ toProcess \in Nat /\ unread \in Nat /\ size \in Nat
      /\ buf \in Seq(Int) /\ Len(buf) \in Nat /\ Len(buf) <= RecvBuffer
      /\ RecvBuffer \in Nat /\ toProcess = Len(buf) + unread
  BY <1>1, FormatsAssumption DEF LoopInv, CountersOK, Counted
<1>3. got \in Nat /\ got <= ToRead /\ got <= unread /\ got >= 1
  BY <1>1, <1>2 DEF Lesser, ToRead
<1>4. chunk \in Seq(Int) /\ Len(chunk) = got
  BY <1>2, <1>3
<1> HIDE DEF chunk
<1>5. buf' \in Seq(Int) /\ Len(buf') = Len(buf) + got
  <2>1. buf' = buf \o chunk /\ buf \in Seq(Int)
    BY <1>1, <1>2
  <2> QED BY <1>4, <2>1
<1>6. PlacesOK' /\ FormatsAgree'
  BY <1>1, DataKeepsFormats
<1>7. CountersOK' /\ Counted'
  BY <1>1, <1>2, <1>3, <1>5 DEF CountersOK, Counted, ToRead, Lesser
<1>8. Filled'
  <2> SUFFICES ASSUME ~ended' PROVE Len(buf') = Lesser(toProcess, RecvBuffer)
    BY <1>1 DEF Filled
  <2>1. ~(got < ToRead)
    BY DEF ReadChunk
  <2>2. got = ToRead /\ ToRead = Lesser(toProcess, RecvBuffer) - Len(buf)
        /\ Lesser(toProcess, RecvBuffer) \in Nat
    BY <1>2, <1>3, <2>1 DEF ToRead, Lesser
  <2>3. Len(buf') = Len(buf) + got
    BY <1>5
  <2> HIDE DEF Lesser
  <2> QED BY <1>2, <1>3, <2>2, <2>3
<1>9. StrayFits'
  <2>1. srv[signal] = None => toProcess <= size
    BY <1>1, <1>2, <1>3 DEF LoopInv, StrayFits, ToRead, Lesser
  <2>2. signal \in Signals
    BY <1>1 DEF LoopInv, StrayFits
  <2> QED BY <1>1, <2>1, <2>2 DEF StrayFits, peerVars
<1>10. Room' /\ MetaWhole' /\ Framed'
      /\ OverrunOnly'
  BY <1>1 DEF Room, MetaWhole, Framed, OverrunOnly
<1> QED BY <1>6, <1>7, <1>8, <1>9, <1>10 DEF LoopInv

LEMMA ProcessInv == ASSUME LoopInv, Process PROVE LoopInv'
<1> DEFINE f == format[signal]
           b == Len(buf)
           n == Taken(f, b)
<1>1. /\ pc = "process" /\ pc' = "data" /\ signal \in known
      /\ toProcess' = toProcess - n /\ buf' = SubSeq(buf, n + 1, b)
      /\ UNCHANGED <<hasContainer, known, format, signal, size, unread,
                      ended, peerVars>>
  BY DEF Process, Rest
<1>2. /\ toProcess \in Nat /\ unread \in Nat /\ size \in Nat
      /\ buf \in Seq(Int) /\ b \in Nat /\ b <= RecvBuffer
      /\ RecvBuffer \in Nat /\ toProcess = b + unread
  BY <1>1, FormatsAssumption DEF LoopInv, CountersOK, Counted
<1>3. f \in AllFormats
  BY <1>1 DEF LoopInv, PlacesOK
<1>4. Tuple(f) <= RecvBuffer
  BY <1>3, FormatsAssumption DEF AllFormats
<1>5. n \in 0 .. b /\ (b >= Tuple(f) => n > 0)
  BY <1>2, <1>3, TakenFits
<1>6. Tuple(f) \in Nat
  BY <1>3, FormatsAssumption DEF AllFormats, Tuple
<1> HIDE DEF f, n
<1>7. buf' \in Seq(Int) /\ Len(buf') = b - n
  BY <1>1, <1>2, <1>5
<1>8. PlacesOK' /\ FormatsAgree'
  BY <1>1, DataKeepsFormats
<1>9. CountersOK' /\ Counted'
  BY <1>1, <1>2, <1>5, <1>7 DEF CountersOK, Counted
<1>10. Room'
  BY <1>1, <1>2, <1>4, <1>5, <1>6, <1>7 DEF Room
<1>11. StrayFits'
  <2>1. signal \in Signals /\ (srv[signal] = None => toProcess <= size)
    BY <1>1, <1>2 DEF LoopInv, StrayFits
  <2>2. toProcess' <= toProcess
    BY <1>1, <1>2, <1>5
  <2> QED BY <1>1, <1>2, <1>5, <2>1, <2>2 DEF StrayFits, peerVars
<1>12. Filled' /\ MetaWhole' /\ Framed'
      /\ OverrunOnly'
  BY <1>1 DEF Filled, MetaWhole, Framed, OverrunOnly
<1> QED BY <1>8, <1>9, <1>10, <1>11, <1>12 DEF LoopInv

(* A signal the container does not know has not been announced. *)
LEMMA UnknownIsStray ==
  ASSUME LoopInv, Unknown
  PROVE  signal \in Signals /\ srv[signal] = None /\ toProcess <= size
<1>1. pc = "process" /\ hasContainer /\ signal \notin known
  BY DEF Unknown
<1>2. signal \in Signals
  BY <1>1 DEF LoopInv, StrayFits
<1>3. srv[signal] = None
  BY <1>1, <1>2 DEF LoopInv, FormatsAgree
<1> QED BY <1>1, <1>2, <1>3 DEF LoopInv, StrayFits

(* An unknown signal: one byte too much is counted and buffered. *)
LEMMA ProcessUnknownInv == ASSUME LoopInv, ProcessUnknown PROVE LoopInv'
<1>1. /\ pc = "process" /\ pc' = "data" /\ hasContainer /\ signal \notin known
      /\ Len(buf) < RecvBuffer
      /\ toProcess' = toProcess + 1 /\ buf' = <<StrayByte>> \o buf
      /\ UNCHANGED <<hasContainer, known, format, signal, size, unread,
                      ended, peerVars>>
  BY DEF ProcessUnknown, Unknown, sigVars
<1>2. /\ toProcess \in Nat /\ unread \in Nat /\ size \in Nat
      /\ buf \in Seq(Int) /\ Len(buf) \in Nat
      /\ RecvBuffer \in Nat /\ toProcess = Len(buf) + unread
  BY <1>1, FormatsAssumption DEF LoopInv, CountersOK, Counted
<1>3. signal \in Signals /\ toProcess <= size
  BY <1>1, UnknownIsStray DEF ProcessUnknown
<1>4. ~ended => Len(buf) = toProcess
  BY <1>1, <1>2 DEF LoopInv, Filled, Lesser
<1>5. buf' \in Seq(Int) /\ Len(buf') = Len(buf) + 1
  BY <1>1, <1>2 DEF StrayByte
<1>6. PlacesOK' /\ FormatsAgree'
  BY <1>1, DataKeepsFormats
<1>7. CountersOK' /\ Counted' /\ Room'
  BY <1>1, <1>2, <1>4, <1>5 DEF CountersOK, Counted, Room
<1>8. StrayFits'
  <2>1. toProcess' <= size \/ toProcess' = size + 1
    BY <1>1, <1>2, <1>3
  <2>2. ended \/ Len(buf') = toProcess'
    BY <1>1, <1>2, <1>4, <1>5
  <2> QED BY <1>1, <1>3, <2>1, <2>2 DEF StrayFits
<1>9. Filled' /\ MetaWhole' /\ Framed'
      /\ OverrunOnly'
  BY <1>1 DEF Filled, MetaWhole, Framed, OverrunOnly
<1> QED BY <1>6, <1>7, <1>8, <1>9 DEF LoopInv

(* Or the buffer is left: the message is at least as long as it. *)
LEMMA OverrunInv == ASSUME LoopInv, Overrun PROVE LoopInv'
<1>1. /\ pc = "process" /\ pc' = "overrun" /\ hasContainer
      /\ Unknown /\ Len(buf) = RecvBuffer
      /\ UNCHANGED <<hasContainer, known, format, signal, size, toProcess,
                      buf, unread, ended, peerVars>>
  BY DEF Overrun, Unknown, sigVars, msgVars
<1>2. PlacesOK' /\ FormatsAgree'
  BY <1>1, DataKeepsFormats
<1>3. CountersOK'
  BY <1>1 DEF LoopInv, CountersOK
<1>4. toProcess = Len(buf) + unread /\ unread \in Nat /\ size \in Nat
      /\ Len(buf) \in Nat
  BY <1>1 DEF LoopInv, CountersOK, Counted
<1>5. OverrunOnly'
  <2>1. srv[signal] = None /\ toProcess <= size
    BY <1>1, UnknownIsStray
  <2>2. size >= RecvBuffer
    BY <1>1, <1>4, <2>1
  <2> QED BY <1>1, <2>1, <2>2 DEF OverrunOnly, peerVars
<1>6. Counted' /\ Filled' /\ Room' /\ StrayFits' /\ MetaWhole' /\ Framed'
  BY <1>1 DEF Counted, Filled, Room, StrayFits, MetaWhole, Framed
<1> QED BY <1>2, <1>3, <1>5, <1>6 DEF LoopInv

LEMMA DiscardInv == ASSUME LoopInv, Discard PROVE LoopInv'
<1>1. /\ pc = "process" /\ pc' = "data"
      /\ toProcess' = toProcess - Len(buf) /\ buf' = <<>>
      /\ UNCHANGED <<hasContainer, known, format, signal, size, unread,
                      ended, peerVars>>
  BY DEF Discard, sigVars
<1>2. /\ toProcess \in Nat /\ unread \in Nat /\ size \in Nat
      /\ Len(buf) \in Nat
      /\ RecvBuffer \in Nat \ {0} /\ toProcess = Len(buf) + unread
  BY <1>1, FormatsAssumption DEF LoopInv, CountersOK, Counted
<1>3. buf' \in Seq(Int) /\ Len(buf') = 0
  BY <1>1
<1>4. PlacesOK' /\ FormatsAgree'
  BY <1>1, DataKeepsFormats
<1>5. CountersOK' /\ Counted' /\ Room'
  BY <1>1, <1>2, <1>3 DEF CountersOK, Counted, Room
<1>6. StrayFits'
  <2>1. signal \in Signals /\ (srv[signal] = None => toProcess <= size)
    BY <1>1, <1>2 DEF LoopInv, StrayFits
  <2>2. toProcess' \in Nat /\ toProcess' <= toProcess
    BY <1>1, <1>2
  <2> QED BY <1>1, <1>2, <2>1, <2>2 DEF StrayFits, peerVars
<1>7. Filled' /\ MetaWhole' /\ Framed'
      /\ OverrunOnly'
  BY <1>1 DEF Filled, MetaWhole, Framed, OverrunOnly
<1> QED BY <1>4, <1>5, <1>6, <1>7 DEF LoopInv

-----------------------------------------------------------------------------
(* Meta information, and what happens between two calls of start()         *)

LEMMA SkipMetaInv == ASSUME LoopInv, SkipMeta PROVE LoopInv'
<1> USE DEF SkipMeta, sigVars, msgVars
<1>1. unread = 0
  <2>1. unread = size /\ size \in MetaSizes /\ size <= 4
    BY DEF LoopInv, MetaWhole, TypeSize
  <2>2. size \in Nat /\ size \notin 1 .. 4
    BY <2>1, FormatsAssumption DEF TypeSize
  <2> QED BY <2>1, <2>2
<1>2. PlacesOK' /\ FormatsAgree'
  BY DataKeepsFormats
<1>3. CountersOK'
  BY DEF LoopInv, CountersOK
<1>4. Counted' /\ Filled' /\ Room' /\ StrayFits' /\ MetaWhole' /\ Framed'
      /\ OverrunOnly'
  BY <1>1 DEF Counted, Filled, Room, StrayFits, MetaWhole, Framed, OverrunOnly
<1> QED BY <1>2, <1>3, <1>4 DEF LoopInv

(* Each kind of meta information keeps container and peer in agreement. *)
LEMMA EmplaceKeepsFormats ==
  ASSUME LoopInv, NEW s \in Signals, pc = "meta", pc' = "header", Emplace(s),
         UNCHANGED <<hasContainer, signal, peerVars>>
  PROVE  PlacesOK' /\ FormatsAgree'
<1>1. PlacesOK'
  BY DEF LoopInv, PlacesOK, AllFormats, Emplace, peerVars
<1>2. FormatsAgree'
  BY DEF LoopInv, PlacesOK, FormatsAgree, Emplace, peerVars
<1> QED BY <1>1, <1>2

LEMMA MetaKeepsFormats ==
  ASSUME LoopInv, NEW s \in Signals, pc = "meta", pc' = "header",
         UNCHANGED <<hasContainer, signal>>,
         \/ Subscribe(s) \/ SetTime(s) \/ Unsubscribe(s)
         \/ \E f \in Formats : SetFormat(s, f)
  PROVE  PlacesOK' /\ FormatsAgree'
<1>1. CASE Subscribe(s)
  <2>1. CASE hasContainer
    BY <1>1, <2>1, EmplaceKeepsFormats DEF Subscribe
  <2>2. CASE ~hasContainer
    BY <1>1, <2>2, DataKeepsFormats DEF Subscribe, sigVars
  <2> QED BY <2>1, <2>2
<1>2. ASSUME NEW f \in Formats, SetFormat(s, f) PROVE PlacesOK' /\ FormatsAgree'
  <2>1. PlacesOK'
    BY <1>2 DEF LoopInv, PlacesOK, AllFormats, SetFormat, sigVars
  <2>2. FormatsAgree'
    BY <1>2 DEF LoopInv, PlacesOK, FormatsAgree, SetFormat, sigVars
  <2> QED BY <2>1, <2>2
<1>3. CASE SetTime(s)
  <2>1. PlacesOK'
    BY <1>3 DEF LoopInv, PlacesOK, AllFormats, SetTime, sigVars
  <2>2. FormatsAgree'
    BY <1>3 DEF LoopInv, PlacesOK, FormatsAgree, SetTime, sigVars
  <2> QED BY <2>1, <2>2
<1>4. CASE Unsubscribe(s)
  <2>1. PlacesOK'
    BY <1>4 DEF LoopInv, PlacesOK, AllFormats, Unsubscribe
  <2>2. FormatsAgree'
    BY <1>4 DEF LoopInv, PlacesOK, FormatsAgree, Unsubscribe
  <2> QED BY <2>1, <2>2
<1> QED BY <1>1, <1>2, <1>3, <1>4

LEMMA InformKeepsFormats ==
  ASSUME LoopInv, pc = "meta", pc' = "header",
         UNCHANGED <<hasContainer, signal>>, Inform
  PROVE  PlacesOK' /\ FormatsAgree'
<1>1. CASE UNCHANGED <<sigVars, peerVars>>
  BY <1>1, DataKeepsFormats DEF sigVars
<1>2. CASE ~ UNCHANGED <<sigVars, peerVars>>
  <2>1. signal \in Signals
    BY <1>2 DEF LoopInv, PlacesOK, Inform
  <2>2. \/ Subscribe(signal) \/ SetTime(signal) \/ Unsubscribe(signal)
        \/ \E f \in Formats : SetFormat(signal, f)
    BY <1>2 DEF Inform
  <2> QED BY <2>1, <2>2, MetaKeepsFormats
<1> QED BY <1>1, <1>2

LEMMA ReadMetaInv == ASSUME LoopInv, TakeMeta \/ TornMeta PROVE LoopInv'
<1>1. /\ pc = "meta" /\ pc' = "header"
      /\ UNCHANGED <<hasContainer, signal, size, toProcess, buf>>
      /\ unread' = 0 \/ (unread' = unread /\ ended')
  BY DEF TakeMeta, TornMeta, msgVars
<1>2. PlacesOK' /\ FormatsAgree'
  BY <1>1, InformKeepsFormats DEF TakeMeta, TornMeta
<1>3. CountersOK'
  BY <1>1 DEF LoopInv, CountersOK
<1>4. Counted' /\ Filled' /\ Room' /\ StrayFits' /\ MetaWhole' /\ Framed'
      /\ OverrunOnly'
  BY <1>1 DEF Counted, Filled, Room, StrayFits, MetaWhole, Framed, OverrunOnly
<1> QED BY <1>2, <1>3, <1>4 DEF LoopInv

LEMMA BetweenInv == ASSUME LoopInv, Clear \/ Restart PROVE LoopInv'
<1>1. CASE Clear
  <2> USE <1>1 DEF Clear, msgVars, peerVars
  <2>1. CountersOK' /\ PlacesOK'
    BY DEF LoopInv, CountersOK, PlacesOK
  <2>2. FormatsAgree'
    BY DEF FormatsAgree
  <2>3. Counted' /\ Filled' /\ Room' /\ StrayFits' /\ MetaWhole' /\ Framed'
      /\ OverrunOnly'
    BY DEF Counted, Filled, Room, StrayFits, MetaWhole, Framed, OverrunOnly
  <2> QED BY <2>1, <2>2, <2>3 DEF LoopInv
<1>2. CASE Restart
  <2> USE <1>2 DEF Restart, sigVars
  <2>1. buf' \in Seq(Int) /\ Len(buf') = 0
    OBVIOUS
  <2>2. CountersOK'
    BY <2>1, FormatsAssumption DEF CountersOK
  <2>3. PlacesOK'
    BY DEF LoopInv, PlacesOK
  <2>4. FormatsAgree'
    BY DEF FormatsAgree
  <2>5. Counted' /\ Filled' /\ Room' /\ StrayFits' /\ MetaWhole' /\ Framed'
      /\ OverrunOnly'
    BY DEF Counted, Filled, Room, StrayFits, MetaWhole, Framed, OverrunOnly
  <2> QED BY <2>2, <2>3, <2>4, <2>5 DEF LoopInv
<1> QED BY <1>1, <1>2

LEMMA StutterInv == ASSUME LoopInv, UNCHANGED vars PROVE LoopInv'
<1> USE DEF vars, sigVars, msgVars, peerVars, outVars
<1>1. CountersOK' /\ PlacesOK' /\ FormatsAgree'
  BY DEF LoopInv, CountersOK, PlacesOK, FormatsAgree
<1>2. Counted' /\ Filled' /\ Room'
  BY DEF LoopInv, Counted, Filled, Room
<1>3. StrayFits' /\ MetaWhole' /\ Framed'
      /\ OverrunOnly'
  BY DEF LoopInv, StrayFits, MetaWhole, Framed, OverrunOnly
<1> QED BY <1>1, <1>2, <1>3 DEF LoopInv

-----------------------------------------------------------------------------
(* One step of the loop, whichever, preserves LoopInv. *)
LEMMA StepKeepsLoop == LoopInv /\ [Next]_vars => LoopInv'
<1>1. ASSUME LoopInv, Next PROVE LoopInv'
  <2>1. CASE Data
    BY <1>1, <2>1, DataDoneInv, ReadChunkInv, ReadNothingInv, ProcessInv,
       ProcessUnknownInv, OverrunInv, DiscardInv DEF Data
  <2>2. CASE Meta
    BY <1>1, <2>2, SkipMetaInv, ReadMetaInv DEF Meta
  <2> QED BY <1>1, <2>1, <2>2, HeaderInv, BetweenInv DEF Next
<1> QED BY <1>1, StutterInv

(* LoopInv is inductive: it holds in every state of every behaviour. *)
THEOREM LoopInvariance == Spec => []LoopInv
BY InitInv, StepKeepsLoop, PTL DEF Spec

(* Whatever the sizes of buffer, formats and messages, and whatever made   *)
(* the data loop stop, the loop looks for a header only where one begins.  *)
THEOREM StaysFramed == Spec => []Framed
<1>1. LoopInv => Framed
  BY DEF LoopInv
<1> QED BY LoopInvariance, <1>1, PTL

(* What the loop holds and asks for fits into dataRecvBuffer and the       *)
(* subtraction that yields what to ask for stays positive, except for data *)
(* of a signal that was not announced, as long as the buffer or longer.    *)
THEOREM StaysInBounds == Spec => []InBounds
<1>1. LoopInv => InBounds
  <2> SUFFICES ASSUME LoopInv, pc = "data"
               PROVE  ToRead >= 0 /\ Len(buf) + ToRead <= RecvBuffer
    BY DEF InBounds, LoopInv, OverrunOnly
  <2>1. /\ toProcess \in Nat /\ unread \in Nat /\ RecvBuffer \in Nat
        /\ Len(buf) \in Nat /\ Len(buf) <= RecvBuffer
        /\ toProcess = Len(buf) + unread
    BY FormatsAssumption DEF LoopInv, CountersOK, Counted
  <2> QED BY <2>1 DEF ToRead, Lesser
<1> QED BY LoopInvariance, <1>1, PTL

(* Data are interpreted in the format the peer announced in this session,  *)
(* whatever container an earlier session left behind.                      *)
THEOREM FormatIsCurrent == Spec => []FormatCurrent
<1>1. LoopInv => FormatCurrent
  BY DEF LoopInv, StrayFits, FormatsAgree, FormatCurrent
<1> QED BY LoopInvariance, <1>1, PTL

-----------------------------------------------------------------------------
(* Types                                                                   *)

Deliveries == [stamp : Int, value : Seq(Int)]

OutputOK == delivered \in Seq(Deliveries) /\ raw \in Seq(Int)

ClocksOK ==
  /\ clock \in [Signals -> Nat] /\ sent \in [Signals -> Nat \cup {NotTimed}]
  /\ type \in {"data", "meta", "other"} /\ sessions \in Nat
  /\ ended \in BOOLEAN

LEMMA FormatFields ==
  ASSUME NEW f \in AllFormats
  PROVE  /\ f.pattern \in {"V", "TV", "TB"} /\ f.value \in Nat \ {0}
         /\ f.time \in Nat /\ Tuple(f) \in Nat \ {0} /\ Tuple(f) = f.time + f.value
BY FormatsAssumption DEF AllFormats, Tuple

LEMMA CountIsNat ==
  ASSUME NEW f \in AllFormats, NEW n \in Nat
  PROVE  ValueCount(f, n) \in Nat
<1>1. /\ f.pattern \in {"V", "TV", "TB"} /\ f.value \in Nat \ {0}
      /\ f.time \in Nat /\ Tuple(f) \in Nat \ {0} /\ Tuple(f) = f.time + f.value
  BY FormatFields
<1>2. ASSUME NEW d \in Nat PROVE Lesser(d, MaxValues) \in Nat
  BY FormatsAssumption DEF Lesser
<1>3. CASE f.pattern = "V"
  <2>1. n \div f.value \in Nat
    BY <1>1, Quotients
  <2> QED BY <1>2, <1>3, <2>1 DEF ValueCount
<1>4. CASE f.pattern = "TV"
  BY <1>1, <1>4, Quotients DEF ValueCount
<1>5. CASE f.pattern = "TB"
  <2>1. CASE n < Tuple(f)
    BY <1>5, <2>1 DEF ValueCount
  <2>2. CASE ~(n < Tuple(f))
    <3>1. n - f.time \in Nat
      BY <1>1, <2>2
    <3>2. (n - f.time) \div f.value \in Nat
      BY <1>1, <3>1, Quotients
    <3> QED BY <1>2, <1>5, <2>2, <3>2 DEF ValueCount
  <2> QED BY <2>1, <2>2
<1> QED BY <1>1, <1>3, <1>4, <1>5

(* Every value, and its stamp with TV, lies within what is taken.          *)
LEMMA ValuesLie ==
  ASSUME NEW f \in AllFormats, NEW n \in Nat, NEW i \in 1 .. ValueCount(f, n)
  PROVE  /\ ValueAt(f, i) \in Nat /\ ValueAt(f, i) + f.value <= n
         /\ (i - 1) * Tuple(f) \in Nat /\ (i - 1) * f.value \in Nat
         /\ f.pattern = "TV" => (i - 1) * Tuple(f) < n
         /\ n >= 1
<1>1. /\ f.pattern \in {"V", "TV", "TB"} /\ f.value \in Nat \ {0}
      /\ f.time \in Nat /\ Tuple(f) \in Nat \ {0} /\ Tuple(f) = f.time + f.value
  BY FormatFields
<1> DEFINE c == ValueCount(f, n)
           j == i - 1
<1>2. c \in Nat /\ i \in 1 .. c
  BY CountIsNat
<1> HIDE DEF c
<1>3. j \in Nat /\ i \in Nat /\ i = j + 1 /\ i <= c
  BY <1>2
<1> HIDE DEF j
<1>4. ASSUME NEW v \in Nat
      PROVE  j * v \in Nat /\ i * v \in Nat /\ c * v \in Nat
             /\ i * v = j * v + v /\ i * v <= c * v
  <2>1. j * v \in Nat /\ i * v \in Nat /\ c * v \in Nat /\ i * v <= c * v
    BY <1>2, <1>3, <1>4, Products
  <2>2. i * v = j * v + v
    BY <1>3, <1>4, SMTT(30)
  <2> QED BY <2>1, <2>2
<1>5. Taken(f, n) \in 0 .. n
  BY TakenFits
<1> DEFINE jt == j * Tuple(f)
           jv == j * f.value
           ct == c * Tuple(f)
           cv == c * f.value
<1>6. jt \in Nat /\ ct \in Nat /\ jt + Tuple(f) <= ct
  BY <1>1, <1>4
<1>7. jv \in Nat /\ cv \in Nat /\ jv + f.value <= cv
  BY <1>1, <1>4
<1>8. (i - 1) * Tuple(f) = jt /\ (i - 1) * f.value = jv
  BY DEF j
<1>9. /\ ValueAt(f, i) \in Nat /\ ValueAt(f, i) + f.value <= n
      /\ f.pattern = "TV" => jt < n
      /\ n >= 1
  <2>1. CASE f.pattern = "V"
    <3>1. ValueAt(f, i) = jv /\ Taken(f, n) = cv
      BY <2>1 DEF ValueAt, Taken, c, j
    <3> HIDE DEF jt, jv, ct, cv
    <3> QED BY <1>1, <1>5, <1>7, <2>1, <3>1
  <2>2. CASE f.pattern = "TV"
    <3>1. ValueAt(f, i) = jt + f.time /\ Taken(f, n) = ct
      BY <2>2 DEF ValueAt, Taken, c, j
    <3> HIDE DEF jt, jv, ct, cv
    <3> QED BY <1>1, <1>5, <1>6, <2>2, <3>1
  <2>3. CASE f.pattern = "TB"
    <3>1. ValueAt(f, i) = f.time + jv /\ Taken(f, n) = f.time + cv
      BY <1>2, <1>3, <2>3 DEF ValueAt, Taken, c, j
    <3> HIDE DEF jt, jv, ct, cv
    <3> QED BY <1>1, <1>5, <1>7, <2>3, <3>1
  <2> HIDE DEF jt, jv, ct, cv
  <2> QED BY <1>1, <2>1, <2>2, <2>3
<1> HIDE DEF jt, jv, ct, cv
<1> QED BY <1>6, <1>7, <1>8, <1>9

(* What the callbacks get of a buffer is made of its bytes.                *)
LEMMA ValuesTyped ==
  ASSUME LoopInv, ClocksOK, signal \in Signals,
         NEW f \in AllFormats
  PROVE  Values(f, ValueCount(f, Len(buf))) \in Seq(Deliveries)
<1> DEFINE c == ValueCount(f, Len(buf))
<1>1. buf \in Seq(Int) /\ Len(buf) \in Nat
  BY DEF LoopInv, CountersOK
<1>2. c \in Nat
  BY <1>1, CountIsNat
<1>3. f.pattern \in {"V", "TV", "TB"} /\ f.value \in Nat \ {0}
  BY FormatFields
<1>4. ASSUME NEW i \in 1 .. c PROVE Values(f, c)[i] \in Deliveries
  <2>1. /\ ValueAt(f, i) \in Nat /\ ValueAt(f, i) + f.value <= Len(buf)
        /\ (i - 1) * Tuple(f) \in Nat
        /\ f.pattern = "TV" => (i - 1) * Tuple(f) < Len(buf)
        /\ Len(buf) >= 1
    BY <1>1, ValuesLie
  <2>2. ValueBytes(f, i) \in Seq(Int)
    BY <1>1, <1>3, <2>1 DEF ValueBytes
  <2> DEFINE stamp == CASE f.pattern = "V"  -> clock[signal] + c
                        [] f.pattern = "TV" -> buf[(i - 1) * Tuple(f) + 1]
                        [] f.pattern = "TB" -> buf[1]
  <2>3. stamp \in Int
    <3>1. CASE f.pattern = "V"
      <4>1. clock[signal] + c \in Int
        BY <1>2 DEF ClocksOK
      <4>2. stamp = clock[signal] + c
        BY <3>1
      <4> QED BY <4>1, <4>2
    <3>2. CASE f.pattern = "TV"
      <4> DEFINE k == (i - 1) * Tuple(f)
      <4>1. k + 1 \in 1 .. Len(buf)
        BY <1>1, <2>1, <3>2
      <4>2. stamp = buf[k + 1]
        BY <3>2
      <4> HIDE DEF k, stamp
      <4> QED BY <1>1, <4>1, <4>2
    <3>3. CASE f.pattern = "TB"
      <4>1. buf[1] \in Int
        BY <1>1, <2>1
      <4>2. stamp = buf[1]
        BY <3>3
      <4> QED BY <4>1, <4>2
    <3> QED BY <1>3, <3>1, <3>2, <3>3
  <2>4. Values(f, c)[i] = [value |-> ValueBytes(f, i), stamp |-> stamp]
    BY DEF Values
  <2>5. ASSUME NEW x \in Int, NEW y \in Seq(Int)
        PROVE  [value |-> y, stamp |-> x] \in Deliveries
    BY DEF Deliveries
  <2> HIDE DEF stamp, c
  <2> QED BY <2>2, <2>3, <2>4, <2>5
<1>5. Values(f, c) = [i \in 1 .. c |-> Values(f, c)[i]]
  BY DEF Values
<1> HIDE DEF c
<1> QED BY <1>2, <1>4, <1>5 DEF c

LEMMA RawTyped ==
  ASSUME LoopInv, NEW f \in AllFormats
  PROVE  RawBytes(f, ValueCount(f, Len(buf))) \in Seq(Int)
<1> DEFINE c == ValueCount(f, Len(buf))
<1>1. buf \in Seq(Int) /\ Len(buf) \in Nat
  BY DEF LoopInv, CountersOK
<1>2. c \in Nat
  BY <1>1, CountIsNat
<1>3. /\ f.pattern \in {"V", "TV", "TB"} /\ f.value \in Nat \ {0}
      /\ f.time \in Nat /\ Tuple(f) \in Nat \ {0}
  BY FormatFields
<1>4. CASE c = 0
  <2>1. RawBytes(f, c) = <<>>
    BY <1>4 DEF RawBytes
  <2> QED BY <2>1
<1>5. CASE c # 0 /\ f.pattern = "V"
  <2>1. RawBytes(f, c) = buf
    BY <1>5 DEF RawBytes
  <2> QED BY <1>1, <2>1
<1>6. CASE c # 0 /\ f.pattern = "TB"
  <2>1. RawBytes(f, c) = SubSeq(buf, 1, Len(buf) - f.time)
    BY <1>6 DEF RawBytes
  <2>2. Len(buf) - f.time \in 0 - f.time .. Len(buf)
    BY <1>1, <1>3
  <2> QED BY <1>1, <1>3, <2>1, <2>2
<1>7. CASE c # 0 /\ f.pattern = "TV"
  <2> DEFINE m == c * f.value
             at(k) == ValueAt(f, (k - 1) \div f.value + 1) + ((k - 1) % f.value) + 1
  <2>1. m \in Nat
    BY <1>2, <1>3, Products
  <2>2. RawBytes(f, c) = [k \in 1 .. m |-> buf[at(k)]]
    BY <1>7 DEF RawBytes
  <2>3. ASSUME NEW k \in 1 .. m PROVE at(k) \in 1 .. Len(buf)
    <3> DEFINE q == (k - 1) \div f.value
               r == (k - 1) % f.value
    <3>1. k - 1 \in Nat /\ k - 1 < m
      <4> HIDE DEF m
      <4> QED BY <2>1
    <3>2. q \in Nat /\ q * f.value \in Nat /\ q * f.value <= k - 1
      <4>1. k - 1 \in Nat
        BY <3>1
      <4>2. q \in Nat /\ q * f.value <= k - 1
        BY <1>3, <4>1, Quotients
      <4> HIDE DEF q
      <4>3. q * f.value \in Nat
        BY <1>3, <4>2, Products
      <4> QED BY <4>2, <4>3
    <3>3. r \in 0 .. f.value - 1
      <4> HIDE DEF m
      <4> QED BY <1>3, <3>1
    <3> HIDE DEF q, r
    <3>4. c <= q => m <= q * f.value
      BY <1>2, <1>3, <3>2, Products
    <3>5. q + 1 \in 1 .. c
      <4> DEFINE p == q * f.value
      <4>1. p \in Nat /\ p <= k - 1 /\ (c <= q => m <= p)
        BY <3>2, <3>4
      <4> HIDE DEF p, m
      <4> QED BY <1>2, <2>1, <3>1, <3>2, <4>1
    <3>6. ValueAt(f, q + 1) \in Nat /\ ValueAt(f, q + 1) + f.value <= Len(buf)
      BY <1>1, <3>5, ValuesLie
    <3>7. at(k) = ValueAt(f, q + 1) + r + 1
      BY DEF q, r
    <3> HIDE DEF at
    <3> QED BY <1>1, <1>3, <3>3, <3>6, <3>7
  <2> HIDE DEF m, at
  <2>4. [k \in 1 .. m |-> buf[at(k)]] \in Seq(Int)
    BY <1>1, <2>1, <2>3
  <2> QED BY <2>2, <2>4
<1> QED BY <1>3, <1>4, <1>5, <1>6, <1>7

TypeInv == LoopInv /\ ClocksOK /\ OutputOK

LEMMA InitTypes == Init => ClocksOK /\ OutputOK
<1> SUFFICES ASSUME Init PROVE ClocksOK /\ OutputOK
  OBVIOUS
<1>1. ClocksOK
  BY DEF Init, ClocksOK
<1>2. OutputOK
  BY DEF Init, OutputOK
<1> QED BY <1>1, <1>2

LEMMA HeaderTypes == ASSUME TypeInv, Header PROVE ClocksOK' /\ OutputOK'
<1>1. ASSUME NEW t \in {"data", "meta", "other"}, NEW s, NEW n, NewMessage(t, s, n)
      PROVE  /\ OutputOK' /\ type' = t
             /\ UNCHANGED <<sigVars, srv, sessions, hasContainer, ended>>
  BY <1>1 DEF NewMessage, OutputOK
<1>2. ASSUME NEW f \in Formats, NEW s \in Signals, NEW n \in DataSizes[f],
             DataHeader(s, n)
      PROVE  ClocksOK' /\ OutputOK'
  <2>1. n \in Nat
    BY FormatsAssumption
  <2>2. OutputOK' /\ type' = "data" /\ UNCHANGED <<clock, sessions, ended>>
    BY <1>1, <1>2 DEF DataHeader, sigVars
  <2>3. sent' \in [Signals -> Nat \cup {NotTimed}]
    <3>1. CASE srv[s].pattern = "V"
      <4>1. srv[s] \in AllFormats
        BY <1>2 DEF DataHeader, TypeInv, LoopInv, PlacesOK, AllFormats
      <4>2. n \div srv[s].value \in Nat
        BY <2>1, <4>1, FormatFields, Quotients
      <4> DEFINE d == n \div srv[s].value
      <4>3. sent[s] \in Nat /\ sent' = [sent EXCEPT ![s] = sent[s] + d]
        BY <1>2, <3>1 DEF DataHeader, TypeInv, ClocksOK
      <4>4. sent \in [Signals -> Nat \cup {NotTimed}]
        BY DEF TypeInv, ClocksOK
      <4> HIDE DEF d
      <4>5. sent[s] + d \in Nat
        BY <4>2, <4>3 DEF d
      <4> QED BY <4>3, <4>4, <4>5
    <3>2. CASE srv[s].pattern # "V"
      BY <1>2, <3>2 DEF DataHeader, TypeInv, ClocksOK
    <3> QED BY <3>1, <3>2
  <2> QED BY <2>2, <2>3 DEF TypeInv, ClocksOK
<1>3. ASSUME NEW t \in {"data", "meta", "other"}, NEW s, NEW n,
             NewMessage(t, s, n), UNCHANGED sent
      PROVE  ClocksOK' /\ OutputOK'
  BY <1>1, <1>3 DEF TypeInv, ClocksOK, sigVars
<1>4. CASE HeaderFails
  BY <1>4 DEF HeaderFails, TypeInv, ClocksOK, OutputOK, sigVars, msgVars,
              peerVars, outVars
<1> QED BY <1>2, <1>3, <1>4 DEF Header, Message, StrayDataHeader,
                                   MetaHeader, OtherHeader

LEMMA ProcessTypes == ASSUME TypeInv, Process PROVE ClocksOK' /\ OutputOK'
<1> DEFINE f == format[signal]
           c == ValueCount(f, Len(buf))
<1>1. /\ delivered' = delivered \o Values(f, c)
      /\ raw' = raw \o RawBytes(f, c)
      /\ clock' = [clock EXCEPT ![signal] = clock[signal] + Ticks(f, c)]
      /\ UNCHANGED <<type, sent, sessions, ended>>
      /\ pc = "process" /\ signal \in known
  BY DEF Process, peerVars
<1>2. LoopInv /\ ClocksOK /\ OutputOK
  BY DEF TypeInv
<1>3. f \in AllFormats /\ Len(buf) \in Nat /\ signal \in Signals
  BY <1>1, <1>2 DEF LoopInv, PlacesOK, CountersOK
<1>4. OutputOK'
  <2>1. Values(f, c) \in Seq(Deliveries)
    BY <1>2, <1>3, ValuesTyped
  <2>2. RawBytes(f, c) \in Seq(Int)
    BY <1>2, <1>3, RawTyped
  <2> HIDE DEF c, f
  <2> QED BY <1>1, <1>2, <2>1, <2>2 DEF OutputOK
<1>5. c \in Nat
  BY <1>3, CountIsNat
<1>6. ClocksOK'
  <2> HIDE DEF c, f
  <2>1. Ticks(f, c) \in Nat
    BY <1>5 DEF Ticks
  <2> DEFINE d == Ticks(f, c)
  <2>2. d \in Nat /\ clock' = [clock EXCEPT ![signal] = clock[signal] + d]
    BY <1>1, <2>1
  <2> HIDE DEF d
  <2>3. clock' \in [Signals -> Nat]
    BY <1>2, <1>3, <2>2 DEF ClocksOK
  <2> QED BY <1>1, <1>2, <2>3 DEF ClocksOK
<1> QED BY <1>4, <1>6

LEMMA DataTypes == ASSUME TypeInv, Data PROVE ClocksOK' /\ OutputOK'
<1>1. ASSUME UNCHANGED <<clock, type, sent, sessions, outVars>>,
             ended' \in BOOLEAN
      PROVE  ClocksOK' /\ OutputOK'
  BY <1>1 DEF TypeInv, ClocksOK, OutputOK, outVars
<1>2. ASSUME NEW got, ReadChunk(got) PROVE ClocksOK' /\ OutputOK'
  <2>1. ended' \in BOOLEAN
    BY <1>2 DEF ReadChunk
  <2> QED BY <1>1, <1>2, <2>1 DEF ReadChunk, sigVars, peerVars
<1>3. CASE DataDone \/ ReadNothing \/ ProcessUnknown \/ Overrun \/ Discard
  <2>1. ended' \in BOOLEAN
    BY <1>3 DEF DataDone, ReadNothing, ProcessUnknown, Overrun, Discard, TypeInv,
                ClocksOK
  <2> QED BY <1>1, <1>3, <2>1 DEF DataDone, ReadNothing, ProcessUnknown, Overrun,
                                 Discard, sigVars, msgVars, peerVars
<1> QED BY <1>2, <1>3, ProcessTypes DEF Data

LEMMA MetaTypes == ASSUME TypeInv, Meta PROVE ClocksOK' /\ OutputOK'
<1>1. /\ clock \in [Signals -> Nat] /\ sent \in [Signals -> Nat \cup {NotTimed}]
      /\ signal # 0 => signal \in Signals
  BY DEF TypeInv, ClocksOK, LoopInv, PlacesOK
<1>2. UNCHANGED <<type, sessions, outVars>> /\ ended' \in BOOLEAN
  BY DEF Meta, SkipMeta, TakeMeta, TornMeta, msgVars, TypeInv, ClocksOK
<1>3. ASSUME NEW s \in Signals, Emplace(s) PROVE clock' \in [Signals -> Nat]
  BY <1>1, <1>3 DEF Emplace
<1>4. clock' \in [Signals -> Nat] /\ sent' \in [Signals -> Nat \cup {NotTimed}]
  <2>1. CASE SkipMeta
    BY <1>1, <2>1 DEF SkipMeta, sigVars, peerVars
  <2>2. CASE TakeMeta \/ TornMeta
    <3>1. CASE UNCHANGED <<sigVars, peerVars>>
      BY <1>1, <3>1 DEF sigVars, peerVars
    <3>2. CASE signal # 0 /\ Subscribe(signal)
      BY <1>1, <1>3, <3>2 DEF Subscribe, sigVars, peerVars
    <3>3. CASE signal # 0 /\ \E f \in Formats : SetFormat(signal, f)
      BY <1>1, <3>3 DEF SetFormat, sigVars
    <3>4. CASE signal # 0 /\ SetTime(signal)
      BY <1>1, <3>4 DEF SetTime, sigVars
    <3>5. CASE signal # 0 /\ Unsubscribe(signal)
      BY <1>1, <3>5 DEF Unsubscribe
    <3> QED BY <2>2, <3>1, <3>2, <3>3, <3>4, <3>5 DEF TakeMeta, TornMeta, Inform
  <2> QED BY <2>1, <2>2 DEF Meta
<1> QED BY <1>2, <1>4 DEF TypeInv, ClocksOK, OutputOK, outVars

LEMMA OtherTypes ==
  ASSUME TypeInv, Clear \/ Restart \/ UNCHANGED vars
  PROVE  ClocksOK' /\ OutputOK'
<1>1. ClocksOK'
  <2>1. CASE Restart
    <3>1. /\ sent' = [s \in Signals |-> NotTimed] /\ clock' = clock
          /\ type' = "other" /\ sessions' = sessions + 1 /\ ended' = FALSE
      BY <2>1 DEF Restart, sigVars
    <3>2. sent' \in [Signals -> Nat \cup {NotTimed}]
      BY <3>1
    <3>3. clock' \in [Signals -> Nat] /\ sessions' \in Nat
      BY <3>1 DEF TypeInv, ClocksOK
    <3> QED BY <3>1, <3>2, <3>3 DEF ClocksOK
  <2>2. CASE Clear \/ UNCHANGED vars
    BY <2>2 DEF Clear, vars, sigVars, msgVars, peerVars, TypeInv, ClocksOK
  <2> QED BY <2>1, <2>2
<1>2. OutputOK'
  <2>1. CASE Restart
    <3>1. delivered' = <<>> /\ raw' = <<>>
      BY <2>1 DEF Restart
    <3> QED BY <3>1 DEF OutputOK
  <2>2. CASE Clear \/ UNCHANGED vars
    <3>1. UNCHANGED <<delivered, raw>>
      BY <2>2 DEF Clear, vars, outVars
    <3> QED BY <3>1 DEF TypeInv, OutputOK
  <2> QED BY <2>1, <2>2
<1> QED BY <1>1, <1>2

LEMMA StepKeepsTypes == ASSUME TypeInv, [Next]_vars PROVE TypeInv'
<1>1. LoopInv'
  BY StepKeepsLoop DEF TypeInv
<1>2. ClocksOK' /\ OutputOK'
  BY HeaderTypes, DataTypes, MetaTypes, OtherTypes DEF Next
<1> QED BY <1>1, <1>2 DEF TypeInv

LEMMA TypesImplied == TypeInv => TypeOK
<1> SUFFICES ASSUME TypeInv PROVE TypeOK
  OBVIOUS
<1>1. /\ pc \in {"header", "data", "process", "meta", "stopped", "overrun"}
      /\ hasContainer \in BOOLEAN /\ signal \in Signals \cup {0}
      /\ known \subseteq Signals /\ srv \in [Signals -> Formats \cup {None}]
      /\ format \in [Signals -> Formats \cup {DefaultFormat}]
  BY DEF TypeInv, LoopInv, PlacesOK, AllFormats
<1>2. ended \in BOOLEAN
  BY DEF TypeInv, ClocksOK
<1> QED BY <1>1, <1>2 DEF TypeInv, LoopInv, CountersOK, ClocksOK, OutputOK,
                          Deliveries, TypeOK

(* TypeInv, the loop's invariant with the types of clocks and output, is   *)
(* inductive; the types alone are not, for what is delivered depends on    *)
(* what LoopInv says of the buffer.                                        *)
THEOREM TypeInvariance == Spec => []TypeInv
<1>1. Init => TypeInv
  BY InitInv, InitTypes DEF TypeInv
<1> QED BY <1>1, StepKeepsTypes, PTL DEF Spec

(* Every variable of the loop keeps its type, for all sizes and formats.   *)
THEOREM LoopTypeCorrect == Spec => []TypeOK
BY TypeInvariance, TypesImplied, PTL

LEMMA Remainders ==
  ASSUME NEW a \in Nat, NEW n \in Nat, NEW v \in Nat \ {0}, n <= a
  PROVE  /\ a < v => a \div v = 0
         /\ n \div v <= a \div v
         /\ n - (n \div v) * v < v
BY SMTT(60)

LEMMA QuotientOfRest ==
  ASSUME NEW a \in Nat, NEW c \in Nat, NEW v \in Nat \ {0}, c * v <= a
  PROVE  (a - c * v) \div v = (a \div v) - c
<1> DEFINE q == a \div v
           p == c * v
           r == a % v
<1>1. q \in Nat /\ r \in 0 .. v - 1 /\ a = q * v + r /\ p \in Nat
  BY SMTT(60)
<1>2. c <= q
  BY SMTT(60)
<1>3. a - p = (q - c) * v + r
  <2> HIDE DEF q, r
  <2> QED BY <1>1, SMTT(60)
<1> DEFINE e == q - c
<1>4. e \in Nat /\ a - p = e * v + r
  BY <1>1, <1>2, <1>3
<1> HIDE DEF e, q, p, r
<1>5. (e * v + r) \div v = e
  BY <1>1, <1>4, SMTT(60)
<1> QED BY <1>4, <1>5 DEF e, q, p

-----------------------------------------------------------------------------
(* The clock                                                               *)

(* No message of pattern V holds more values than one call of              *)
(* processMeasuredData takes.                                              *)
ValuesFit ==
  \A f \in Formats : f.pattern = "V" =>
    \A n \in DataSizes[f] : n \div f.value <= MaxValues

InData == pc \in {"data", "process"}

(* Values of s that were sent and are still to be processed. *)
Pending(s) ==
  IF InData /\ signal = s /\ srv[s].pattern = "V"
  THEN toProcess \div srv[s].value ELSE 0

ClockAgrees ==
  hasContainer /\ ~ended
    => \A s \in Signals :
         sent[s] # NotTimed => s \in known /\ sent[s] = clock[s] + Pending(s)

StrayUnknown == InData /\ hasContainer /\ srv[signal] = None => signal \notin known

(* A call takes all whole values, and leaves less than one. *)
OneCallTakesAll ==
  InData /\ hasContainer /\ ~ended /\ srv[signal].pattern = "V"
    => /\ toProcess \div srv[signal].value <= MaxValues
       /\ pc = "data" => Len(buf) < srv[signal].value

StoppedHasEnded == pc = "stopped" => ended

ClockInv == ClockAgrees /\ StrayUnknown /\ OneCallTakesAll /\ StoppedHasEnded

LEMMA AnnouncedFields ==
  ASSUME TypeInv, NEW s \in Signals, srv[s].pattern = "V"
  PROVE  srv[s] \in Formats /\ srv[s] # None /\ srv[s].value \in Nat \ {0}
<1>1. srv[s] # None
  BY DEF None
<1>2. srv[s] \in Formats
  BY <1>1 DEF TypeInv, LoopInv, PlacesOK
<1> QED BY <1>1, <1>2, FormatFields DEF AllFormats

LEMMA InitClock == Init => ClockInv
BY DEF Init, ClockInv, ClockAgrees, StrayUnknown, OneCallTakesAll,
       StoppedHasEnded, InData

(* When no step of the loop is under way nothing is pending.               *)
LEMMA NothingPending ==
  ASSUME ~InData, NEW s PROVE Pending(s) = 0
BY DEF Pending

LEMMA HeaderClock ==
  ASSUME ValuesFit, TypeInv, ClockInv, Header PROVE ClockInv'
<1>1. ASSUME NEW t \in {"data", "meta", "other"}, NEW s, NEW n, NewMessage(t, s, n)
      PROVE  /\ pc = "header" /\ ~ended /\ ~ended' /\ signal' = s /\ toProcess' = n
             /\ pc' = (IF t = "other" THEN "header" ELSE t) /\ Len(buf') = 0
             /\ UNCHANGED <<hasContainer, known, format, clock, srv>>
  BY <1>1 DEF NewMessage, sigVars
<1>2. ASSUME NEW f \in Formats, NEW s \in Signals, NEW n \in DataSizes[f],
             DataHeader(s, n)
      PROVE  ClockInv'
  <2>1. /\ pc = "header" /\ ~ended /\ ~ended' /\ signal' = s /\ toProcess' = n
        /\ pc' = "data" /\ Len(buf') = 0 /\ srv[s] # None /\ n \in DataSizes[srv[s]]
        /\ UNCHANGED <<hasContainer, known, format, clock, srv>>
    BY <1>1, <1>2 DEF DataHeader
  <2>2. n \in Nat
    BY FormatsAssumption
  <2>3. ASSUME hasContainer, NEW r \in Signals, sent'[r] # NotTimed
        PROVE  r \in known' /\ sent'[r] = clock'[r] + Pending(r)'
    <3>1. Pending(r) = 0
      BY <2>1, NothingPending DEF InData
    <3>2. sent[r] # NotTimed => r \in known /\ sent[r] = clock[r] + 0
      BY <2>1, <2>3, <3>1 DEF ClockInv, ClockAgrees
    <3>3. sent \in [Signals -> Nat \cup {NotTimed}] /\ clock[r] \in Nat
      BY DEF TypeInv, ClocksOK
    <3>4. CASE r = s /\ srv[s].pattern = "V"
      <4> DEFINE d == n \div srv[s].value
      <4>1. d \in Nat
        BY <2>2, <3>4, AnnouncedFields, Quotients
      <4>2. sent[s] # NotTimed /\ sent' = [sent EXCEPT ![s] = sent[s] + d]
        BY <1>2, <3>4 DEF DataHeader
      <4>3. Pending(r)' = d
        BY <2>1, <3>4 DEF Pending, InData
      <4> HIDE DEF d
      <4> QED BY <2>1, <3>2, <3>3, <3>4, <4>1, <4>2, <4>3
    <3>5. CASE ~(r = s /\ srv[s].pattern = "V")
      <4>1. sent'[r] = sent[r]
        BY <1>2, <3>3, <3>5 DEF DataHeader
      <4>2. Pending(r)' = 0
        BY <2>1, <3>5 DEF Pending
      <4> QED BY <2>1, <2>3, <3>2, <4>1, <4>2
    <3> QED BY <3>4, <3>5
  <2>4. ClockAgrees'
    BY <2>1, <2>3 DEF ClockAgrees
  <2>5. StrayUnknown' /\ StoppedHasEnded'
    BY <2>1 DEF StrayUnknown, StoppedHasEnded
  <2>6. OneCallTakesAll'
    <3>1. ASSUME srv[s].pattern = "V"
          PROVE  n \div srv[s].value <= MaxValues /\ 0 < srv[s].value
      BY <2>1, <3>1, AnnouncedFields DEF ValuesFit
    <3> QED BY <2>1, <3>1 DEF OneCallTakesAll
  <2> QED BY <2>4, <2>5, <2>6 DEF ClockInv
<1>3. ASSUME NEW t \in {"data", "meta", "other"}, NEW s \in Signals \cup {0}, NEW n,
             NewMessage(t, s, n), UNCHANGED sent,
             t = "data" => srv[s] = None /\ s \notin known
      PROVE  ClockInv'
  <2>1. /\ pc = "header" /\ ~ended /\ ~ended' /\ signal' = s
        /\ pc' = (IF t = "other" THEN "header" ELSE t)
        /\ UNCHANGED <<hasContainer, known, format, clock, srv, sent>>
    BY <1>1, <1>3
  <2>2. InData' => srv'[s] = None /\ s \notin known'
    BY <1>3, <2>1 DEF InData
  <2>3. ASSUME NEW r PROVE Pending(r) = 0 /\ Pending(r)' = 0
    BY <2>1, <2>2 DEF Pending, InData, None
  <2>4. ClockAgrees'
    BY <2>1, <2>3 DEF ClockInv, ClockAgrees
  <2>5. StrayUnknown' /\ StoppedHasEnded' /\ OneCallTakesAll'
    BY <2>1, <2>2 DEF StrayUnknown, StoppedHasEnded, OneCallTakesAll, None
  <2> QED BY <2>4, <2>5 DEF ClockInv
<1>4. CASE HeaderFails
  BY <1>4 DEF HeaderFails, ClockInv, ClockAgrees, StrayUnknown, OneCallTakesAll,
              StoppedHasEnded, InData
<1>5. CASE \E s \in Signals, n \in StraySizes : StrayDataHeader(s, n)
  BY <1>3, <1>5 DEF StrayDataHeader
<1>6. CASE OtherHeader \/ \E s \in Signals \cup {0}, n \in MetaSizes : MetaHeader(s, n)
  BY <1>3, <1>6 DEF MetaHeader, OtherHeader
<1> QED BY <1>2, <1>4, <1>5, <1>6 DEF Header, Message

LEMMA ReadClock ==
  ASSUME TypeInv, ClockInv, (\E got \in 1 .. RecvBuffer : ReadChunk(got))
  PROVE  ClockInv'
<1>1. /\ pc = "data" /\ pc' = "process" /\ ~ended
      /\ UNCHANGED <<hasContainer, known, clock, srv, sent, signal, toProcess>>
  BY DEF ReadChunk, sigVars, peerVars
<1>2. ASSUME NEW s PROVE Pending(s)' = Pending(s)
  BY <1>1 DEF Pending, InData
<1>3. ClockAgrees'
  BY <1>1, <1>2 DEF ClockInv, ClockAgrees
<1>4. StrayUnknown' /\ StoppedHasEnded' /\ OneCallTakesAll'
  BY <1>1 DEF ClockInv, StrayUnknown, StoppedHasEnded, OneCallTakesAll, InData
<1> QED BY <1>3, <1>4 DEF ClockInv

(* The loop ends: what is left is less than a value.                       *)
LEMMA LeaveClock ==
  ASSUME TypeInv, ClockInv, DataDone \/ ReadNothing PROVE ClockInv'
<1>1. /\ pc = "data" /\ pc' = "header" /\ (~ended' => ~ended)
      /\ UNCHANGED <<hasContainer, known, clock, srv, sent>>
  BY DEF DataDone, ReadNothing, AfterNothing, sigVars, peerVars, TypeInv, ClocksOK
<1>2. ~ended' => toProcess = Len(buf) \/ toProcess = 0
  <2>1. CASE DataDone
    BY <2>1 DEF DataDone
  <2>2. CASE ReadNothing
    <3>1. /\ toProcess \in Nat /\ unread \in Nat /\ Len(buf) \in Nat
          /\ RecvBuffer \in Nat /\ toProcess = Len(buf) + unread
          /\ toProcess > RecvBuffer /\ ~ended => Len(buf) < RecvBuffer
      BY <1>1, FormatsAssumption DEF TypeInv, LoopInv, CountersOK, Counted, Room
    <3>2. ~ended' => ToRead = 0 /\ ~ended
      BY <1>1, <2>2 DEF ReadNothing
    <3> QED BY <3>1, <3>2 DEF ToRead, Lesser
  <2> QED BY <2>1, <2>2
<1>3. ASSUME NEW s \in Signals, hasContainer, ~ended' PROVE Pending(s) = 0
  <2>1. CASE signal = s /\ srv[s].pattern = "V"
    <3>1. srv[s].value \in Nat \ {0} /\ Len(buf) < srv[s].value
      BY <1>1, <1>3, <2>1, AnnouncedFields DEF ClockInv, OneCallTakesAll, InData
    <3>2. toProcess \in Nat /\ toProcess < srv[s].value
      BY <1>2, <1>3, <3>1 DEF TypeInv, LoopInv, CountersOK
    <3>3. toProcess \div srv[s].value = 0
      BY <3>1, <3>2, Remainders
    <3> QED BY <2>1, <3>3 DEF Pending
  <2>2. CASE ~(signal = s /\ srv[s].pattern = "V")
    BY <2>2 DEF Pending
  <2> QED BY <2>1, <2>2
<1>4. ASSUME NEW s PROVE Pending(s)' = 0
  BY <1>1 DEF Pending, InData
<1>5. ClockAgrees'
  BY <1>1, <1>3, <1>4 DEF ClockInv, ClockAgrees
<1>6. StrayUnknown' /\ StoppedHasEnded' /\ OneCallTakesAll'
  BY <1>1 DEF StrayUnknown, StoppedHasEnded, OneCallTakesAll, InData
<1> QED BY <1>5, <1>6 DEF ClockInv

LEMMA ProcessClock == ASSUME TypeInv, ClockInv, Process PROVE ClockInv'
<1> DEFINE f == format[signal]
           c == ValueCount(f, Len(buf))
           n == Taken(f, Len(buf))
<1>1. /\ pc = "process" /\ pc' = "data" /\ hasContainer /\ signal \in known
      /\ clock' = [clock EXCEPT ![signal] = clock[signal] + Ticks(f, c)]
      /\ toProcess' = toProcess - n /\ buf' = SubSeq(buf, n + 1, Len(buf))
      /\ UNCHANGED <<hasContainer, known, format, signal, ended, srv, sent>>
  BY DEF Process, Rest, peerVars
<1>2. signal \in Signals /\ srv[signal] # None /\ f = srv[signal]
      /\ f \in AllFormats
  <2>1. signal \in Signals
    BY <1>1 DEF TypeInv, LoopInv, PlacesOK
  <2>2. srv[signal] # None
    BY <1>1 DEF ClockInv, StrayUnknown, InData
  <2> QED BY <1>1, <2>1, <2>2 DEF TypeInv, LoopInv, FormatsAgree, PlacesOK
<1>3. /\ toProcess \in Nat /\ Len(buf) \in Nat /\ Len(buf) <= toProcess
      /\ buf \in Seq(Int) /\ clock \in [Signals -> Nat]
  BY <1>1 DEF TypeInv, LoopInv, CountersOK, Counted, ClocksOK
<1>4. n \in 0 .. Len(buf)
  BY <1>2, <1>3, TakenFits
<1>5. Len(buf') = Len(buf) - n
  <2> HIDE DEF n
  <2> QED BY <1>1, <1>3, <1>4
<1>6. StrayUnknown' /\ StoppedHasEnded'
  BY <1>1 DEF ClockInv, StrayUnknown, StoppedHasEnded, InData
<1>7. CASE ended
  BY <1>1, <1>6, <1>7 DEF ClockInv, ClockAgrees, OneCallTakesAll
<1>8. CASE ~ended /\ f.pattern = "V"
  <2> DEFINE v == f.value
             a == toProcess \div v
  <2>1. v \in Nat \ {0}
    BY <1>2, FormatFields
  <2>2. a <= MaxValues /\ a \in Nat /\ MaxValues \in Nat
    BY <1>1, <1>2, <1>3, <1>8, <2>1, Quotients, FormatsAssumption
       DEF ClockInv, OneCallTakesAll, InData
  <2>3. Len(buf) \div v \in Nat /\ Len(buf) \div v <= a
    BY <1>3, <2>1, Quotients, Remainders
  <2>4. c = Len(buf) \div v
    <3>1. c = Lesser(Len(buf) \div v, MaxValues)
      BY <1>8 DEF ValueCount
    <3> HIDE DEF a, c, v, f
    <3> QED BY <2>2, <2>3, <3>1 DEF Lesser
  <2>5. n = c * v /\ Ticks(f, c) = c
    BY <1>8 DEF Taken, Ticks
  <2>6. toProcess' \div v = a - c
    <3>1. c \in Nat /\ c * v <= toProcess
      BY <1>3, <1>4, <2>3, <2>4, <2>5
    <3>2. toProcess' = toProcess - c * v
      BY <1>1, <2>5
    <3> HIDE DEF c, v, f
    <3>3. (toProcess - c * v) \div v = a - c
      BY <1>3, <2>1, <3>1, QuotientOfRest
    <3> QED BY <3>2, <3>3
  <2>7. Len(buf') < v
    <3>1. Len(buf) - (Len(buf) \div v) * v < v
      BY <1>3, <2>1, Remainders
    <3> QED BY <1>5, <2>4, <2>5, <3>1
  <2>8. c \in Nat
    BY <2>3, <2>4
  <2> HIDE DEF a, c, n
  <2>9. OneCallTakesAll'
    <3>1. toProcess' \div v <= MaxValues
      <4> HIDE DEF v, f
      <4> QED BY <2>2, <2>6, <2>8
    <3> QED BY <1>1, <1>2, <2>7, <3>1 DEF OneCallTakesAll
  <2>10. Pending(signal) = a /\ Pending(signal)' = a - c
    BY <1>1, <1>2, <1>8, <2>6 DEF Pending, InData, a
  <2>11. ASSUME NEW s \in Signals, sent'[s] # NotTimed
         PROVE  s \in known' /\ sent'[s] = clock'[s] + Pending(s)'
    <3>1. s \in known /\ sent[s] = clock[s] + Pending(s)
      BY <1>1, <1>8, <2>11 DEF ClockInv, ClockAgrees
    <3>2. CASE s = signal
      <4>1. clock'[s] = clock[s] + c /\ clock[s] \in Nat
        BY <1>1, <1>2, <1>3, <2>5, <3>2
      <4> HIDE DEF f
      <4> QED BY <1>1, <2>2, <2>8, <2>10, <3>1, <3>2, <4>1
    <3>3. CASE s # signal
      <4>1. Pending(s) = 0 /\ Pending(s)' = 0
        BY <1>1, <3>3 DEF Pending
      <4> QED BY <1>1, <1>3, <3>1, <3>3, <4>1
    <3> QED BY <3>2, <3>3
  <2>12. ClockAgrees'
    BY <2>11 DEF ClockAgrees
  <2> QED BY <1>6, <2>9, <2>12 DEF ClockInv
<1>9. CASE ~ended /\ f.pattern # "V"
  <2>1. Ticks(f, c) = 0
    BY <1>9 DEF Ticks
  <2>2. clock' = clock
    BY <1>1, <1>2, <1>3, <2>1
  <2>3. ASSUME NEW s PROVE Pending(s) = 0 /\ Pending(s)' = 0
    BY <1>1, <1>2, <1>9 DEF Pending
  <2>4. ClockAgrees'
    BY <1>1, <2>2, <2>3 DEF ClockInv, ClockAgrees
  <2>5. OneCallTakesAll'
    BY <1>1, <1>2, <1>9 DEF OneCallTakesAll
  <2> QED BY <1>6, <2>4, <2>5 DEF ClockInv
<1> QED BY <1>7, <1>8, <1>9

(* Data that nothing is made of.                                           *)
LEMMA DropClock ==
  ASSUME TypeInv, ClockInv, ProcessUnknown \/ Overrun \/ Discard
  PROVE  ClockInv'
<1>1. /\ pc = "process" /\ pc' \in {"data", "overrun"}
      /\ UNCHANGED <<hasContainer, known, clock, srv, sent, signal, ended>>
  BY DEF ProcessUnknown, Overrun, Unknown, Discard, sigVars, msgVars, peerVars
<1>2. hasContainer => srv[signal] = None
  <2>1. signal \in Signals
    BY <1>1 DEF TypeInv, LoopInv, StrayFits
  <2> QED BY <1>1, <2>1 DEF TypeInv, LoopInv, FormatsAgree, ProcessUnknown,
                               Overrun, Unknown, Discard
<1>3. ASSUME NEW s, hasContainer PROVE Pending(s) = 0 /\ Pending(s)' = 0
  BY <1>1, <1>2, <1>3 DEF Pending, None
<1>4. ClockAgrees'
  BY <1>1, <1>3 DEF ClockInv, ClockAgrees
<1>5. StrayUnknown' /\ StoppedHasEnded' /\ OneCallTakesAll'
  BY <1>1, <1>2 DEF ClockInv, StrayUnknown, StoppedHasEnded, OneCallTakesAll,
                    InData, None
<1> QED BY <1>4, <1>5 DEF ClockInv

LEMMA MetaClock == ASSUME TypeInv, ClockInv, Meta PROVE ClockInv'
<1>1. /\ pc = "meta" /\ pc' = "header" /\ UNCHANGED hasContainer
      /\ ~ended' => ~ended
  BY DEF Meta, SkipMeta, TakeMeta, TornMeta
<1>2. ASSUME NEW s PROVE Pending(s) = 0 /\ Pending(s)' = 0
  BY <1>1 DEF Pending, InData
<1>3. /\ clock \in [Signals -> Nat] /\ sent \in [Signals -> Nat \cup {NotTimed}]
      /\ signal # 0 => signal \in Signals
  BY DEF TypeInv, ClocksOK, LoopInv, PlacesOK
<1>4. ASSUME hasContainer, ~ended', NEW s \in Signals, sent'[s] # NotTimed
      PROVE  s \in known' /\ sent'[s] = clock'[s] + 0
  <2>1. sent[s] # NotTimed => s \in known /\ sent[s] = clock[s] + 0
    BY <1>1, <1>2, <1>4 DEF ClockInv, ClockAgrees
  <2>2. CASE UNCHANGED <<sigVars, peerVars>>
    BY <1>4, <2>1, <2>2 DEF sigVars, peerVars
  <2>3. CASE signal # 0 /\ Subscribe(signal)
    BY <1>3, <1>4, <2>1, <2>3 DEF Subscribe, Emplace, peerVars
  <2>4. CASE signal # 0 /\ \E f \in Formats : SetFormat(signal, f)
    BY <1>3, <1>4, <2>1, <2>4 DEF SetFormat
  <2>5. CASE signal # 0 /\ SetTime(signal)
    BY <1>3, <1>4, <2>1, <2>5 DEF SetTime
  <2>6. CASE signal # 0 /\ Unsubscribe(signal)
    BY <1>3, <1>4, <2>1, <2>6 DEF Unsubscribe
  <2>7. CASE SkipMeta
    BY <2>2, <2>7 DEF SkipMeta
  <2>8. CASE TakeMeta
    BY <2>2, <2>3, <2>4, <2>5, <2>6, <2>8 DEF TakeMeta, Inform
  <2> QED BY <1>4, <2>7, <2>8 DEF Meta, TornMeta
<1>5. ClockAgrees'
  BY <1>1, <1>2, <1>4 DEF ClockAgrees
<1>6. StrayUnknown' /\ StoppedHasEnded' /\ OneCallTakesAll'
  BY <1>1 DEF StrayUnknown, StoppedHasEnded, OneCallTakesAll, InData
<1> QED BY <1>5, <1>6 DEF ClockInv

LEMMA OtherClock ==
  ASSUME TypeInv, ClockInv, Clear \/ Restart \/ UNCHANGED vars PROVE ClockInv'
<1>1. CASE Clear
  BY <1>1 DEF Clear, ClockInv, ClockAgrees, StrayUnknown, OneCallTakesAll,
              StoppedHasEnded, InData
<1>2. CASE Restart
  BY <1>2 DEF Restart, ClockInv, ClockAgrees, StrayUnknown, OneCallTakesAll,
              StoppedHasEnded, InData
<1>3. CASE UNCHANGED vars
  <2>1. ASSUME NEW s PROVE Pending(s)' = Pending(s)
    BY <1>3 DEF Pending, InData, vars, msgVars, peerVars
  <2> QED BY <1>3, <2>1 DEF vars, sigVars, msgVars, peerVars, ClockInv, ClockAgrees,
                            StrayUnknown, OneCallTakesAll, StoppedHasEnded, InData
<1> QED BY <1>1, <1>2, <1>3

LEMMA ClockInvariance == ASSUME ValuesFit PROVE Spec => []ClockInv
<1>1. Init => ClockInv
  BY InitClock
<1>2. TypeInv /\ ClockInv /\ [Next]_vars => ClockInv'
  BY HeaderClock, ReadClock, LeaveClock, ProcessClock, DropClock, MetaClock,
     OtherClock DEF Next, Data
<1> QED BY TypeInvariance, <1>1, <1>2, PTL DEF Spec

(* The time of a signal with pattern V advances with the values sent, for  *)
(* every format and buffer size, as long as a message holds no more values *)
(* than one call of processMeasuredData takes.                             *)
THEOREM ClockKeepsStep == ASSUME ValuesFit PROVE Spec => []ClockInStep
<1>1. TypeInv /\ ClockInv => ClockInStep
  <2> SUFFICES ASSUME TypeInv, ClockInv, pc = "header", ~ended, hasContainer,
                      NEW s \in Signals, srv[s].pattern = "V", sent[s] # NotTimed
               PROVE  clock[s] = sent[s]
    BY DEF ClockInStep
  <2>1. Pending(s) = 0
    BY NothingPending DEF InData
  <2> QED BY <2>1 DEF ClockInv, ClockAgrees, TypeInv, ClocksOK
<1> QED BY TypeInvariance, ClockInvariance, <1>1, PTL

-----------------------------------------------------------------------------
(* The order of values                                                     *)

(* A block of pattern TB comes in one chunk. *)
BlocksFit ==
  \A f \in Formats : f.pattern = "TB" =>
    \A n \in DataSizes[f] : n <= RecvBuffer

InLoop == InData /\ hasContainer /\ srv[signal] # None

(* The buffer holds the payload from the first byte not yet processed on. *)
Offsets ==
  InLoop => \A i \in 1 .. Len(buf) : buf[i] = size - toProcess + i - 1

(* That byte is the one behind the values delivered, of one block at most. *)
Position ==
  InLoop =>
    LET f == srv[signal] IN
    /\ f.pattern = "V" => size - toProcess = Len(delivered) * f.value
    /\ f.pattern = "TV" => size - toProcess = Len(delivered) * Tuple(f)
    /\ f.pattern = "TB" => \/ delivered = <<>> /\ toProcess = size /\ size <= RecvBuffer
                           \/ pc = "data" /\ (ended \/ unread = 0)

MetaIsMeta == pc = "meta" => type = "meta"

OrderInv == Offsets /\ Position /\ MetaIsMeta /\ DeliveredInOrder

LEMMA BytesAt ==
  ASSUME NEW b \in Seq(Int), NEW s \in Int,
         \A i \in 1 .. Len(b) : b[i] = s + i - 1,
         NEW p \in Nat, NEW v \in Nat, p + v <= Len(b)
  PROVE  SubSeq(b, p + 1, p + v) = [k \in 1 .. v |-> s + p + k - 1]
<1>1. Len(b) \in Nat
  OBVIOUS
<1>2. SubSeq(b, p + 1, p + v) = [k \in 1 .. v |-> b[p + k]]
  BY <1>1
<1>3. ASSUME NEW k \in 1 .. v PROVE b[p + k] = s + p + k - 1
  BY <1>1, <1>3
<1> QED BY <1>2, <1>3

LEMMA LengthAdds ==
  ASSUME NEW b \in Seq(Int), NEW d \in Seq(Int)
  PROVE  Len(b \o d) = Len(b) + Len(d)
OBVIOUS

LEMMA RestAt ==
  ASSUME NEW b \in Seq(Int), NEW n \in 0 .. Len(b), NEW i \in 1 .. Len(b) - n
  PROVE  SubSeq(b, n + 1, Len(b))[i] = b[n + i]
<1>1. Len(b) \in Nat /\ n \in Nat /\ n <= Len(b)
  OBVIOUS
<1>2. SubSeq(b, n + 1, Len(b)) = [k \in 1 .. Len(b) - n |-> b[n + k]]
  BY <1>1
<1> QED BY <1>2

LEMMA Distributes ==
  ASSUME NEW l \in Nat, NEW j \in Nat, NEW v \in Nat
  PROVE  /\ (l + j) * v = l * v + j * v
         /\ l * v \in Nat /\ j * v \in Nat
BY SMTT(30)

LEMMA ValueMoves ==
  ASSUME NEW f \in AllFormats, NEW l \in Nat, NEW i \in Nat \ {0}
  PROVE  /\ f.pattern = "V" => ValueAt(f, l + i) = l * f.value + ValueAt(f, i)
         /\ f.pattern = "TV" =>
              /\ ValueAt(f, l + i) = l * Tuple(f) + ValueAt(f, i)
              /\ (l + i - 1) * Tuple(f) = l * Tuple(f) + (i - 1) * Tuple(f)
<1> DEFINE j == i - 1
<1>1. j \in Nat /\ l + i - 1 = l + j
  OBVIOUS
<1>2. f.value \in Nat /\ f.time \in Nat /\ Tuple(f) \in Nat
  BY FormatFields
<1>3. /\ (l + j) * f.value = l * f.value + j * f.value
      /\ l * f.value \in Nat /\ j * f.value \in Nat
      /\ (l + j) * Tuple(f) = l * Tuple(f) + j * Tuple(f)
      /\ l * Tuple(f) \in Nat /\ j * Tuple(f) \in Nat
  <2> HIDE DEF j
  <2> QED BY <1>1, <1>2, Distributes
<1>4. CASE f.pattern = "V"
  <2>1. ValueAt(f, l + i) = (l + j) * f.value /\ ValueAt(f, i) = j * f.value
    BY <1>1, <1>4 DEF ValueAt
  <2> QED BY <1>3, <1>4, <2>1
<1>5. CASE f.pattern = "TV"
  <2> DEFINE x == (l + j) * Tuple(f)
             y == l * Tuple(f)
             z == j * Tuple(f)
  <2>1. ValueAt(f, l + i) = x + f.time /\ ValueAt(f, i) = z + f.time
    BY <1>1, <1>5 DEF ValueAt
  <2>2. x = y + z /\ y \in Nat /\ z \in Nat
    BY <1>3
  <2>3. (l + i - 1) * Tuple(f) = x /\ (i - 1) * Tuple(f) = z
    BY <1>1
  <2>4. ValueAt(f, l + i) = y + ValueAt(f, i)
    <3> HIDE DEF x, y, z
    <3> QED BY <1>2, <2>1, <2>2
  <2> QED BY <1>5, <2>2, <2>3, <2>4
<1> QED BY <1>4, <1>5

LEMMA InitOrder == Init => OrderInv
BY DEF Init, OrderInv, Offsets, Position, MetaIsMeta, DeliveredInOrder, Subscribed,
       InLoop, InData

LEMMA HeaderOrder ==
  ASSUME BlocksFit, TypeInv, OrderInv, Header PROVE OrderInv'
<1>1. ASSUME NEW t \in {"data", "meta", "other"}, NEW s, NEW n, NewMessage(t, s, n),
             t = "data" /\ srv[s] # None /\ srv[s].pattern = "TB" => n <= RecvBuffer,
             t = "data" /\ srv[s] # None => n \in Nat /\ s \in Signals
      PROVE  OrderInv'
  <2>1. /\ signal' = s /\ toProcess' = n /\ size' = n /\ type' = t
        /\ pc' = (IF t = "other" THEN "header" ELSE t)
        /\ buf' = <<>> /\ delivered' = <<>>
        /\ UNCHANGED <<hasContainer, srv>>
    BY <1>1 DEF NewMessage
  <2>2. Offsets' /\ MetaIsMeta' /\ DeliveredInOrder'
    BY <2>1 DEF Offsets, MetaIsMeta, DeliveredInOrder
  <2>3. ASSUME InLoop' PROVE t = "data" /\ srv[s] # None /\ n \in Nat /\ s \in Signals
    BY <1>1, <2>1, <2>3 DEF InLoop, InData
  <2>4. ASSUME InLoop'
        PROVE  /\ size' - toProcess' = 0 /\ srv'[signal'] = srv[s]
               /\ Len(delivered') * srv[s].value = 0
               /\ Len(delivered') * Tuple(srv[s]) = 0
    <3>1. srv[s] \in AllFormats
      BY <2>3, <2>4 DEF TypeInv, LoopInv, PlacesOK, AllFormats
    <3>2. srv[s].value \in Nat /\ Tuple(srv[s]) \in Nat
      BY <3>1, FormatFields
    <3>3. n \in Nat /\ Len(delivered') = 0
      BY <2>1, <2>3, <2>4
    <3> QED BY <2>1, <3>2, <3>3
  <2>5. Position'
    BY <1>1, <2>1, <2>3, <2>4 DEF Position
  <2> QED BY <2>2, <2>5 DEF OrderInv
<1>2. ASSUME NEW f \in Formats, NEW s \in Signals, NEW n \in DataSizes[f],
             DataHeader(s, n)
      PROVE  OrderInv'
  <2>1. srv[s] # None /\ n \in DataSizes[srv[s]] /\ NewMessage("data", s, n) /\ n \in Nat
    BY <1>2, FormatsAssumption DEF DataHeader
  <2>2. srv[s] \in Formats
    BY <2>1 DEF TypeInv, LoopInv, PlacesOK
  <2> QED BY <1>1, <2>1, <2>2 DEF BlocksFit
<1>3. CASE \E s \in Signals, n \in StraySizes : StrayDataHeader(s, n)
  BY <1>1, <1>3 DEF StrayDataHeader
<1>4. CASE OtherHeader \/ \E s \in Signals \cup {0}, n \in MetaSizes : MetaHeader(s, n)
  BY <1>1, <1>4 DEF MetaHeader, OtherHeader
<1>5. CASE HeaderFails
  BY <1>5 DEF HeaderFails, msgVars, peerVars, outVars, OrderInv, Offsets, Position,
              MetaIsMeta, DeliveredInOrder, Subscribed, InLoop, InData
<1> QED BY <1>2, <1>3, <1>4, <1>5 DEF Header, Message

LEMMA ReadOrder ==
  ASSUME TypeInv, OrderInv, NEW got \in 1 .. RecvBuffer, ReadChunk(got)
  PROVE  OrderInv'
<1> DEFINE chunk == [i \in 1 .. got |-> size - unread + i - 1]
<1>1. /\ pc = "data" /\ pc' = "process" /\ ~ended
      /\ buf' = buf \o chunk /\ got <= unread
      /\ UNCHANGED <<hasContainer, srv, signal, size, toProcess, type, delivered>>
  <2>1. got \in 1 .. Lesser(ToRead, unread)
    BY DEF ReadChunk
  <2>2. unread \in Nat /\ toProcess \in Nat /\ Len(buf) \in Nat /\ RecvBuffer \in Nat
    BY FormatsAssumption DEF TypeInv, LoopInv, CountersOK
  <2>3. got <= unread
    BY <2>1, <2>2 DEF Lesser, ToRead
  <2> QED BY <2>3 DEF ReadChunk, sigVars, peerVars, outVars
<1>2. /\ toProcess \in Nat /\ unread \in Nat /\ size \in Nat /\ buf \in Seq(Int)
      /\ Len(buf) \in Nat /\ toProcess = Len(buf) + unread /\ got \in Nat /\ got >= 1
  BY <1>1, FormatsAssumption DEF TypeInv, LoopInv, CountersOK, Counted
<1>3. InLoop' => InLoop
  BY <1>1 DEF InLoop, InData
<1>4. Offsets'
  <2> SUFFICES ASSUME InLoop', NEW i \in 1 .. Len(buf')
               PROVE  buf'[i] = size - toProcess + i - 1
    BY <1>1 DEF Offsets
  <2>1. \A k \in 1 .. Len(buf) : buf[k] = size - toProcess + k - 1
    BY <1>3 DEF OrderInv, Offsets
  <2>2. chunk \in Seq(Int) /\ Len(chunk) = got
        /\ \A k \in 1 .. got : chunk[k] = size - unread + k - 1
    BY <1>2
  <2> HIDE DEF chunk
  <2>3. Len(buf') = Len(buf) + got /\ i \in 1 .. Len(buf) + got
    <3>1. buf' = buf \o chunk /\ buf \in Seq(Int)
      BY <1>1, <1>2 DEF chunk
    <3>2. chunk \in Seq(Int) /\ Len(chunk) = got
      BY <2>2
    <3>3. Len(buf \o chunk) = Len(buf) + Len(chunk)
      BY <3>1, <3>2, LengthAdds
    <3>4. Len(buf') = Len(buf) + got
      BY <3>1, <3>2, <3>3
    <3> QED BY <3>4
  <2>4. buf'[i] = IF i <= Len(buf) THEN buf[i] ELSE chunk[i - Len(buf)]
    BY <1>1, <1>2, <2>2, <2>3
  <2>5. CASE i <= Len(buf)
    BY <1>2, <2>1, <2>3, <2>4, <2>5
  <2>6. CASE ~(i <= Len(buf))
    <3>1. i - Len(buf) \in 1 .. got
      BY <1>2, <2>3, <2>6
    <3> QED BY <1>2, <2>2, <2>3, <2>4, <2>6, <3>1
  <2> QED BY <2>5, <2>6
<1>5. Position'
  <2>1. ~(ended \/ unread = 0)
    BY <1>1, <1>2
  <2> QED BY <1>1, <1>3, <2>1 DEF OrderInv, Position
<1>6. MetaIsMeta' /\ DeliveredInOrder'
  BY <1>1 DEF OrderInv, MetaIsMeta, DeliveredInOrder, Subscribed
<1> QED BY <1>4, <1>5, <1>6 DEF OrderInv

LEMMA ProcessOrder == ASSUME TypeInv, OrderInv, Process PROVE OrderInv'
<1> DEFINE f == format[signal]
           b == Len(buf)
           c == ValueCount(f, b)
           n == Taken(f, b)
           at == size - toProcess
           l == Len(delivered)
<1>1. /\ pc = "process" /\ pc' = "data" /\ hasContainer /\ signal \in known
      /\ delivered' = delivered \o Values(f, c)
      /\ toProcess' = toProcess - n /\ buf' = SubSeq(buf, n + 1, b)
      /\ UNCHANGED <<hasContainer, signal, size, unread, ended, srv, type>>
  BY DEF Process, Rest, peerVars
<1>2. f \in AllFormats /\ signal \in Signals
  BY <1>1 DEF TypeInv, LoopInv, PlacesOK
<1>3. /\ toProcess \in Nat /\ b \in Nat /\ unread \in Nat /\ size \in Nat
      /\ buf \in Seq(Int) /\ toProcess = b + unread /\ RecvBuffer \in Nat
      /\ delivered \in Seq(Deliveries) /\ l \in Nat
  BY <1>1, FormatsAssumption DEF TypeInv, LoopInv, CountersOK, Counted, OutputOK
<1>4. n \in 0 .. b /\ c \in Nat
  BY <1>2, <1>3, TakenFits, CountIsNat
<1>5. /\ f.pattern \in {"V", "TV", "TB"} /\ f.value \in Nat \ {0}
      /\ f.time \in Nat /\ Tuple(f) \in Nat \ {0}
  BY <1>2, FormatFields
<1>6. srv[signal] # None => f = srv[signal]
  BY <1>1, <1>2 DEF TypeInv, LoopInv, FormatsAgree
<1>7. InLoop' => InLoop
  BY <1>1 DEF InLoop, InData
<1>8. Offsets'
  <2> SUFFICES ASSUME InLoop', NEW i \in 1 .. Len(buf')
               PROVE  buf'[i] = size - toProcess' + i - 1
    BY <1>1 DEF Offsets
  <2>1. \A k \in 1 .. b : buf[k] = at + k - 1
    BY <1>7 DEF OrderInv, Offsets
  <2> HIDE DEF n
  <2>2. Len(buf') = b - n /\ i \in 1 .. b - n
    BY <1>1, <1>3, <1>4
  <2>3. buf'[i] = buf[n + i]
    <3>1. SubSeq(buf, n + 1, Len(buf))[i] = buf[n + i]
      BY <1>3, <1>4, <2>2, RestAt
    <3> QED BY <1>1, <3>1
  <2>4. n + i \in 1 .. b
    BY <1>3, <1>4, <2>2
  <2> QED BY <1>1, <1>3, <1>4, <2>1, <2>2, <2>3, <2>4
<1>9. Values(f, c) \in Seq(Deliveries) /\ Len(Values(f, c)) = c
  <2>1. Values(f, c) \in Seq(Deliveries)
    BY <1>2, ValuesTyped DEF TypeInv
  <2>2. Len(Values(f, c)) = c
    <3> HIDE DEF c
    <3> QED BY <1>4 DEF Values
  <2> QED BY <2>1, <2>2
<1>10. Len(delivered') = l + c
  <2>1. delivered \in Seq(Deliveries) /\ delivered' = delivered \o Values(f, c)
    BY <1>1, <1>3
  <2> HIDE DEF c, f
  <2> QED BY <1>9, <2>1
<1>11. Position'
  <2> SUFFICES ASSUME InLoop' PROVE Position'
    BY DEF Position
  <2>1. srv'[signal'] = f
    BY <1>1, <1>6, <1>7 DEF InLoop
  <2>2. /\ f.pattern = "V" => at = l * f.value
        /\ f.pattern = "TV" => at = l * Tuple(f)
        /\ f.pattern = "TB" => toProcess = size /\ size <= RecvBuffer
    BY <1>1, <1>6, <1>7 DEF OrderInv, Position, InLoop
  <2>3. size - toProcess' = at + n
    BY <1>1, <1>3, <1>4
  <2>4. CASE f.pattern = "V"
    <3>1. n = c * f.value
      BY <2>4 DEF Taken
    <3> HIDE DEF n, c, l, f, at
    <3>2. (l + c) * f.value = l * f.value + c * f.value
      BY <1>3, <1>4, <1>5, Distributes
    <3>3. size' - toProcess' = Len(delivered') * f.value
      BY <1>1, <1>10, <2>2, <2>3, <2>4, <3>1, <3>2
    <3> QED BY <2>1, <2>4, <3>3 DEF Position
  <2>5. CASE f.pattern = "TV"
    <3>1. n = c * Tuple(f)
      BY <2>5 DEF Taken
    <3> HIDE DEF n, c, l, f, at
    <3>2. (l + c) * Tuple(f) = l * Tuple(f) + c * Tuple(f)
      BY <1>3, <1>4, <1>5, Distributes
    <3>3. size' - toProcess' = Len(delivered') * Tuple(f)
      BY <1>1, <1>10, <2>2, <2>3, <2>5, <3>1, <3>2
    <3> QED BY <2>1, <2>5, <3>3 DEF Position
  <2>6. CASE f.pattern = "TB"
    <3>1. ~ended => b = toProcess
      BY <1>1, <1>3, <2>2, <2>6 DEF TypeInv, LoopInv, Filled, Lesser
    <3>2. ended' \/ unread' = 0
      BY <1>1, <1>3, <3>1
    <3> QED BY <1>1, <2>1, <2>6, <3>2 DEF Position
  <2> QED BY <1>5, <2>4, <2>5, <2>6
<1>12. DeliveredInOrder'
  <2> SUFFICES ASSUME Subscribed', NEW i \in DOMAIN delivered'
               PROVE  RightValue(srv[signal], i, delivered'[i])
    BY <1>1 DEF DeliveredInOrder
  <2>1. InLoop /\ Subscribed /\ f = srv[signal]
    BY <1>1, <1>6 DEF Subscribed, InLoop, InData
  <2>2. i \in 1 .. l + c /\ i \in Nat \ {0}
    <3>1. DOMAIN delivered' = 1 .. l + c
      <4>1. delivered' \in Seq(Deliveries)
        <5>1. delivered \in Seq(Deliveries) /\ delivered' = delivered \o Values(f, c)
          BY <1>1, <1>3
        <5> HIDE DEF c, f
        <5> QED BY <1>9, <5>1
      <4> HIDE DEF l, c
      <4> QED BY <1>10, <4>1
    <3> HIDE DEF l, c
    <3> QED BY <1>3, <1>4, <3>1
  <2>3. CASE i <= l
    <3>1. delivered'[i] = delivered[i] /\ i \in DOMAIN delivered
      <4>1. delivered \in Seq(Deliveries) /\ delivered' = delivered \o Values(f, c)
            /\ l \in Nat
        BY <1>1, <1>3
      <4> HIDE DEF c, f
      <4> QED BY <1>9, <2>2, <2>3, <4>1
    <3> QED BY <2>1, <3>1 DEF OrderInv, DeliveredInOrder
  <2>4. CASE ~(i <= l)
    <3> DEFINE j == i - l
               p == ValueAt(f, j)
               v == f.value
    <3>1. j \in 1 .. c /\ j \in Nat \ {0} /\ i = l + j
      <4> HIDE DEF l, c
      <4> QED BY <1>3, <1>4, <2>2, <2>4
    <3>2. delivered'[i] = Values(f, c)[j]
      <4>1. delivered \in Seq(Deliveries) /\ delivered' = delivered \o Values(f, c)
            /\ l \in Nat
        BY <1>1, <1>3
      <4> HIDE DEF c, f
      <4> QED BY <1>9, <2>2, <2>4, <3>1, <4>1
    <3>3. /\ delivered'[i].value = SubSeq(buf, p + 1, p + v)
          /\ f.pattern = "TV" => delivered'[i].stamp = buf[(j - 1) * Tuple(f) + 1]
          /\ f.pattern = "TB" => delivered'[i].stamp = buf[1]
      <4>1. Values(f, c)[j] =
              [value |-> ValueBytes(f, j),
               stamp |-> CASE f.pattern = "V"  -> clock[signal] + c
                           [] f.pattern = "TV" -> buf[(j - 1) * Tuple(f) + 1]
                           [] f.pattern = "TB" -> buf[1]]
        <5> HIDE DEF c, j, f
        <5> QED BY <3>1 DEF Values
      <4> HIDE DEF c, j, f
      <4>2. delivered'[i].value = ValueBytes(f, j)
        BY <3>2, <4>1
      <4>3. ASSUME f.pattern = "TV"
            PROVE  delivered'[i].stamp = buf[(j - 1) * Tuple(f) + 1]
        BY <3>2, <4>1, <4>3
      <4>4. ASSUME f.pattern = "TB" PROVE delivered'[i].stamp = buf[1]
        BY <3>2, <4>1, <4>4
      <4> QED BY <4>2, <4>3, <4>4 DEF ValueBytes, p, v
    <3>4. /\ p \in Nat /\ p + v <= b /\ (j - 1) * Tuple(f) \in Nat
          /\ f.pattern = "TV" => (j - 1) * Tuple(f) < b
          /\ b >= 1
      <4> HIDE DEF j
      <4> QED BY <1>2, <1>3, <3>1, ValuesLie
    <3>5. \A k \in 1 .. b : buf[k] = at + k - 1
      BY <2>1 DEF OrderInv, Offsets
    <3>6. at \in Int
      BY <1>3
    <3>7. delivered'[i].value = [k \in 1 .. v |-> at + p + k - 1]
      <4>1. buf \in Seq(Int) /\ v \in Nat /\ p \in Nat /\ p + v <= Len(buf)
        BY <1>3, <1>5, <3>4
      <4>2. \A k \in 1 .. Len(buf) : buf[k] = at + k - 1
        BY <3>5
      <4> HIDE DEF at, p, v
      <4>3. SubSeq(buf, p + 1, p + v) = [k \in 1 .. v |-> at + p + k - 1]
        BY <3>6, <4>1, <4>2, BytesAt
      <4> QED BY <3>3, <4>3
    <3>8. /\ f.pattern = "V" => at = l * f.value
          /\ f.pattern = "TV" => at = l * Tuple(f)
          /\ f.pattern = "TB" => at = 0 /\ l = 0
      BY <1>1, <1>3, <2>1 DEF OrderInv, Position
    <3>9. at + p = ValueAt(f, i)
          /\ (f.pattern = "TV" => at + (j - 1) * Tuple(f) = (i - 1) * Tuple(f))
      <4>1. /\ f.pattern = "V" => ValueAt(f, l + j) = l * f.value + ValueAt(f, j)
            /\ f.pattern = "TV" =>
                 /\ ValueAt(f, l + j) = l * Tuple(f) + ValueAt(f, j)
                 /\ (l + j - 1) * Tuple(f) = l * Tuple(f) + (j - 1) * Tuple(f)
        <5> HIDE DEF l, j, f
        <5> QED BY <1>2, <1>3, <3>1, ValueMoves
      <4> HIDE DEF l, j, f, at
      <4>2. CASE f.pattern = "V"
        BY <3>1, <3>8, <4>1, <4>2
      <4>3. CASE f.pattern = "TV"
        <5> DEFINE x == l * Tuple(f)
                   y == (j - 1) * Tuple(f)
        <5>1. at = x
          BY <3>8, <4>3
        <5>2. i = l + j
          BY <3>1
        <5>3. ValueAt(f, i) = x + p
          BY <4>1, <4>3, <5>2 DEF p
        <5>4. (i - 1) * Tuple(f) = x + y
          <6>1. (l + j - 1) * Tuple(f) = x + y
            BY <4>1, <4>3
          <6>2. i - 1 = l + j - 1
            <7>1. i \in Nat /\ l \in Nat /\ j \in Nat
              BY <1>3, <2>2, <3>1
            <7> HIDE DEF l, j
            <7> QED BY <5>2, <7>1
          <6> HIDE DEF x, y
          <6> QED BY <6>1, <6>2
        <5> HIDE DEF x, y
        <5> QED BY <5>1, <5>3, <5>4 DEF y
      <4>4. CASE f.pattern = "TB"
        BY <1>3, <3>1, <3>4, <3>8, <4>4
      <4> QED BY <1>5, <4>2, <4>3, <4>4
    <3>10. f.pattern = "TV" => delivered'[i].stamp = (i - 1) * Tuple(f)
      <4> DEFINE q == (j - 1) * Tuple(f)
      <4> SUFFICES ASSUME f.pattern = "TV" PROVE delivered'[i].stamp = at + q
        BY <3>9
      <4>1. delivered'[i].stamp = buf[q + 1] /\ q \in Nat /\ q < b
        BY <3>3, <3>4
      <4> HIDE DEF q, at
      <4> QED BY <1>3, <3>5, <3>6, <4>1
    <3>11. f.pattern = "TB" => delivered'[i].stamp = 0
      BY <1>3, <3>3, <3>4, <3>5, <3>8
    <3>12. delivered'[i].value = [k \in 1 .. v |-> ValueAt(f, i) + k - 1]
      BY <3>7, <3>9
    <3> HIDE DEF f, at, j
    <3> QED BY <2>1, <3>10, <3>11, <3>12 DEF RightValue, v
  <2> QED BY <2>3, <2>4
<1>13. MetaIsMeta'
  BY <1>1 DEF MetaIsMeta
<1> QED BY <1>8, <1>11, <1>12, <1>13 DEF OrderInv

LEMMA DataOrder == ASSUME TypeInv, OrderInv, Data PROVE OrderInv'
<1>1. CASE DataDone \/ ReadNothing
  <2>1. pc' = "header" /\ UNCHANGED <<hasContainer, type, signal, srv, delivered>>
    BY <1>1 DEF DataDone, ReadNothing, AfterNothing, msgVars, peerVars, outVars
  <2> QED BY <2>1 DEF OrderInv, Offsets, Position, MetaIsMeta, DeliveredInOrder,
                      Subscribed, InLoop, InData
<1>2. CASE ProcessUnknown \/ Overrun \/ Discard
  <2>1. /\ pc = "process" /\ pc' \in {"data", "overrun"}
        /\ UNCHANGED <<hasContainer, type, signal, srv, delivered>>
    BY <1>2 DEF ProcessUnknown, Overrun, Unknown, Discard, msgVars, peerVars, outVars
  <2>2. hasContainer => srv[signal] = None
    <3>1. signal \in Signals
      BY <2>1 DEF TypeInv, LoopInv, StrayFits
    <3> QED BY <1>2, <2>1, <3>1 DEF TypeInv, LoopInv, FormatsAgree,
                                     ProcessUnknown, Overrun, Unknown, Discard
  <2> QED BY <2>1, <2>2 DEF OrderInv, Offsets, Position, MetaIsMeta,
                            DeliveredInOrder, Subscribed, InLoop
<1> QED BY <1>1, <1>2, ReadOrder, ProcessOrder DEF Data

LEMMA MetaOrder == ASSUME TypeInv, OrderInv, Meta PROVE OrderInv'
<1>1. pc = "meta" /\ pc' = "header" /\ UNCHANGED type
  BY DEF Meta, SkipMeta, TakeMeta, TornMeta, msgVars
<1> QED BY <1>1 DEF OrderInv, Offsets, Position, MetaIsMeta, DeliveredInOrder,
                    Subscribed, InLoop, InData

LEMMA OtherOrder ==
  ASSUME TypeInv, OrderInv, Clear \/ Restart \/ UNCHANGED vars PROVE OrderInv'
<1>1. CASE Clear
  BY <1>1 DEF Clear, msgVars, peerVars, outVars, OrderInv, Offsets, Position,
              MetaIsMeta, DeliveredInOrder, Subscribed, InLoop, InData
<1>2. CASE Restart
  BY <1>2 DEF Restart, OrderInv, Offsets, Position, MetaIsMeta, DeliveredInOrder,
              Subscribed, InLoop, InData
<1>3. CASE UNCHANGED vars
  BY <1>3 DEF vars, msgVars, peerVars, outVars, OrderInv, Offsets, Position,
              MetaIsMeta, DeliveredInOrder, Subscribed, InLoop, InData
<1> QED BY <1>1, <1>2, <1>3

LEMMA OrderInvariance == ASSUME BlocksFit PROVE Spec => []OrderInv
<1>1. Init => OrderInv
  BY InitOrder
<1>2. TypeInv /\ OrderInv /\ [Next]_vars => OrderInv'
  BY HeaderOrder, DataOrder, MetaOrder, OtherOrder DEF Next
<1> QED BY TypeInvariance, <1>1, <1>2, PTL DEF Spec

(* Values reach the callback in the order of the payload, each from its    *)
(* own bytes and with its own stamp, for all sizes of buffer, formats and  *)
(* messages of patterns V and TV, also where values are dropped, and for   *)
(* blocks of pattern TB that fit into the buffer.                          *)
THEOREM DeliversInOrder == ASSUME BlocksFit PROVE Spec => []DeliveredInOrder
<1>1. OrderInv => DeliveredInOrder
  BY DEF OrderInv
<1> QED BY OrderInvariance, <1>1, PTL

-----------------------------------------------------------------------------
(* Nothing is left out                                                     *)

(* No block of pattern TB holds more values than one call of               *)
(* processMeasuredData takes.                                              *)
BlockValuesFit ==
  \A f \in Formats : f.pattern = "TB" =>
    \A n \in DataSizes[f] : n >= Tuple(f) => (n - f.time) \div f.value <= MaxValues

Sized == InLoop => size \in DataSizes[srv[signal]]

(* Back at the head of the loop less than one value is left in the buffer, *)
(* and a block is either begun or done.  OneCallTakesAll says so of V.     *)
Consumed ==
  pc = "data" /\ InLoop /\ ~ended
    => LET f == srv[signal] IN
       /\ f.pattern = "TV" => Len(buf) < Tuple(f)
       /\ f.pattern = "TB" =>
            \/ delivered = <<>> /\ toProcess = size /\ buf = <<>>
            \/ unread = 0 /\ Len(delivered) = ValuesSent(f, size)

AllInv == Sized /\ Consumed /\ AllDelivered

LEMMA WholeValues ==
  ASSUME NEW l \in Nat, NEW v \in Nat \ {0}, NEW r \in 0 .. v - 1
  PROVE  (l * v + r) \div v = l
BY SMTT(60)

LEMMA HeaderAll == ASSUME TypeInv, AllInv, Header PROVE AllInv'
<1>1. ASSUME NEW t \in {"data", "meta", "other"}, NEW s, NEW n, NewMessage(t, s, n),
             t = "data" /\ srv[s] # None => n \in DataSizes[srv[s]]
      PROVE  AllInv'
  <2>1. /\ signal' = s /\ toProcess' = n /\ size' = n /\ type' = t
        /\ pc' = (IF t = "other" THEN "header" ELSE t)
        /\ buf' = <<>> /\ delivered' = <<>>
        /\ UNCHANGED <<hasContainer, srv>>
    BY <1>1 DEF NewMessage
  <2>2. AllDelivered'
    BY <2>1 DEF AllDelivered, Subscribed
  <2>3. Sized'
    BY <1>1, <2>1 DEF Sized, InLoop, InData
  <2>4. Consumed'
    <3> SUFFICES ASSUME InLoop', srv'[signal'].pattern = "TV"
                 PROVE  0 < Tuple(srv'[signal'])
      BY <2>1 DEF Consumed
    <3>1. t = "data" /\ srv[s] # None /\ srv'[signal'] = srv[s]
      BY <2>1 DEF InLoop, InData
    <3>2. s \in Signals
      BY <1>1, <2>1, <3>1, HeaderInv DEF TypeInv, LoopInv, StrayFits
    <3>3. srv[s] \in AllFormats
      BY <3>1, <3>2 DEF TypeInv, LoopInv, PlacesOK, AllFormats
    <3> QED BY <3>1, <3>3, FormatFields
  <2> QED BY <2>2, <2>3, <2>4 DEF AllInv
<1>2. ASSUME NEW f \in Formats, NEW s \in Signals, NEW n \in DataSizes[f],
             DataHeader(s, n)
      PROVE  AllInv'
  BY <1>1, <1>2 DEF DataHeader
<1>3. CASE \E s \in Signals, n \in StraySizes : StrayDataHeader(s, n)
  BY <1>1, <1>3 DEF StrayDataHeader
<1>4. CASE OtherHeader \/ \E s \in Signals \cup {0}, n \in MetaSizes : MetaHeader(s, n)
  BY <1>1, <1>4 DEF MetaHeader, OtherHeader
<1>5. CASE HeaderFails
  BY <1>5 DEF HeaderFails, AllInv, Sized, Consumed, AllDelivered, InLoop, InData
<1> QED BY <1>2, <1>3, <1>4, <1>5 DEF Header, Message

(* The loop leaves a message that has not been cut off with less than one  *)
(* value unprocessed.                                                      *)
LEMMA LeaveAll ==
  ASSUME TypeInv, ClockInv, OrderInv, AllInv, DataDone \/ ReadNothing
  PROVE  AllInv'
<1>1. /\ pc = "data" /\ pc' = "header"
      /\ toProcess = 0 \/ ended' \/ ToRead = 0
      /\ ~ended' => ~ended
      /\ UNCHANGED <<hasContainer, type, signal, size, srv, delivered>>
  <2>1. CASE DataDone
    <3>1. ended \in BOOLEAN /\ ended' = ended
      BY <2>1 DEF DataDone, TypeInv, ClocksOK
    <3>2. ~ended' => ~ended
      BY <3>1
    <3> QED BY <2>1, <3>2 DEF DataDone, msgVars, peerVars, outVars
  <2>2. CASE ReadNothing
    <3>1. ended \in BOOLEAN /\ ended' \in {ended, TRUE}
      BY <2>2 DEF ReadNothing, TypeInv, ClocksOK
    <3>2. ~ended' => ~ended
      BY <3>1
    <3> QED BY <2>2, <3>2 DEF ReadNothing, AfterNothing, msgVars, peerVars, outVars
  <2> QED BY <2>1, <2>2
<1>2. Sized' /\ Consumed'
  BY <1>1 DEF Sized, Consumed, InLoop, InData
<1>3. ASSUME ~ended', Subscribed'
      PROVE  Len(delivered') = ValuesSent(srv'[signal'], size')
  <2> DEFINE f == srv[signal]
             l == Len(delivered)
  <2>1. InLoop /\ ~ended
    BY <1>1, <1>3 DEF Subscribed, InLoop, InData
  <2>2. signal \in Signals /\ f \in AllFormats
    BY <1>1, <2>1 DEF TypeInv, LoopInv, StrayFits, PlacesOK, AllFormats, InLoop
  <2>3. /\ f.pattern \in {"V", "TV", "TB"} /\ f.value \in Nat \ {0}
        /\ f.time \in Nat /\ Tuple(f) \in Nat \ {0} /\ f.value <= Tuple(f)
        /\ Tuple(f) <= RecvBuffer /\ RecvBuffer \in Nat
    <3>1. Tuple(f) <= RecvBuffer /\ RecvBuffer \in Nat
      BY <2>2, FormatsAssumption DEF AllFormats
    <3> HIDE DEF f
    <3> QED BY <2>2, <3>1, FormatFields
  <2>4. /\ toProcess \in Nat /\ size \in Nat /\ unread \in Nat
        /\ Len(buf) \in Nat /\ toProcess = Len(buf) + unread /\ l \in Nat
    BY <1>1 DEF TypeInv, LoopInv, CountersOK, Counted, OutputOK
  <2>5. toProcess = 0 \/ Lesser(toProcess, RecvBuffer) = Len(buf)
    BY <1>1, <1>3, <2>3, <2>4 DEF ToRead, Lesser
  <2>6. ASSUME NEW u \in Nat \ {0}, u <= RecvBuffer, Len(buf) < u,
               size - toProcess = l * u
        PROVE  size \div u = l
    <3>1. toProcess \in 0 .. u - 1
      BY <2>3, <2>4, <2>5, <2>6 DEF Lesser
    <3>2. l * u \in Nat
      BY <2>4, Distributes
    <3>3. size = l * u + toProcess
      BY <2>4, <2>6, <3>2
    <3> QED BY <2>4, <3>1, <3>3, WholeValues
  <2>7. CASE f.pattern = "V"
    <3>1. Len(buf) < f.value
      BY <1>1, <2>1, <2>7 DEF ClockInv, OneCallTakesAll, InData, InLoop
    <3>2. size - toProcess = l * f.value
      BY <2>1, <2>7 DEF OrderInv, Position
    <3>3. size \div f.value = l
      BY <2>3, <2>6, <3>1, <3>2
    <3> QED BY <1>1, <2>7, <3>3 DEF ValuesSent
  <2>8. CASE f.pattern = "TV"
    <3>1. Len(buf) < Tuple(f)
      BY <1>1, <2>1, <2>8 DEF AllInv, Consumed
    <3>2. size - toProcess = l * Tuple(f)
      BY <2>1, <2>8 DEF OrderInv, Position
    <3>3. size \div Tuple(f) = l
      BY <2>3, <2>6, <3>1, <3>2
    <3> QED BY <1>1, <2>8, <3>3 DEF ValuesSent
  <2>9. CASE f.pattern = "TB"
    <3>1. \/ delivered = <<>> /\ toProcess = size /\ buf = <<>>
          \/ l = ValuesSent(f, size)
      BY <1>1, <2>1, <2>9 DEF AllInv, Consumed
    <3>2. CASE delivered = <<>> /\ toProcess = size /\ buf = <<>>
      <4>1. Len(buf) = 0 /\ l = 0
        BY <3>2
      <4>2. size = 0
        BY <2>3, <2>4, <2>5, <3>2, <4>1, FormatsAssumption DEF Lesser
      <4>3. ValuesSent(f, size) = 0
        BY <2>3, <2>9, <4>2 DEF ValuesSent
      <4> QED BY <1>1, <4>1, <4>3
    <3> QED BY <1>1, <3>1, <3>2
  <2> QED BY <2>3, <2>7, <2>8, <2>9
<1> QED BY <1>1, <1>2, <1>3 DEF AllInv, AllDelivered

LEMMA ProcessAll ==
  ASSUME BlockValuesFit, TypeInv, OrderInv, AllInv, Process PROVE AllInv'
<1> DEFINE f == format[signal]
           b == Len(buf)
           c == ValueCount(f, b)
           n == Taken(f, b)
<1>1. /\ pc = "process" /\ pc' = "data" /\ hasContainer
      /\ delivered' = delivered \o Values(f, c)
      /\ buf' = SubSeq(buf, n + 1, Len(buf))
      /\ UNCHANGED <<hasContainer, signal, size, ended, srv, unread>>
  BY DEF Process, Rest, peerVars
<1>2. Sized' /\ AllDelivered'
  BY <1>1 DEF AllInv, Sized, AllDelivered, InLoop, InData
<1>3. ASSUME InLoop', ~ended'
      PROVE  /\ f.pattern = "TV" => Len(buf') < Tuple(f)
             /\ f.pattern = "TB" =>
                  unread' = 0 /\ Len(delivered') = ValuesSent(f, size)
             /\ srv'[signal'] = f
  <2>1. InLoop /\ ~ended
    BY <1>1, <1>3 DEF InLoop, InData
  <2>2. signal \in Signals /\ f = srv[signal] /\ f \in AllFormats /\ f \in Formats
    BY <1>1, <2>1 DEF TypeInv, LoopInv, StrayFits, FormatsAgree, PlacesOK, AllFormats,
                      InLoop
  <2>3. /\ b \in Nat /\ buf \in Seq(Int) /\ unread \in Nat /\ size \in Nat
        /\ toProcess \in Nat /\ toProcess = b + unread
        /\ b = Lesser(toProcess, RecvBuffer) /\ RecvBuffer \in Nat
    BY <1>1, <2>1, FormatsAssumption
       DEF TypeInv, LoopInv, CountersOK, Counted, Filled
  <2>4. /\ f.value \in Nat \ {0} /\ f.time \in Nat /\ Tuple(f) \in Nat \ {0}
        /\ Tuple(f) = f.time + f.value
    BY <2>2, FormatFields
  <2>5. n \in 0 .. b
    BY <2>2, <2>3, TakenFits
  <2>6. Len(buf') = b - n
    <3> HIDE DEF n
    <3> QED BY <1>1, <2>3, <2>5
  <2>7. CASE f.pattern = "TV"
    <3>1. n = (b \div Tuple(f)) * Tuple(f)
      BY <2>7 DEF Taken, ValueCount
    <3>2. b - (b \div Tuple(f)) * Tuple(f) < Tuple(f)
      BY <2>3, <2>4, Remainders
    <3>3. Len(buf') < Tuple(f)
      BY <2>6, <3>1, <3>2
    <3> QED BY <1>1, <2>2, <2>7, <3>3
  <2>8. CASE f.pattern = "TB"
    <3>1. delivered = <<>> /\ toProcess = size /\ size <= RecvBuffer
      BY <1>1, <2>1, <2>2, <2>8 DEF OrderInv, Position
    <3>2. b = size /\ unread = 0
      BY <2>3, <3>1 DEF Lesser
    <3>3. size >= Tuple(f) => (size - f.time) \div f.value <= MaxValues
      BY <2>1, <2>2, <2>8 DEF AllInv, Sized, BlockValuesFit
    <3>4. c = ValuesSent(f, size)
      <4>1. CASE size < Tuple(f)
        BY <2>8, <3>2, <4>1 DEF ValueCount, ValuesSent
      <4>2. CASE ~(size < Tuple(f))
        <5>1. (size - f.time) \div f.value \in Nat /\ MaxValues \in Nat
          <6>1. size - f.time \in Nat
            BY <2>3, <2>4, <4>2
          <6> QED BY <2>4, <6>1, Quotients, FormatsAssumption
        <5>2. Lesser((size - f.time) \div f.value, MaxValues)
                = (size - f.time) \div f.value
          <6>1. (size - f.time) \div f.value <= MaxValues
            BY <2>3, <2>4, <3>3, <4>2
          <6> QED BY <5>1, <6>1 DEF Lesser
        <5> QED BY <2>8, <3>2, <4>2, <5>2 DEF ValueCount, ValuesSent
      <4> QED BY <4>1, <4>2
    <3>5. c \in Nat
      BY <2>2, <2>3, CountIsNat
    <3>6. Len(delivered') = c
      <4>1. Values(f, c) \in Seq(Deliveries)
        BY <2>2, ValuesTyped DEF TypeInv
      <4>2. Len(Values(f, c)) = c
        <5> HIDE DEF c
        <5> QED BY <3>5 DEF Values
      <4>3. delivered' = Values(f, c)
        BY <1>1, <3>1, <4>1
      <4> QED BY <4>2, <4>3
    <3> QED BY <1>1, <2>2, <2>8, <3>2, <3>4, <3>6
  <2> QED BY <1>1, <2>2, <2>7, <2>8
<1>4. Consumed'
  BY <1>1, <1>3 DEF Consumed
<1> QED BY <1>2, <1>4 DEF AllInv

LEMMA DataAll ==
  ASSUME BlockValuesFit, TypeInv, ClockInv, OrderInv, AllInv, Data PROVE AllInv'
<1>1. ASSUME NEW got, ReadChunk(got) PROVE AllInv'
  <2>1. /\ pc = "data" /\ pc' = "process"
        /\ UNCHANGED <<hasContainer, signal, size, srv>>
    BY <1>1 DEF ReadChunk, sigVars, peerVars
  <2> QED BY <2>1 DEF AllInv, Sized, Consumed, AllDelivered, InLoop, InData
<1>2. CASE ProcessUnknown \/ Overrun \/ Discard
  <2>1. /\ pc = "process" /\ pc' \in {"data", "overrun"}
        /\ UNCHANGED <<hasContainer, signal, srv>>
    BY <1>2 DEF ProcessUnknown, Overrun, Unknown, Discard, msgVars, peerVars
  <2>2. hasContainer => srv[signal] = None
    <3>1. signal \in Signals
      BY <2>1 DEF TypeInv, LoopInv, StrayFits
    <3> QED BY <1>2, <2>1, <3>1 DEF TypeInv, LoopInv, FormatsAgree,
                                     ProcessUnknown, Overrun, Unknown, Discard
  <2> QED BY <2>1, <2>2 DEF AllInv, Sized, Consumed, AllDelivered, InLoop
<1> QED BY <1>1, <1>2, LeaveAll, ProcessAll DEF Data

LEMMA OtherAll ==
  ASSUME TypeInv, OrderInv, AllInv, Meta \/ Clear \/ Restart \/ UNCHANGED vars
  PROVE  AllInv'
<1>1. CASE Meta
  <2>1. pc' = "header" /\ type' = "meta"
    BY <1>1 DEF Meta, SkipMeta, TakeMeta, TornMeta, msgVars, OrderInv, MetaIsMeta
  <2> QED BY <2>1 DEF AllInv, Sized, Consumed, AllDelivered, Subscribed, InLoop, InData
<1>2. CASE Clear
  BY <1>2 DEF Clear, AllInv, Sized, Consumed, AllDelivered, InLoop, InData
<1>3. CASE Restart
  BY <1>3 DEF Restart, AllInv, Sized, Consumed, AllDelivered, Subscribed, InLoop, InData
<1>4. CASE UNCHANGED vars
  BY <1>4 DEF vars, msgVars, peerVars, outVars, AllInv, Sized, Consumed,
              AllDelivered, Subscribed, InLoop, InData
<1> QED BY <1>1, <1>2, <1>3, <1>4

(* Nothing is dropped of a message that has arrived completely, for all    *)
(* sizes of buffer, formats and messages, if no message of V or TB holds   *)
(* more values than one call of processMeasuredData takes, and blocks of   *)
(* TB fit into the buffer.                                                 *)
THEOREM DeliversAll ==
  ASSUME ValuesFit, BlocksFit, BlockValuesFit PROVE Spec => []AllDelivered
<1>1. Init => AllInv
  BY DEF Init, AllInv, Sized, Consumed, AllDelivered, Subscribed, InLoop, InData
<1>2. TypeInv /\ ClockInv /\ OrderInv /\ AllInv /\ [Next]_vars => AllInv'
  BY HeaderAll, DataAll, OtherAll DEF Next
<1>3. AllInv => AllDelivered
  BY DEF AllInv
<1> QED BY TypeInvariance, ClockInvariance, OrderInvariance, <1>1, <1>2, <1>3, PTL
        DEF Spec

-----------------------------------------------------------------------------
(* The raw bytes                                                           *)

(* Values of pattern V are sent whole and fill the buffer without a rest.  *)
ValuesWhole ==
  \A f \in Formats : f.pattern = "V" =>
    RecvBuffer % f.value = 0 /\ \A n \in DataSizes[f] : n % f.value = 0

(* What is left of a message of pattern V are whole values. *)
WholeLeft ==
  InLoop /\ ~ended /\ srv[signal].pattern = "V"
    => toProcess % srv[signal].value = 0

RawInv == WholeLeft /\ MetaIsMeta /\ RawMatches

(* The bytes of a sequence of deliveries. *)
BytesOf(d, v) ==
  [k \in 1 .. Len(d) * v |-> d[(k - 1) \div v + 1].value[((k - 1) % v) + 1]]

LEMMA Division ==
  ASSUME NEW a \in Nat, NEW v \in Nat \ {0}
  PROVE  /\ a \div v \in Nat /\ a % v \in 0 .. v - 1
         /\ (a \div v) * v \in Nat /\ a = (a \div v) * v + (a % v)
<1> DEFINE q == a \div v
           r == a % v
<1>1. q \in Nat /\ r \in 0 .. v - 1 /\ a = q * v + r
  BY SMTT(60)
<1> HIDE DEF q, r
<1>2. q * v \in Nat
  BY <1>1, Products
<1> QED BY <1>1, <1>2 DEF q, r

LEMMA DivisionUnique ==
  ASSUME NEW q \in Nat, NEW v \in Nat \ {0}, NEW r \in 0 .. v - 1
  PROVE  (q * v + r) \div v = q /\ (q * v + r) % v = r
<1> DEFINE a == q * v + r
<1>1. q * v \in Nat /\ a \in Nat /\ r \in Nat
  BY Distributes
<1>2. a \div v = q
  BY WholeValues
<1>3. a = (a \div v) * v + (a % v) /\ a % v \in Nat
  <2> HIDE DEF a
  <2> QED BY <1>1, Division
<1>4. a = q * v + (a % v)
  <2> HIDE DEF a
  <2> QED BY <1>2, <1>3
<1> DEFINE y == q * v
<1>5. a % v = r
  <2>1. a = y + r /\ a = y + (a % v) /\ y \in Nat
    BY <1>1, <1>4
  <2> HIDE DEF a, y
  <2> QED BY <1>1, <1>3, <2>1
<1> QED BY <1>2, <1>5

LEMMA DivisionMoves ==
  ASSUME NEW l \in Nat, NEW a \in Nat, NEW v \in Nat \ {0}
  PROVE  (l * v + a) \div v = l + a \div v /\ (l * v + a) % v = a % v
<1> DEFINE q == a \div v
           r == a % v
<1>1. q \in Nat /\ r \in 0 .. v - 1 /\ a = q * v + r /\ q * v \in Nat
  BY Division
<1> HIDE DEF q, r
<1>2. (l + q) * v = l * v + q * v /\ l * v \in Nat /\ l + q \in Nat
  BY <1>1, Distributes
<1>3. l * v + a = (l + q) * v + r
  BY <1>1, <1>2
<1>4. ((l + q) * v + r) \div v = l + q /\ ((l + q) * v + r) % v = r
  BY <1>1, <1>2, DivisionUnique
<1> QED BY <1>3, <1>4 DEF q, r

LEMMA DivisionBelow ==
  ASSUME NEW l \in Nat, NEW a \in Nat, NEW v \in Nat \ {0}, a < l * v
  PROVE  a \div v < l
<1>1. a \div v \in Nat /\ (a \div v) * v <= a /\ (a \div v) * v \in Nat
  BY Quotients, Products
<1>2. l <= a \div v => l * v <= (a \div v) * v
  BY <1>1, Products
<1> DEFINE x == a \div v
           y == x * v
           z == l * v
<1>3. z \in Nat
  BY Products
<1> HIDE DEF x, y, z
<1> QED BY <1>1, <1>2, <1>3 DEF x, y, z

LEMMA Joined ==
  ASSUME NEW m \in Nat, NEW n \in Nat, NEW x, NEW y,
         x = [k \in 1 .. m |-> x[k]], y = [k \in 1 .. n |-> y[k]]
  PROVE  x \o y = [k \in 1 .. m + n |-> IF k <= m THEN x[k] ELSE y[k - m]]
<1> DEFINE S == {x[k] : k \in 1 .. m} \cup {y[k] : k \in 1 .. n}
<1>1. \A k \in 1 .. m : x[k] \in S
  OBVIOUS
<1>2. \A k \in 1 .. n : y[k] \in S
  OBVIOUS
<1> HIDE DEF S
<1>3. x \in Seq(S) /\ Len(x) = m
  <2>1. x \in [1 .. m -> S]
    BY <1>1
  <2> QED BY <2>1
<1>4. y \in Seq(S) /\ Len(y) = n
  <2>1. y \in [1 .. n -> S]
    BY <1>2
  <2> QED BY <2>1
<1>5. x \o y \in Seq(S) /\ Len(x \o y) = m + n
  BY <1>3, <1>4
<1>6. \A k \in 1 .. m + n : (x \o y)[k] = IF k <= m THEN x[k] ELSE y[k - m]
  BY <1>3, <1>4
<1>7. x \o y = [k \in 1 .. m + n |-> (x \o y)[k]]
  BY <1>5
<1> QED BY <1>6, <1>7

(* The bytes of two sequences one after the other. *)
LEMMA BytesJoin ==
  ASSUME NEW d \in Seq(Deliveries), NEW e \in Seq(Deliveries), NEW v \in Nat \ {0}
  PROVE  BytesOf(d \o e, v) = BytesOf(d, v) \o BytesOf(e, v)
<1> DEFINE l == Len(d)
           j == Len(e)
           lv == l * v
           jv == j * v
           x == BytesOf(d, v)
           y == BytesOf(e, v)
           z == BytesOf(d \o e, v)
<1>1. l \in Nat /\ j \in Nat /\ Len(d \o e) = l + j
  OBVIOUS
<1>2. (l + j) * v = lv + jv /\ lv \in Nat /\ jv \in Nat
  <2> HIDE DEF l, j
  <2> QED BY <1>1, Distributes
<1>3. ASSUME NEW k \in 1 .. lv
      PROVE  (d \o e)[(k - 1) \div v + 1] = d[(k - 1) \div v + 1]
  <2>1. k - 1 \in Nat /\ k - 1 < lv
    <3> HIDE DEF lv
    <3> QED BY <1>2
  <2>2. (k - 1) \div v \in Nat /\ (k - 1) \div v < l
    <3> HIDE DEF l
    <3> QED BY <1>1, <2>1, DivisionBelow, Quotients
  <2> QED BY <1>1, <2>2
<1>4. ASSUME NEW m \in 1 .. jv
      PROVE  /\ (d \o e)[(lv + m - 1) \div v + 1] = e[(m - 1) \div v + 1]
             /\ (lv + m - 1) % v = (m - 1) % v
  <2>1. m - 1 \in Nat /\ m - 1 < jv /\ lv + m - 1 = lv + (m - 1)
    <3> HIDE DEF jv, lv
    <3> QED BY <1>2
  <2> DEFINE q == (m - 1) \div v
  <2>2. q \in Nat /\ q < j
    <3> HIDE DEF j
    <3> QED BY <1>1, <2>1, DivisionBelow, Quotients
  <2>3. (lv + m - 1) \div v = l + q /\ (lv + m - 1) % v = (m - 1) % v
    <3>1. (lv + (m - 1)) \div v = l + q /\ (lv + (m - 1)) % v = (m - 1) % v
      <4> HIDE DEF l
      <4> QED BY <1>1, <2>1, DivisionMoves
    <3> HIDE DEF lv, q, l
    <3> QED BY <2>1, <3>1
  <2>4. (d \o e)[l + q + 1] = e[q + 1]
    <3> HIDE DEF q
    <3> QED BY <1>1, <2>2
  <2> QED BY <2>3, <2>4
<1>5. x = [k \in 1 .. lv |-> d[(k - 1) \div v + 1].value[((k - 1) % v) + 1]]
      /\ y = [k \in 1 .. jv |-> e[(k - 1) \div v + 1].value[((k - 1) % v) + 1]]
      /\ z = [k \in 1 .. lv + jv |->
                (d \o e)[(k - 1) \div v + 1].value[((k - 1) % v) + 1]]
  BY <1>1, <1>2 DEF BytesOf
<1> HIDE DEF x, y, z
<1>6. x \o y = [k \in 1 .. lv + jv |-> IF k <= lv THEN x[k] ELSE y[k - lv]]
  <2> HIDE DEF lv, jv
  <2>1. x = [k \in 1 .. lv |-> x[k]]
    BY <1>5
  <2>2. y = [k \in 1 .. jv |-> y[k]]
    BY <1>5
  <2>3. lv \in Nat /\ jv \in Nat
    BY <1>2
  <2> HIDE DEF x, y
  <2> QED BY <2>1, <2>2, <2>3, Joined
<1>7. ASSUME NEW k \in 1 .. lv + jv
      PROVE  z[k] = IF k <= lv THEN x[k] ELSE y[k - lv]
  <2>1. CASE k <= lv
    <3>1. k \in 1 .. lv
      <4> HIDE DEF lv, jv
      <4> QED BY <1>2, <2>1
    <3>2. z[k] = (d \o e)[(k - 1) \div v + 1].value[((k - 1) % v) + 1]
      <4> HIDE DEF lv, jv
      <4> QED BY <1>5
    <3>3. x[k] = d[(k - 1) \div v + 1].value[((k - 1) % v) + 1]
      <4> HIDE DEF lv, jv
      <4> QED BY <1>5, <3>1
    <3> HIDE DEF lv, jv
    <3> QED BY <1>3, <2>1, <3>1, <3>2, <3>3
  <2>2. CASE ~(k <= lv)
    <3> DEFINE m == k - lv
    <3>1. m \in 1 .. jv /\ k - 1 = lv + m - 1
      <4> HIDE DEF lv, jv
      <4> QED BY <1>2, <2>2
    <3>2. z[k] = (d \o e)[(lv + m - 1) \div v + 1].value[((lv + m - 1) % v) + 1]
      <4> HIDE DEF lv, jv, m
      <4> QED BY <1>5, <3>1
    <3>3. y[m] = e[(m - 1) \div v + 1].value[((m - 1) % v) + 1]
      <4> HIDE DEF lv, jv, m
      <4> QED BY <1>5, <3>1
    <3>4. z[k] = y[m]
      <4> HIDE DEF lv, jv, m
      <4> QED BY <1>4, <3>1, <3>2, <3>3
    <3> QED BY <2>2, <3>4
  <2> HIDE DEF lv, jv
  <2> QED BY <2>1, <2>2
<1> QED
  <2> HIDE DEF lv, jv
  <2> QED BY <1>5, <1>6, <1>7 DEF x, y, z

(* What the raw callback gets of a buffer are the bytes of its values.     *)
LEMMA ChunkMatches ==
  ASSUME LoopInv, NEW f \in AllFormats, f.pattern # "TB",
         NEW c \in Nat, c = ValueCount(f, Len(buf)),
         f.pattern = "V" => Len(buf) = c * f.value
  PROVE  RawBytes(f, c) = BytesOf(Values(f, c), f.value)
<1> DEFINE v == f.value
           m == c * v
           at(k) == ValueAt(f, (k - 1) \div v + 1) + ((k - 1) % v) + 1
<1>1. buf \in Seq(Int) /\ Len(buf) \in Nat
  BY DEF LoopInv, CountersOK
<1>2. f.pattern \in {"V", "TV"} /\ v \in Nat \ {0} /\ m \in Nat
  BY FormatFields, Products
<1>3. ASSUME NEW k \in 1 .. m
      PROVE  /\ k \in Nat /\ k - 1 \in Nat
             /\ (k - 1) \div v \in Nat /\ (k - 1) \div v + 1 \in 1 .. c
             /\ (k - 1) % v \in 0 .. v - 1
             /\ k = ((k - 1) \div v) * v + ((k - 1) % v) + 1
  <2>1. k \in Nat /\ k - 1 \in Nat /\ k - 1 < m
    <3> HIDE DEF m
    <3> QED BY <1>2
  <2> DEFINE q == (k - 1) \div v
             r == (k - 1) % v
  <2>2. /\ q \in Nat /\ r \in 0 .. v - 1 /\ q * v \in Nat
        /\ k - 1 = q * v + r
    BY <1>2, <2>1, Division
  <2>3. q < c
    BY <1>2, <2>1, DivisionBelow
  <2>4. k = q * v + r + 1
    <3> DEFINE y == q * v
    <3>1. y \in Nat /\ r \in Nat /\ k - 1 = y + r
      BY <1>2, <2>2
    <3> HIDE DEF y, r
    <3>2. k = y + r + 1
      BY <2>1, <3>1
    <3> QED BY <3>2 DEF y
  <2> HIDE DEF q
  <2>5. q + 1 \in 1 .. c
    BY <2>2, <2>3
  <2> QED BY <2>1, <2>2, <2>4, <2>5 DEF q
<1>4. ASSUME NEW k \in 1 .. m
      PROVE  /\ Values(f, c)[(k - 1) \div v + 1].value[((k - 1) % v) + 1] = buf[at(k)]
             /\ at(k) \in 1 .. Len(buf)
  <2> DEFINE i == (k - 1) \div v + 1
             r == (k - 1) % v
             p == ValueAt(f, i)
  <2>1. i \in 1 .. c /\ r \in 0 .. v - 1
    BY <1>3
  <2>2. p \in Nat /\ p + v <= Len(buf)
    <3> HIDE DEF i
    <3> QED BY <1>1, <2>1, ValuesLie
  <2>3. Values(f, c)[i].value = SubSeq(buf, p + 1, p + v)
    <3> HIDE DEF i
    <3> QED BY <2>1 DEF Values, ValueBytes
  <2>4. SubSeq(buf, p + 1, p + v)[r + 1] = buf[p + r + 1]
    <3> HIDE DEF p, r, v
    <3>1. SubSeq(buf, p + 1, p + v) = [j \in 1 .. v |-> buf[p + j]]
      BY <1>1, <1>2, <2>2
    <3>2. r + 1 \in 1 .. v /\ p + (r + 1) = p + r + 1
      BY <1>2, <2>1, <2>2
    <3> QED BY <3>1, <3>2
  <2>5. p + r + 1 \in 1 .. Len(buf)
    <3> HIDE DEF p, r, v
    <3> QED BY <1>1, <1>2, <2>1, <2>2
  <2>6. at(k) = p + r + 1
    OBVIOUS
  <2> HIDE DEF at
  <2> QED BY <2>3, <2>4, <2>5, <2>6
<1>5. Len(Values(f, c)) = c
  BY DEF Values
<1>6. BytesOf(Values(f, c), v) = [k \in 1 .. m |-> buf[at(k)]]
  <2>1. BytesOf(Values(f, c), v)
          = [k \in 1 .. m |-> Values(f, c)[(k - 1) \div v + 1].value[((k - 1) % v) + 1]]
    BY <1>5 DEF BytesOf
  <2> HIDE DEF at, m, v
  <2> QED BY <1>4, <2>1
<1>7. CASE c = 0
  <2>1. m = 0
    BY <1>2, <1>7
  <2>2. [k \in 1 .. m |-> buf[at(k)]] = <<>>
    <3> HIDE DEF m, at
    <3> QED BY <2>1
  <2> QED BY <1>6, <1>7, <2>2 DEF RawBytes
<1>8. CASE c # 0 /\ f.pattern = "V"
  <2>1. RawBytes(f, c) = buf
    BY <1>8 DEF RawBytes
  <2>2. Len(buf) = m
    BY <1>8
  <2>3. ASSUME NEW k \in 1 .. m PROVE at(k) = k
    <3>1. ValueAt(f, (k - 1) \div v + 1) = ((k - 1) \div v) * v
      <4> DEFINE q == (k - 1) \div v
      <4>1. q \in Nat /\ (q + 1) - 1 = q
        BY <1>3
      <4>2. ValueAt(f, q + 1) = q * v
        <5> HIDE DEF q
        <5> QED BY <1>8, <4>1 DEF ValueAt
      <4> QED BY <4>2
    <3> QED BY <1>3, <3>1
  <2>4. buf = [k \in 1 .. m |-> buf[k]]
    <3> HIDE DEF m
    <3> QED BY <1>1, <2>2
  <2> HIDE DEF at, m
  <2> QED BY <1>6, <2>1, <2>3, <2>4 DEF v
<1>9. CASE c # 0 /\ f.pattern = "TV"
  <2>1. RawBytes(f, c) = [k \in 1 .. m |-> buf[at(k)]]
    BY <1>9 DEF RawBytes
  <2> QED BY <1>6, <2>1
<1> QED BY <1>2, <1>7, <1>8, <1>9

LEMMA WholeDivides ==
  ASSUME NEW b \in Nat, NEW v \in Nat \ {0}, b % v = 0
  PROVE  b = (b \div v) * v /\ b \div v \in Nat
<1>1. /\ b = (b \div v) * v + (b % v) /\ (b \div v) * v \in Nat
      /\ b \div v \in Nat
  BY Division
<1> DEFINE y == (b \div v) * v
<1> HIDE DEF y
<1>2. b = y
  BY <1>1 DEF y
<1> QED BY <1>1, <1>2 DEF y

LEMMA ProcessRaw ==
  ASSUME ValuesWhole, TypeInv, ClockInv, RawInv, Process PROVE RawInv'
<1> DEFINE f == format[signal]
           b == Len(buf)
           c == ValueCount(f, b)
           n == Taken(f, b)
           v == f.value
<1>1. /\ pc = "process" /\ pc' = "data" /\ hasContainer
      /\ delivered' = delivered \o Values(f, c)
      /\ raw' = raw \o RawBytes(f, c)
      /\ toProcess' = toProcess - n
      /\ UNCHANGED <<hasContainer, signal, size, ended, srv, unread, type>>
  BY DEF Process, peerVars
<1>2. signal \in Signals /\ f \in AllFormats
  BY <1>1 DEF TypeInv, LoopInv, StrayFits, PlacesOK
<1>3. /\ b \in Nat /\ toProcess \in Nat /\ RecvBuffer \in Nat /\ MaxValues \in Nat
      /\ delivered \in Seq(Deliveries)
      /\ v \in Nat \ {0} /\ c \in Nat
  <2>1. b \in Nat
    BY DEF TypeInv, LoopInv, CountersOK
  <2> QED BY <1>2, <2>1, FormatsAssumption, CountIsNat, FormatFields
          DEF TypeInv, LoopInv, CountersOK, OutputOK
<1>4. ASSUME srv[signal] # None, ~ended, f.pattern = "V"
      PROVE  b = c * v /\ toProcess' % v = 0
  <2>1. f = srv[signal] /\ f \in Formats
    BY <1>1, <1>2, <1>4 DEF TypeInv, LoopInv, FormatsAgree, PlacesOK
  <2>2. b = Lesser(toProcess, RecvBuffer)
    BY <1>1, <1>4 DEF TypeInv, LoopInv, Filled
  <2>3. toProcess % v = 0 /\ RecvBuffer % v = 0
    BY <1>1, <1>4, <2>1 DEF RawInv, WholeLeft, InLoop, InData, ValuesWhole
  <2>4. b = (b \div v) * v /\ b \div v <= toProcess \div v
    <3> HIDE DEF b, v
    <3>1. b % v = 0 /\ b <= toProcess
      BY <1>3, <2>2, <2>3 DEF Lesser
    <3>2. b = (b \div v) * v
      BY <1>3, <3>1, WholeDivides
    <3>3. b \div v <= toProcess \div v
      BY <1>3, <3>1, Remainders
    <3> QED BY <3>2, <3>3
  <2>5. toProcess \div v <= MaxValues
    BY <1>1, <1>4, <2>1 DEF ClockInv, OneCallTakesAll, InData
  <2>6. c = b \div v
    <3>1. c = Lesser(b \div v, MaxValues)
      BY <1>4 DEF ValueCount
    <3>2. b \div v \in Nat /\ toProcess \div v \in Nat
      BY <1>3, Quotients
    <3> HIDE DEF c, b, v
    <3> QED BY <1>3, <2>4, <2>5, <3>1, <3>2 DEF Lesser
  <2>7. n = c * v /\ b = c * v
    BY <1>4, <2>4, <2>6 DEF Taken
  <2>8. toProcess' % v = 0
    <3> DEFINE d == toProcess \div v
    <3>1. d \in Nat /\ toProcess = d * v /\ c <= d
      <4>1. d \in Nat /\ toProcess = d * v
        <5> HIDE DEF v
        <5> QED BY <1>3, <2>3, WholeDivides
      <4> QED BY <2>4, <2>6, <4>1
    <3> HIDE DEF c, v, n, d
    <3>2. d - c \in Nat /\ c + (d - c) = d
      BY <1>3, <3>1
    <3>3. d * v = c * v + (d - c) * v /\ c * v \in Nat /\ (d - c) * v \in Nat
      <4> DEFINE e == d - c
      <4> HIDE DEF e
      <4>1. (c + e) * v = c * v + e * v /\ c * v \in Nat /\ e * v \in Nat
        BY <1>3, <3>2, Distributes DEF e
      <4> QED BY <3>2, <4>1 DEF e
    <3>4. toProcess' = (d - c) * v
      <4> DEFINE y == c * v
                 z == (d - c) * v
      <4>1. toProcess = y + z /\ toProcess' = toProcess - y /\ y \in Nat /\ z \in Nat
        BY <1>1, <2>7, <3>1, <3>3
      <4> HIDE DEF y, z
      <4>2. toProcess' = z
        BY <4>1
      <4> QED BY <4>2 DEF z
    <3>5. ((d - c) * v + 0) % v = 0
      BY <1>3, <3>2, DivisionUnique
    <3> QED BY <3>3, <3>4, <3>5
  <2> QED BY <2>7, <2>8
<1>5. WholeLeft'
  <2> SUFFICES ASSUME InLoop', ~ended', srv'[signal'].pattern = "V"
               PROVE  toProcess' % srv'[signal'].value = 0
    BY DEF WholeLeft
  <2>1. srv[signal] # None /\ ~ended /\ f = srv[signal]
    BY <1>1, <1>2 DEF InLoop, TypeInv, LoopInv, FormatsAgree
  <2> QED BY <1>1, <1>4, <2>1
<1>6. RawMatches'
  <2> SUFFICES ASSUME ~ended', Subscribed', srv'[signal'].pattern # "TB"
               PROVE  raw' = BytesOf(delivered', srv[signal].value)
    BY <1>1 DEF RawMatches, BytesDelivered, BytesOf
  <2>1. srv[signal] # None /\ ~ended /\ f = srv[signal] /\ Subscribed
    BY <1>1, <1>2 DEF Subscribed, TypeInv, LoopInv, FormatsAgree
  <2>2. raw = BytesOf(delivered, v)
    BY <1>1, <2>1 DEF RawInv, RawMatches, BytesDelivered, BytesOf
  <2>3. RawBytes(f, c) = BytesOf(Values(f, c), v)
    <3>1. f.pattern = "V" => Len(buf) = c * f.value
      BY <1>4, <2>1
    <3>2. f.pattern # "TB" /\ LoopInv
      BY <1>1, <2>1 DEF TypeInv
    <3> QED BY <1>2, <1>3, <3>1, <3>2, ChunkMatches
  <2>4. Values(f, c) \in Seq(Deliveries)
    BY <1>2, ValuesTyped DEF TypeInv
  <2>5. BytesOf(delivered \o Values(f, c), v)
          = BytesOf(delivered, v) \o BytesOf(Values(f, c), v)
    <3> HIDE DEF c, f, v
    <3> QED BY <1>3, <2>4, BytesJoin
  <2> HIDE DEF c
  <2> QED BY <1>1, <2>1, <2>2, <2>3, <2>5
<1>7. MetaIsMeta'
  BY <1>1 DEF MetaIsMeta
<1> QED BY <1>5, <1>6, <1>7 DEF RawInv

LEMMA HeaderRaw ==
  ASSUME ValuesWhole, TypeInv, RawInv, Header PROVE RawInv'
<1>1. ASSUME NEW t \in {"data", "meta", "other"}, NEW s, NEW n, NewMessage(t, s, n),
             t = "data" /\ srv[s] # None => n \in DataSizes[srv[s]] /\ s \in Signals
      PROVE  RawInv'
  <2>1. /\ signal' = s /\ toProcess' = n
        /\ pc' = (IF t = "other" THEN "header" ELSE t)
        /\ raw' = <<>> /\ delivered' = <<>>
        /\ UNCHANGED <<hasContainer, srv>>
    BY <1>1 DEF NewMessage
  <2>2. WholeLeft'
    <3> SUFFICES ASSUME InLoop', srv'[signal'].pattern = "V"
                 PROVE  toProcess' % srv'[signal'].value = 0
      BY DEF WholeLeft
    <3>1. t = "data" /\ srv[s] # None /\ srv'[signal'] = srv[s]
      BY <2>1 DEF InLoop, InData
    <3>2. srv[s] \in Formats
      BY <1>1, <3>1 DEF TypeInv, LoopInv, PlacesOK
    <3> QED BY <1>1, <2>1, <3>1, <3>2 DEF ValuesWhole
  <2>3. RawMatches'
    <3> SUFFICES ASSUME Subscribed'
                 PROVE  raw' = BytesOf(delivered', srv'[signal'].value)
      BY DEF RawMatches, BytesDelivered, BytesOf
    <3> DEFINE v == srv'[signal'].value
    <3>1. Len(delivered') * v = 0
      <4>1. srv[s] # None /\ t = "data" /\ srv'[signal'] = srv[s]
        BY <1>1, <2>1 DEF Subscribed, NewMessage
      <4>2. srv[s] \in AllFormats
        BY <1>1, <4>1 DEF TypeInv, LoopInv, PlacesOK, AllFormats
      <4>3. v \in Nat
        BY <4>1, <4>2, FormatFields
      <4> HIDE DEF v
      <4> QED BY <2>1, <4>3
    <3> HIDE DEF v
    <3>2. raw' = BytesOf(delivered', v)
      BY <2>1, <3>1 DEF BytesOf
    <3> QED BY <3>2 DEF v
  <2>4. MetaIsMeta'
    BY <1>1, <2>1 DEF MetaIsMeta, NewMessage
  <2> QED BY <2>2, <2>3, <2>4 DEF RawInv
<1>2. ASSUME NEW f \in Formats, NEW s \in Signals, NEW n \in DataSizes[f],
             DataHeader(s, n)
      PROVE  RawInv'
  BY <1>1, <1>2 DEF DataHeader
<1>3. CASE \E s \in Signals, n \in StraySizes : StrayDataHeader(s, n)
  BY <1>1, <1>3 DEF StrayDataHeader
<1>4. CASE OtherHeader \/ \E s \in Signals \cup {0}, n \in MetaSizes : MetaHeader(s, n)
  BY <1>1, <1>4 DEF MetaHeader, OtherHeader
<1>5. CASE HeaderFails
  BY <1>5 DEF HeaderFails, RawInv, WholeLeft, MetaIsMeta, RawMatches, InLoop,
              InData
<1> QED BY <1>2, <1>3, <1>4, <1>5 DEF Header, Message

LEMMA DataRaw ==
  ASSUME ValuesWhole, TypeInv, ClockInv, RawInv, Data PROVE RawInv'
<1>1. CASE DataDone \/ ReadNothing \/ \E got \in 1 .. RecvBuffer : ReadChunk(got)
  <2>1. /\ pc = "data" /\ (~ended' => ~ended)
        /\ UNCHANGED <<hasContainer, type, signal, srv, toProcess, delivered, raw>>
    BY <1>1 DEF DataDone, ReadNothing, AfterNothing, ReadChunk, msgVars, sigVars,
                peerVars, outVars, TypeInv, ClocksOK
  <2>2. InLoop' => InLoop
    BY <2>1 DEF InLoop, InData
  <2>3. WholeLeft'
    BY <2>1, <2>2 DEF RawInv, WholeLeft
  <2>4. RawMatches'
    BY <2>1 DEF RawInv, RawMatches, Subscribed, BytesDelivered
  <2>5. MetaIsMeta'
    BY <1>1 DEF DataDone, ReadNothing, AfterNothing, ReadChunk, MetaIsMeta
  <2> QED BY <2>3, <2>4, <2>5 DEF RawInv
<1>2. CASE ProcessUnknown \/ Overrun \/ Discard
  <2>1. /\ pc = "process" /\ pc' \in {"data", "overrun"}
        /\ UNCHANGED <<hasContainer, signal, srv>>
    BY <1>2 DEF ProcessUnknown, Overrun, Unknown, Discard, msgVars, peerVars
  <2>2. hasContainer => srv[signal] = None
    <3>1. signal \in Signals
      BY <2>1 DEF TypeInv, LoopInv, StrayFits
    <3> QED BY <1>2, <2>1, <3>1 DEF TypeInv, LoopInv, FormatsAgree,
                                     ProcessUnknown, Overrun, Unknown, Discard
  <2> QED BY <2>1, <2>2 DEF RawInv, WholeLeft, MetaIsMeta, RawMatches, Subscribed,
                            InLoop
<1> QED BY <1>1, <1>2, ProcessRaw DEF Data

LEMMA OtherRaw ==
  ASSUME TypeInv, RawInv, Meta \/ Clear \/ Restart \/ UNCHANGED vars
  PROVE  RawInv'
<1>1. CASE Meta
  <2>1. pc' = "header" /\ type' = "meta"
    BY <1>1 DEF Meta, SkipMeta, TakeMeta, TornMeta, msgVars, RawInv, MetaIsMeta
  <2> QED BY <2>1 DEF RawInv, WholeLeft, MetaIsMeta, RawMatches, Subscribed,
                      InLoop, InData
<1>2. CASE Clear
  BY <1>2 DEF Clear, msgVars, peerVars, outVars, RawInv, WholeLeft, MetaIsMeta,
              RawMatches, Subscribed, BytesDelivered, InLoop, InData
<1>3. CASE Restart
  BY <1>3 DEF Restart, RawInv, WholeLeft, MetaIsMeta, RawMatches, Subscribed, InLoop,
              InData
<1>4. CASE UNCHANGED vars
  BY <1>4 DEF vars, msgVars, peerVars, outVars, RawInv, WholeLeft, MetaIsMeta,
              RawMatches, Subscribed, BytesDelivered, InLoop, InData
<1> QED BY <1>1, <1>2, <1>3, <1>4

(* The raw callback gets the bytes of the values the other callback gets,  *)
(* for patterns V and TV.                                                  *)
THEOREM RawIsValues ==
  ASSUME ValuesFit, ValuesWhole PROVE Spec => []RawMatches
<1>1. Init => RawInv
  BY DEF Init, RawInv, WholeLeft, MetaIsMeta, RawMatches, Subscribed, InLoop,
         InData
<1>2. TypeInv /\ ClockInv /\ RawInv /\ [Next]_vars => RawInv'
  BY HeaderRaw, DataRaw, OtherRaw DEF Next
<1>3. RawInv => RawMatches
  BY DEF RawInv
<1> QED BY TypeInvariance, ClockInvariance, <1>1, <1>2, <1>3, PTL DEF Spec
=============================================================================
