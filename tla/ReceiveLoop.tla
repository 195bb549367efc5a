---------------------------- MODULE ReceiveLoop ----------------------------
(***************************************************************************)
(* The receive loop of StreamClient::start: one transport message after    *)
(* the other is taken from the socket, measured data by way of a local     *)
(* buffer and SubscribedSignal::processMeasuredData, meta information by   *)
(* the constructor of MetaInformation and the SignalContainer.             *)
(*                                                                         *)
(* The socket is used by what StreamSocket promises of receiveComplete:    *)
(* the next bytes of the connection, fewer than wanted or none only when   *)
(* the connection ends.  A byte of a payload is its offset in the payload. *)
(* Time of a signal with pattern V is counted in values.  Header and       *)
(* content arrive in full or the connection ends; what the peer sends is   *)
(* chosen message by message (srv and sent are its knowledge).             *)
(***************************************************************************)
EXTENDS Integers, Sequences, FiniteSets

CONSTANTS
  RecvBuffer,    \* sizeof(dataRecvBuffer)
  MaxValues,     \* m_valueBufferMaxValues
  Signals,       \* signal numbers, other than 0
  Formats,       \* data formats the peer announces
  DefaultFormat, \* the one a SubscribedSignal is constructed with
  DataSizes,     \* payload sizes of data messages, by format
  StraySizes,    \* payload sizes of data for a signal that is not subscribed
  MetaSizes,     \* payload sizes of meta information
  MaxSent,       \* bound: values of pattern V sent for one signal
  MaxSessions    \* bound: calls of start()

VARIABLES
  pc,            \* where start() is
  hasContainer,  \* setSignalContainer() was called
  known, format, clock, \* m_subscribedsignals; format, sync time of each
  type, signal, size, \* of the message being processed
  toProcess,     \* bytesToProcess
  buf,           \* the first bytesInBuffer bytes of dataRecvBuffer
  unread,        \* payload bytes of the message still in the socket
  ended,         \* the connection has ended
  srv, sent,     \* peer: formats announced, values sent since "time"
  delivered, raw, \* history: what the callbacks got of this message
  sessions

sigVars  == <<known, format, clock>>
msgVars  == <<type, signal, size, toProcess, buf, unread>>
peerVars == <<srv, sent>>
outVars  == <<delivered, raw>>
vars == <<pc, hasContainer, sigVars, msgVars, ended, peerVars, outVars,
          sessions>>

None == [pattern |-> "none", value |-> 1, time |-> 0]
NotTimed == -1
StrayByte == -1   \* whatever lies before dataRecvBuffer

TypeSize == 4     \* sizeof(typeBig)

Tuple(f) == f.time + f.value

ASSUME FormatsAssumption ==
  /\ RecvBuffer \in Nat \ {0} /\ MaxValues \in Nat \ {0}
  /\ Formats \cup {DefaultFormat}
       \subseteq [pattern : {"V", "TV", "TB"}, value : Nat \ {0}, time : Nat]
  /\ DataSizes \in [Formats -> SUBSET Nat]
  /\ \A f \in Formats \cup {DefaultFormat} : Tuple(f) <= RecvBuffer
  /\ StraySizes \subseteq Nat
  /\ MetaSizes \subseteq Nat \ (1 .. TypeSize)
  /\ 0 \notin Signals

TypeOK ==
  /\ pc \in {"header", "data", "process", "meta", "stopped", "overrun"}
  /\ hasContainer \in BOOLEAN /\ ended \in BOOLEAN
  /\ known \subseteq Signals /\ clock \in [Signals -> Nat]
  /\ format \in [Signals -> Formats \cup {DefaultFormat}]
  /\ type \in {"data", "meta", "other"} /\ signal \in Signals \cup {0}
  /\ size \in Nat /\ toProcess \in Nat /\ unread \in Nat
  /\ buf \in Seq(Int) /\ raw \in Seq(Int)
  /\ srv \in [Signals -> Formats \cup {None}]
  /\ sent \in [Signals -> Nat \cup {NotTimed}]
  /\ delivered \in Seq([stamp : Int, value : Seq(Int)])
  /\ sessions \in Nat

Init ==
  /\ pc = "header" /\ hasContainer \in BOOLEAN
  /\ known = {} /\ clock = [s \in Signals |-> 0]
  /\ format = [s \in Signals |-> DefaultFormat]
  /\ type = "other" /\ signal = 0 /\ size = 0 /\ toProcess = 0 /\ buf = <<>> /\ unread = 0
  /\ ended = FALSE /\ delivered = <<>> /\ raw = <<>> /\ sessions = 1
  /\ srv = [s \in Signals |-> None] /\ sent = [s \in Signals |-> NotTimed]

Lesser(a, b) == IF a <= b THEN a ELSE b

-----------------------------------------------------------------------------
(* TransportHeader::receive and the dispatch on the type                   *)

NewMessage(t, s, n) ==
  /\ pc = "header" /\ ~ended
  /\ pc' = IF t = "other" THEN "header" ELSE t
  /\ type' = t /\ signal' = s /\ size' = n /\ toProcess' = n /\ unread' = n
  /\ buf' = <<>> /\ delivered' = <<>> /\ raw' = <<>>
  /\ UNCHANGED <<hasContainer, sigVars, ended, srv, sessions>>

(* The peer announces the format, and for pattern V the time, before it    *)
(* sends data.                                                             *)
DataHeader(s, n) ==
  /\ srv[s] # None /\ n \in DataSizes[srv[s]]
  /\ IF srv[s].pattern = "V"
       THEN /\ sent[s] # NotTimed
            /\ sent[s] + n \div srv[s].value <= MaxSent
            /\ sent' = [sent EXCEPT ![s] = @ + n \div srv[s].value]
       ELSE UNCHANGED sent
  /\ NewMessage("data", s, n)

(* Data of a signal that is not in the container. *)
StrayDataHeader(s, n) ==
  /\ srv[s] = None /\ s \notin known /\ n \in StraySizes
  /\ NewMessage("data", s, n) /\ UNCHANGED sent

MetaHeader(s, n) ==
  /\ n \in MetaSizes
  /\ NewMessage("meta", s, n) /\ UNCHANGED sent

(* Any other type: nothing is read and nothing skipped, so that the next   *)
(* header is found only where there is no payload.                         *)
OtherHeader == NewMessage("other", 0, 0) /\ UNCHANGED sent

HeaderFails ==
  /\ pc = "header"
  /\ pc' = "stopped" /\ ended' = TRUE
  /\ UNCHANGED <<hasContainer, sigVars, msgVars, peerVars, outVars, sessions>>

-----------------------------------------------------------------------------
(* Data: while(bytesToProcess > 0)                                         *)

(* Mutant of ToRead: a full buffer's worth whatever is in it. *)
ToReadFull ==
  IF toProcess > RecvBuffer THEN RecvBuffer ELSE toProcess - Len(buf)

ToRead == Lesser(toProcess, RecvBuffer) - Len(buf)

DataDone ==
  /\ pc = "data" /\ toProcess = 0
  /\ pc' = "header"
  /\ UNCHANGED <<hasContainer, sigVars, msgVars, ended, peerVars, outVars,
                 sessions>>

ReadChunk(got) ==
  /\ pc = "data" /\ toProcess > 0 /\ ~ended
  /\ got \in 1 .. Lesser(ToRead, unread)
  /\ buf' = buf \o [i \in 1 .. got |-> size - unread + i - 1]
  /\ unread' = unread - got
  /\ ended' = (got < ToRead)
  /\ pc' = "process"
  /\ UNCHANGED <<hasContainer, sigVars, type, signal, size, toProcess, peerVars,
                 outVars, sessions>>

(* Mutant of AfterNothing: the break is missing. *)
GoOn == "data"

AfterNothing == "header"

(* receiveComplete returns 0, for 0 bytes wanted or at the end, or -1. *)
ReadNothing ==
  /\ pc = "data" /\ toProcess > 0
  /\ ended' \in {ended, TRUE} /\ (ended' \/ ToRead = 0)
  /\ pc' = AfterNothing
  /\ UNCHANGED <<hasContainer, sigVars, msgVars, peerVars, outVars, sessions>>

(* Bytes taken by SubscribedSignal::processMeasuredData from n bytes, and  *)
(* the number of values in them.                                           *)
ValueCount(f, n) ==
  CASE f.pattern = "V"  -> Lesser(n \div f.value, MaxValues)
    [] f.pattern = "TV" -> n \div Tuple(f)
    [] f.pattern = "TB" -> IF n < Tuple(f) THEN 0
                           ELSE Lesser((n - f.time) \div f.value, MaxValues)

(* Mutants of Taken: all that was handed in counts as processed; every     *)
(* value counts with a time stamp of its own.                              *)
TakenAll(f, n) == n

TakenTuples(f, n) == ValueCount(f, n) * Tuple(f)

Taken(f, n) ==
  LET c == ValueCount(f, n) IN
  CASE f.pattern = "V"  -> c * f.value
    [] f.pattern = "TV" -> c * Tuple(f)
    [] f.pattern = "TB" -> IF c = 0 THEN 0 ELSE f.time + c * f.value

(* Position in the buffer, counted from 0, of value number i of a call. *)
ValueAt(f, i) ==
  CASE f.pattern = "V"  -> (i - 1) * f.value
    [] f.pattern = "TV" -> (i - 1) * Tuple(f) + f.time
    [] f.pattern = "TB" -> f.time + (i - 1) * f.value

ValueBytes(f, i) == SubSeq(buf, ValueAt(f, i) + 1, ValueAt(f, i) + f.value)

(* What cbDouble is called with.  The stamp is the sync time after it has  *)
(* been incremented for the whole call, or the bytes of the stamp.         *)
Values(f, c) ==
  [i \in 1 .. c |->
    [value |-> ValueBytes(f, i),
     stamp |-> CASE f.pattern = "V"  -> clock[signal] + c
                 [] f.pattern = "TV" -> buf[(i - 1) * Tuple(f) + 1]
                 [] f.pattern = "TB" -> buf[1]]]

(* Mutant of RawBytes: with TV the time stamps are left in. *)
RawTuples(f, c) ==
  IF c = 0 THEN <<>> ELSE
  CASE f.pattern = "V"  -> buf
    [] f.pattern = "TV" -> SubSeq(buf, 1, c * Tuple(f))
    [] f.pattern = "TB" -> SubSeq(buf, 1, Len(buf) - f.time)

(* The bytes cbRaw is called with: for V all that the buffer holds, for TB *)
(* as many as there are after the stamp but beginning with the stamp.      *)
RawBytes(f, c) ==
  IF c = 0 THEN <<>> ELSE
  CASE f.pattern = "V"  -> buf
    [] f.pattern = "TV" -> [k \in 1 .. c * f.value |->
                              buf[ValueAt(f, (k - 1) \div f.value + 1)
                                    + ((k - 1) % f.value) + 1]]
    [] f.pattern = "TB" -> SubSeq(buf, 1, Len(buf) - f.time)

(* Mutant of Rest: memmove() is missing. *)
RestInPlace(n) == SubSeq(buf, 1, Len(buf) - n)

Rest(n) == SubSeq(buf, n + 1, Len(buf))

(* Mutant of Ticks: one increment for the whole call. *)
OneTick(f, c) == IF f.pattern = "V" THEN 1 ELSE 0

(* By how much m_syncSignalTime is incremented. *)
Ticks(f, c) == IF f.pattern = "V" THEN c ELSE 0

Process ==
  /\ pc = "process" /\ hasContainer /\ signal \in known
  /\ LET f == format[signal]
         c == ValueCount(f, Len(buf))
         n == Taken(f, Len(buf))
     IN /\ delivered' = delivered \o Values(f, c)
        /\ raw' = raw \o RawBytes(f, c)
        /\ clock' = [clock EXCEPT ![signal] = @ + Ticks(f, c)]
        /\ toProcess' = toProcess - n
        /\ buf' = Rest(n)
  /\ pc' = "data"
  /\ UNCHANGED <<hasContainer, known, format, type, signal, size, unread, ended,
                 peerVars, sessions>>

(* The container answers -1, which becomes the greatest size_t: both       *)
(* counters grow by one and memmove() begins before the buffer.            *)
Unknown == pc = "process" /\ hasContainer /\ signal \notin known

ProcessUnknown ==
  /\ Unknown /\ Len(buf) < RecvBuffer
  /\ toProcess' = toProcess + 1
  /\ buf' = <<StrayByte>> \o buf
  /\ pc' = "data"
  /\ UNCHANGED <<hasContainer, sigVars, type, signal, size, unread, ended, peerVars,
                 outVars, sessions>>

(* When the buffer is full, memmove() writes one byte behind it and the    *)
(* next read is for almost 2^64 bytes: nothing is said of what follows.    *)
Overrun ==
  /\ Unknown /\ Len(buf) = RecvBuffer
  /\ pc' = "overrun"
  /\ UNCHANGED <<hasContainer, sigVars, msgVars, ended, peerVars, outVars,
                 sessions>>

Discard ==
  /\ pc = "process" /\ ~hasContainer
  /\ toProcess' = toProcess - Len(buf)
  /\ buf' = <<>>
  /\ pc' = "data"
  /\ UNCHANGED <<hasContainer, sigVars, type, signal, size, unread, ended, peerVars,
                 outVars, sessions>>

-----------------------------------------------------------------------------
(* Meta information                                                        *)

(* Not even the type fits: the payload is neither read nor skipped. *)
SkipMeta ==
  /\ pc = "meta" /\ size <= TypeSize
  /\ pc' = "header"
  /\ UNCHANGED <<hasContainer, sigVars, msgVars, ended, peerVars, outVars,
                 sessions>>

(* Mutant of Emplace: a signal that is there is constructed again. *)
EmplaceAnew(s) ==
  /\ known' = known \cup {s}
  /\ format' = [format EXCEPT ![s] = DefaultFormat]
  /\ clock' = [clock EXCEPT ![s] = 0]

(* m_subscribedsignals.emplace when the number is not there yet. *)
Emplace(s) ==
  /\ known' = known \cup {s}
  /\ format' = IF s \in known THEN format
                              ELSE [format EXCEPT ![s] = DefaultFormat]
  /\ clock' = IF s \in known THEN clock ELSE [clock EXCEPT ![s] = 0]

Subscribe(s) ==
  /\ IF hasContainer THEN Emplace(s) ELSE UNCHANGED sigVars
  /\ UNCHANGED peerVars

SetFormat(s, f) ==
  /\ srv' = [srv EXCEPT ![s] = f] /\ UNCHANGED sent
  /\ IF hasContainer
       THEN /\ known' = known \cup {s}
            /\ format' = [format EXCEPT ![s] = f]
            /\ clock' = IF s \in known THEN clock ELSE [clock EXCEPT ![s] = 0]
       ELSE UNCHANGED sigVars

SetTime(s) ==
  /\ sent' = [sent EXCEPT ![s] = 0] /\ UNCHANGED srv
  /\ IF hasContainer
       THEN /\ known' = known \cup {s}
            /\ format' = IF s \in known THEN format
                         ELSE [format EXCEPT ![s] = DefaultFormat]
            /\ clock' = [clock EXCEPT ![s] = 0]
       ELSE UNCHANGED sigVars

Unsubscribe(s) ==
  /\ srv' = [srv EXCEPT ![s] = None] /\ sent' = [sent EXCEPT ![s] = NotTimed]
  /\ known' = IF hasContainer THEN known \ {s} ELSE known
  /\ UNCHANGED <<format, clock>>

(* "subscribe" and "signalRate" add the signal and nothing this module     *)
(* tells apart; stream related meta information, and one that is not JSON, *)
(* changes no signal.                                                      *)
Inform ==
  \/ UNCHANGED <<sigVars, peerVars>>
  \/ /\ signal # 0
     /\ \/ Subscribe(signal)
        \/ \E f \in Formats : SetFormat(signal, f)
        \/ SetTime(signal)
        \/ Unsubscribe(signal)

TakeMeta ==
  /\ pc = "meta" /\ size > TypeSize /\ ~ended
  /\ unread' = 0 /\ pc' = "header"
  /\ Inform
  /\ UNCHANGED <<hasContainer, type, signal, size, toProcess, buf, ended, outVars,
                 sessions>>

(* The connection ends inside.  Results of receiveComplete and of the      *)
(* parser are not looked at: what was received counts as far as it could   *)
(* be parsed.                                                              *)
TornMeta ==
  /\ pc = "meta" /\ size > TypeSize
  /\ ended' = TRUE /\ pc' = "header"
  /\ Inform
  /\ UNCHANGED <<hasContainer, msgVars, outVars, sessions>>

-----------------------------------------------------------------------------
(* Between two calls of start(): the container stays as it is unless the   *)
(* program clears it.                                                      *)
Clear ==
  /\ pc = "stopped"
  /\ known' = {}
  /\ UNCHANGED <<pc, hasContainer, format, clock, msgVars, ended, peerVars,
                 outVars, sessions>>

Restart ==
  /\ pc = "stopped" /\ sessions < MaxSessions
  /\ pc' = "header" /\ ended' = FALSE /\ sessions' = sessions + 1
  /\ type' = "other" /\ signal' = 0 /\ size' = 0 /\ toProcess' = 0 /\ buf' = <<>> /\ unread' = 0
  /\ delivered' = <<>> /\ raw' = <<>>
  /\ srv' = [s \in Signals |-> None]
  /\ sent' = [s \in Signals |-> NotTimed]
  /\ UNCHANGED <<hasContainer, sigVars>>

-----------------------------------------------------------------------------
Message ==
  \/ \E f \in Formats : \E s \in Signals, n \in DataSizes[f] : DataHeader(s, n)
  \/ \E s \in Signals, n \in StraySizes : StrayDataHeader(s, n)
  \/ \E s \in Signals \cup {0}, n \in MetaSizes : MetaHeader(s, n)
  \/ OtherHeader

Header == Message \/ HeaderFails

Data ==
  \/ DataDone \/ (\E got \in 1 .. RecvBuffer : ReadChunk(got)) \/ ReadNothing
  \/ Process \/ ProcessUnknown \/ Overrun \/ Discard

Meta == SkipMeta \/ TakeMeta \/ TornMeta

Next == Header \/ Data \/ Meta \/ Clear \/ Restart

Spec == Init /\ [][Next]_vars

-----------------------------------------------------------------------------
(* Properties                                                              *)

(* The loop looks for a header only where one begins: whatever made the    *)
(* data loop stop, the payload of the message has been read.               *)
Framed == pc = "header" /\ ~ended => unread = 0

(* What is buffered and what is read next fit into dataRecvBuffer.  There  *)
(* is one way out of it: data of a signal that was never announced, at     *)
(* least as many as the buffer holds, in a client with a container.        *)
InBounds ==
  /\ pc = "data" => ToRead >= 0 /\ Len(buf) + ToRead <= RecvBuffer
  /\ pc = "overrun"
       => hasContainer /\ srv[signal] = None /\ size >= RecvBuffer

(* Data are interpreted in the format the peer has announced in this       *)
(* session, whatever an earlier session left in the container.             *)
FormatCurrent ==
  pc = "process" /\ hasContainer /\ srv[signal] # None
    => signal \in known /\ format[signal] = srv[signal]

(* Values reach the callback in the order of the payload, each from its    *)
(* own bytes and, with TV and TB, with its own stamp, however the chunks   *)
(* were cut and the rest of a chunk moved.                                 *)
RightValue(f, i, v) ==
  /\ v.value = [k \in 1 .. f.value |-> ValueAt(f, i) + k - 1]
  /\ f.pattern = "TV" => v.stamp = (i - 1) * Tuple(f)
  /\ f.pattern = "TB" => v.stamp = 0

Subscribed == type = "data" /\ hasContainer /\ srv[signal] # None

DeliveredInOrder ==
  Subscribed
    => \A i \in DOMAIN delivered : RightValue(srv[signal], i, delivered[i])

(* streamclient.h: start "receives and processes all meta information and  *)
(* data": of a message that has arrived completely all values have been    *)
(* handed to the callback.                                                 *)
ValuesSent(f, n) ==
  CASE f.pattern = "V"  -> n \div f.value
    [] f.pattern = "TV" -> n \div Tuple(f)
    [] f.pattern = "TB" -> IF n < Tuple(f) THEN 0
                           ELSE (n - f.time) \div f.value

AllDelivered ==
  pc = "header" /\ ~ended /\ Subscribed
    => Len(delivered) = ValuesSent(srv[signal], size)

(* The raw callback gets the bytes of the values the other callback gets.  *)
BytesDelivered(v) ==
  [k \in 1 .. Len(delivered) * v |->
     delivered[(k - 1) \div v + 1].value[((k - 1) % v) + 1]]

RawMatches ==
  ~ended /\ Subscribed /\ srv[signal].pattern # "TB"
    => raw = BytesDelivered(srv[signal].value)

(* subscribedsignal.h: "TB"; "The timestamp corresponds to the first       *)
(* sample in the signal block": the raw block begins with that sample.     *)
RawBlockIsValues ==
  Subscribed /\ srv[signal].pattern = "TB"
    => raw = BytesDelivered(srv[signal].value)

(* The sync time of a signal advances with the values the peer sends.      *)
ClockInStep ==
  pc = "header" /\ ~ended /\ hasContainer
    => \A s \in Signals :
         srv[s].pattern = "V" /\ sent[s] # NotTimed => clock[s] = sent[s]

(* No message keeps the loop busy for ever. *)
MessageEnds ==
  pc \in {"data", "process", "meta"} ~> pc \in {"header", "overrun"}
=============================================================================
