---------------------------- MODULE StreamReader ----------------------------
(***************************************************************************)
(* The receive loop over its socket: every message of ReceiveLoop is taken *)
(* by the calls of receiveComplete that StreamClient::start,               *)
(* TransportHeader::receive and the constructor of MetaInformation make,   *)
(* and what each call returns is what ByteChannel allows: bytes one after  *)
(* the other, the connection ending at any of them.  A byte knows its      *)
(* place in the stream, and `payload' remembers where the payload of the   *)
(* message begins, so that a byte of another message would show.           *)
(***************************************************************************)
EXTENDS ReceiveLoop

CONSTANTS
  MaxStream,  \* bound: bytes of a connection
  MaxAhead    \* bound: bytes that have arrived and nobody has asked for

VARIABLES
  connection, arrived, handed, wanted, call, over, \* the channel
  step,       \* the call of receiveComplete in progress
  payload     \* history: bytes of the stream in front of the payload

Socket == INSTANCE ByteChannel

channel == <<connection, arrived, handed, wanted, call, over>>

readerVars == <<vars, channel, step, payload>>

Calls == {"header", "size", "chunk", "type", "content"}

HeaderSize == 4    \* sizeof(headerBig), sizeof(additionalSizeBig)
MaxShort == 255    \* the greatest size that fits into a header

ReaderTypeOK ==
  /\ TypeOK
  /\ connection \in Nat /\ handed \in Nat /\ arrived \in Nat /\ wanted \in Nat
  /\ call \in Seq(Nat \X Nat) /\ over \in BOOLEAN
  /\ step \in Calls \cup {"none"} /\ payload \in Nat

ReaderInit == Init /\ Socket!ChannelInit /\ step = "none" /\ payload = 0

(* Mutant of ContentSize: the type is not taken off. *)
WholeSize == size

ContentSize == size - TypeSize

(* The call in progress returns all it wanted, or less than that or -1. *)
Full == Len(call) = wanted

Short == over /\ Len(call) < wanted

Ask(c, n) ==
  /\ step' = c /\ wanted' = n /\ Socket!Call
  /\ UNCHANGED <<vars, payload>>

Answered == step' = "none" /\ UNCHANGED channel

Connect ==
  /\ connection = 0
  /\ Socket!Open /\ UNCHANGED <<vars, step, payload>>

-----------------------------------------------------------------------------
(* TransportHeader::receive                                                *)

AskHeader ==
  /\ pc = "header" /\ step = "none" /\ connection # 0
  /\ Ask("header", HeaderSize)

AskSize == step = "header" /\ Full /\ Ask("size", HeaderSize)

(* A size other than 0 in the header is that of the payload. *)
TakeHeader ==
  /\ step \in {"header", "size"} /\ Full
  /\ Message
  /\ step = "header" => size' \in 1 .. MaxShort
  /\ payload' = handed /\ Answered

LoseHeader ==
  /\ step \in {"header", "size"} /\ Short
  /\ HeaderFails
  /\ Answered /\ UNCHANGED payload

-----------------------------------------------------------------------------
(* The data loop                                                           *)

AskChunk ==
  /\ pc = "data" /\ toProcess > 0 /\ step = "none"
  /\ Ask("chunk", ToRead)

(* The bytes of the call, each by its offset in the payload. *)
Chunk == [i \in 1 .. Len(call) |-> call[i][2] - payload - 1]

(* Mutant of Buffered: stored in front of what is there. *)
BufferedInFront == Chunk \o buf

(* receiveComplete stores behind the bytes that are in the buffer. *)
Buffered == buf \o Chunk

TakeChunk ==
  /\ step = "chunk" /\ (Full \/ Short) /\ call # <<>>
  /\ buf' = Buffered
  /\ unread' = payload + size - handed
  /\ ended' = over
  /\ pc' = "process"
  /\ Answered
  /\ UNCHANGED <<hasContainer, sigVars, type, signal, size, toProcess, peerVars,
                 outVars, sessions, payload>>

(* Nothing was wanted, the connection has ended, or the call has failed,   *)
(* which returns -1 even if it has stored something.                       *)
TakeNothing ==
  /\ step = "chunk" /\ (Short \/ (Full /\ call = <<>>))
  /\ ended' = over
  /\ pc' = AfterNothing
  /\ Answered
  /\ UNCHANGED <<hasContainer, sigVars, msgVars, peerVars, outVars, sessions,
                 payload>>

-----------------------------------------------------------------------------
(* MetaInformation::MetaInformation                                        *)

AskType ==
  /\ pc = "meta" /\ size > TypeSize /\ step = "none"
  /\ Ask("type", TypeSize)

(* Whether the type has arrived is not looked at. *)
AskContent == step = "type" /\ (Full \/ Short) /\ Ask("content", ContentSize)

TakeContent ==
  /\ step = "content" /\ Full
  /\ Inform
  /\ unread' = payload + size - handed
  /\ pc' = "header"
  /\ Answered
  /\ UNCHANGED <<hasContainer, type, signal, size, toProcess, buf, ended, outVars,
                 sessions, payload>>

TearContent ==
  /\ step = "content" /\ Short
  /\ TornMeta
  /\ Answered /\ UNCHANGED payload

-----------------------------------------------------------------------------
(* Steps between two calls                                                 *)

Work ==
  /\ step = "none"
  /\ \/ DataDone \/ Process \/ ProcessUnknown \/ Overrun \/ Discard
     \/ SkipMeta \/ Clear
  /\ UNCHANGED <<channel, step, payload>>

Reconnect ==
  /\ Restart
  /\ Socket!Open /\ payload' = 0 /\ UNCHANGED step

(* The channel                                                             *)

Arrive ==
  /\ connection # 0 /\ arrived < MaxStream /\ arrived - handed < MaxAhead
  /\ Socket!Arrive /\ UNCHANGED <<vars, step, payload>>

Hand == Socket!Hand /\ UNCHANGED <<vars, step, payload>>

GiveUp == Socket!End /\ UNCHANGED <<vars, step, payload>>

-----------------------------------------------------------------------------
ReadHeader == AskHeader \/ AskSize \/ TakeHeader \/ LoseHeader
ReadData   == AskChunk \/ TakeChunk \/ TakeNothing
ReadMeta   == AskType \/ AskContent \/ TakeContent \/ TearContent
Serve      == Arrive \/ Hand \/ GiveUp

ReaderNext ==
  \/ Connect \/ ReadHeader \/ ReadData \/ ReadMeta \/ Work \/ Reconnect \/ Serve

ReaderSpec == ReaderInit /\ [][ReaderNext]_readerVars

(* The thread runs, and a call under way is answered: the peer completes   *)
(* what it has begun, or the loss of the connection is recognized.         *)
FairReaderSpec ==
  ReaderSpec /\ WF_readerVars(ReadData) /\ WF_readerVars(ReadMeta)
             /\ WF_readerVars(Work) /\ WF_readerVars(Serve)

-----------------------------------------------------------------------------
(* Properties                                                              *)

(* A header is asked for right behind the payload of the message before,   *)
(* whatever that message was and whichever results were not looked at.     *)
HeaderFollows ==
  pc = "header" /\ step = "none" /\ ~over => handed = payload + size

(* The calls implement the messages: the loop takes the steps of           *)
(* ReceiveLoop, with every byte at its place in the payload, whatever the  *)
(* socket returns and although MetaInformation does not look at it.        *)
ReadsMessages == Spec
=============================================================================
