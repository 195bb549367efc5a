------------------------- MODULE StreamReaderProofs -------------------------
(***************************************************************************)
(* Proofs about StreamReader: whatever its calls of receiveComplete return *)
(* within the promise of ByteChannel, and with every cut of the stream,    *)
(* the loop takes the steps of ReceiveLoop, so that the theorems about     *)
(* ReceiveLoop hold of it.                                                 *)
(***************************************************************************)
EXTENDS StreamReader, ReceiveLoopProofs

InCall == step # "none"

ChannelOK ==
  /\ connection \in Nat /\ handed \in Nat /\ arrived \in Nat /\ wanted \in Nat
  /\ call \in Seq(Nat \X Nat) /\ over \in BOOLEAN
  /\ step \in Calls \cup {"none"} /\ payload \in Nat

(* A call is made only where the code makes it. *)
StepFits ==
  /\ step \in {"header", "size"} => pc = "header"
  /\ step = "chunk" => pc = "data" /\ toProcess > 0
  /\ step \in {"type", "content"} => pc = "meta" /\ size > TypeSize

(* How many bytes the call in progress is due to the loop. *)
Due ==
  CASE step \in {"header", "size"} -> HeaderSize
    [] step = "chunk"   -> ToRead
    [] step = "type"    -> TypeSize
    [] step = "content" -> ContentSize
    [] step = "none"    -> 0

CallFits == InCall => wanted = Due /\ Len(call) <= wanted

(* Between two calls, the last one has been answered. *)
Settled == ~InCall => Socket!Answered

(* The bytes of a call are the ones last taken from the stream. *)
BytesFollow ==
  InCall => \A i \in 1 .. Len(call) :
              call[i] = <<connection, handed - Len(call) + i>>

(* The loop knows that the connection has ended once the call is over. *)
EndKnown == (ended => over) /\ (over => ended \/ InCall)

(* No byte is handed out after the end, and a call that got all it wanted  *)
(* has not noticed the end.                                                *)
BytesBeforeEnd ==
  InCall /\ call # <<>> => ~ended /\ (Len(call) = wanted => ~over)

(* Where in the stream the loop is. *)
InStream ==
  ~ended =>
    /\ ~InCall => handed + unread = payload + size
    /\ step = "chunk" => handed + unread = payload + size + Len(call)
    /\ step = "type" => handed = payload + Len(call)
    /\ step = "content" => over \/ handed = payload + TypeSize + Len(call)

(* Nothing has been asked for before connect() has returned. *)
Unconnected ==
  connection = 0 => /\ pc = "header" /\ ~InCall /\ ~ended
                    /\ payload = 0 /\ size = 0 /\ unread = 0

ReaderInv ==
  /\ ChannelOK /\ StepFits /\ CallFits /\ Settled /\ BytesFollow
  /\ EndKnown /\ BytesBeforeEnd /\ InStream /\ Unconnected

-----------------------------------------------------------------------------
(* What the parts of the loop's invariant say of a call                    *)

LEMMA LoopFacts ==
  ASSUME TypeInv
  PROVE  /\ size \in Nat /\ unread \in Nat /\ toProcess \in Nat
         /\ buf \in Seq(Int) /\ Len(buf) \in Nat /\ ended \in BOOLEAN
         /\ pc = "data" => /\ ToRead \in Nat /\ ToRead <= unread
                           /\ ToRead <= RecvBuffer
         /\ pc = "meta" => unread = size
<1>1. /\ toProcess \in Nat /\ unread \in Nat /\ size \in Nat
      /\ buf \in Seq(Int) /\ Len(buf) \in Nat /\ Len(buf) <= RecvBuffer
      /\ ended \in BOOLEAN /\ RecvBuffer \in Nat
  BY FormatsAssumption DEF TypeInv, LoopInv, CountersOK, ClocksOK
<1>2. pc = "data" => toProcess = Len(buf) + unread
  BY DEF TypeInv, LoopInv, Counted
<1>3. pc = "data" => ToRead \in Nat /\ ToRead <= unread /\ ToRead <= RecvBuffer
  BY <1>1, <1>2 DEF ToRead, Lesser
<1>4. pc = "meta" => unread = size
  BY DEF TypeInv, LoopInv, MetaWhole
<1> QED BY <1>1, <1>3, <1>4

LEMMA DueIsWanted ==
  ASSUME TypeInv, ReaderInv, InCall
  PROVE  wanted = Due /\ wanted \in Nat /\ (step # "chunk" => wanted > 0)
<1>1. step \in {"header", "size", "chunk", "type", "content", "none"}
  BY DEF ReaderInv, ChannelOK, Calls
<1>2. step = "chunk" => ToRead \in Nat
  BY LoopFacts DEF ReaderInv, StepFits
<1>3. step = "content" => size \in Nat /\ size > TypeSize
  BY LoopFacts DEF ReaderInv, StepFits
<1>4. Due \in Nat /\ (step # "chunk" => Due > 0)
  BY <1>1, <1>2, <1>3 DEF Due, HeaderSize, TypeSize, ContentSize, InCall
<1> QED BY <1>4 DEF ReaderInv, CallFits

-----------------------------------------------------------------------------
(* Every step of the reader is one of the loop, or none                    *)

LEMMA HeaderSteps == ASSUME ReadHeader PROVE [Next]_vars
<1>1. CASE AskHeader \/ AskSize
  BY <1>1 DEF AskHeader, AskSize, Ask
<1>2. CASE TakeHeader \/ LoseHeader
  BY <1>2 DEF TakeHeader, LoseHeader, Next, Header
<1> QED BY <1>1, <1>2 DEF ReadHeader

LEMMA ChunkOffsets ==
  ASSUME TypeInv, ReaderInv, TakeChunk
  PROVE  /\ Len(call) \in 1 .. Lesser(ToRead, unread) /\ ~ended
         /\ Chunk = [i \in 1 .. Len(call) |-> size - unread + i - 1]
         /\ unread' = unread - Len(call)
         /\ ended' = (Len(call) < ToRead)
<1>1. /\ step = "chunk" /\ pc = "data" /\ toProcess > 0 /\ call # <<>> /\ InCall
      /\ wanted = ToRead
  BY DEF TakeChunk, ReaderInv, StepFits, CallFits, InCall, Due
<1>2. Len(call) \in Nat /\ Len(call) > 0 /\ Len(call) <= ToRead
  BY <1>1 DEF ReaderInv, ChannelOK, CallFits
<1>3. ToRead \in Nat /\ ToRead <= unread /\ size \in Nat /\ unread \in Nat
  BY <1>1, LoopFacts
<1>4. ~ended /\ handed + unread = payload + size + Len(call)
  BY <1>1 DEF ReaderInv, BytesBeforeEnd, InStream
<1>5. handed \in Nat /\ payload \in Nat /\ over \in BOOLEAN
  BY DEF ReaderInv, ChannelOK
<1>6. ASSUME NEW i \in 1 .. Len(call)
      PROVE  call[i][2] - payload - 1 = size - unread + i - 1
  <2>1. call[i][2] = handed - Len(call) + i
    BY <1>1, <1>6 DEF ReaderInv, BytesFollow
  <2> QED BY <2>1, <1>2, <1>3, <1>4, <1>5, <1>6
<1>7. Chunk = [i \in 1 .. Len(call) |-> size - unread + i - 1]
  BY <1>6 DEF Chunk
<1>8. unread' = unread - Len(call)
  BY <1>2, <1>3, <1>4, <1>5 DEF TakeChunk
<1>9. ended' = (Len(call) < ToRead)
  <2>1. Len(call) = ToRead => ~over
    BY <1>1 DEF ReaderInv, BytesBeforeEnd
  <2>2. Len(call) = ToRead \/ (over /\ Len(call) < ToRead)
    BY <1>1 DEF TakeChunk, Full, Short
  <2>3. ended' = over
    BY DEF TakeChunk
  <2> QED BY <1>2, <1>3, <1>5, <2>1, <2>2, <2>3
<1>10. Len(call) \in 1 .. Lesser(ToRead, unread)
  BY <1>2, <1>3 DEF Lesser
<1> QED BY <1>4, <1>7, <1>8, <1>9, <1>10

LEMMA DataSteps == ASSUME TypeInv, ReaderInv, ReadData PROVE [Next]_vars
<1>1. CASE AskChunk
  BY <1>1 DEF AskChunk, Ask
<1>2. CASE TakeChunk
  <2>1. /\ Len(call) \in 1 .. Lesser(ToRead, unread) /\ ~ended
        /\ Chunk = [i \in 1 .. Len(call) |-> size - unread + i - 1]
        /\ unread' = unread - Len(call)
        /\ ended' = (Len(call) < ToRead)
    BY <1>2, ChunkOffsets
  <2>2. pc = "data" /\ toProcess > 0
    BY <1>2 DEF TakeChunk, ReaderInv, StepFits
  <2>3. ReadChunk(Len(call))
    BY <1>2, <2>1, <2>2 DEF TakeChunk, Buffered, ReadChunk
  <2>4. Len(call) \in 1 .. RecvBuffer
    BY <2>1, <2>2, LoopFacts, FormatsAssumption DEF Lesser
  <2> QED BY <2>3, <2>4 DEF Next, Data
<1>3. CASE TakeNothing
  <2>1. step = "chunk" /\ pc = "data" /\ toProcess > 0 /\ InCall /\ wanted = ToRead
    BY <1>3 DEF TakeNothing, ReaderInv, StepFits, CallFits, InCall, Due
  <2>2. over \/ (Len(call) = 0 /\ Len(call) = ToRead)
    BY <1>3, <2>1 DEF TakeNothing, Full, Short
  <2>3. ended' = over /\ over \in BOOLEAN /\ ended \in BOOLEAN
    BY <1>3, LoopFacts DEF TakeNothing, ReaderInv, ChannelOK
  <2>4. ended' \in {ended, TRUE}
    BY <2>3 DEF ReaderInv, EndKnown
  <2>5. ended' \/ ToRead = 0
    BY <2>2, <2>3
  <2>6. ReadNothing
    BY <1>3, <2>1, <2>4, <2>5 DEF TakeNothing, ReadNothing
  <2> QED BY <2>6 DEF Next, Data
<1> QED BY <1>1, <1>2, <1>3 DEF ReadData

LEMMA MetaSteps == ASSUME TypeInv, ReaderInv, ReadMeta PROVE [Next]_vars
<1>1. CASE AskType \/ AskContent
  BY <1>1 DEF AskType, AskContent, Ask
<1>2. CASE TakeContent
  <2>1. /\ step = "content" /\ pc = "meta" /\ size > TypeSize /\ InCall
        /\ wanted = ContentSize /\ Len(call) = wanted
    BY <1>2 DEF TakeContent, ReaderInv, StepFits, CallFits, InCall, Due, Full
  <2>2. wanted > 0
    BY <2>1, DueIsWanted
  <2>3. ~ended /\ ~over
    BY <2>1, <2>2 DEF ReaderInv, BytesBeforeEnd
  <2>4. handed = payload + TypeSize + Len(call)
    BY <2>1, <2>3 DEF ReaderInv, InStream
  <2>5. unread' = 0
    <3>1. Len(call) = size - TypeSize
      BY <2>1 DEF ContentSize
    <3>2. size \in Nat /\ payload \in Nat /\ handed \in Nat
      BY LoopFacts DEF ReaderInv, ChannelOK
    <3>3. unread' = payload + size - handed
      BY <1>2 DEF TakeContent
    <3> QED BY <2>4, <3>1, <3>2, <3>3 DEF TypeSize
  <2>6. TakeMeta
    BY <1>2, <2>1, <2>3, <2>5 DEF TakeContent, TakeMeta
  <2> QED BY <2>6 DEF Next, Meta
<1>3. CASE TearContent
  BY <1>3 DEF TearContent, Next, Meta
<1> QED BY <1>1, <1>2, <1>3 DEF ReadMeta

LEMMA ReaderSteps ==
  ASSUME TypeInv, ReaderInv, [ReaderNext]_readerVars PROVE [Next]_vars
<1>1. CASE Work \/ Reconnect
  BY <1>1 DEF Work, Reconnect, Next, Data, Meta
<1>2. CASE Connect \/ Serve \/ UNCHANGED readerVars
  BY <1>2 DEF Connect, Serve, Arrive, Hand, GiveUp, readerVars
<1> QED BY <1>1, <1>2, HeaderSteps, DataSteps, MetaSteps DEF ReaderNext

-----------------------------------------------------------------------------
(* ReaderInv is inductive                                                  *)

(* A call begins.                                                          *)
LEMMA AskKeeps ==
  ASSUME TypeInv, ReaderInv, NEW c \in Calls, NEW n, Ask(c, n),
         c \in {"header", "size"} => n = HeaderSize,
         c = "chunk" => n = ToRead,
         c = "type" => n = TypeSize,
         c = "content" => n = ContentSize,
         c \in {"header", "size"} => pc = "header",
         c = "chunk" => pc = "data" /\ toProcess > 0,
         c \in {"type", "content"} => pc = "meta" /\ size > TypeSize,
         ~ended /\ c \in {"chunk", "type"} => handed + unread = payload + size,
         ~ended /\ c = "content" => over \/ handed = payload + TypeSize,
         connection # 0
  PROVE  ReaderInv'
<1>1. /\ UNCHANGED <<vars, payload, connection, arrived, handed, over>>
      /\ call' = <<>> /\ step' = c /\ wanted' = n /\ wanted' \in Nat
  BY DEF Ask, Socket!Call
<1>2. ChannelOK'
  BY <1>1 DEF ReaderInv, ChannelOK
<1>3. UNCHANGED <<pc, toProcess, buf, size, unread, ended>>
  BY <1>1 DEF vars, msgVars
<1>4. StepFits'
  BY <1>1, <1>3 DEF StepFits
<1>5. Len(call') = 0
  BY <1>1
<1>6. wanted' = Due'
  <2>1. ToRead' = ToRead /\ ContentSize' = ContentSize
    BY <1>3 DEF ToRead, ContentSize
  <2> QED BY <1>1, <2>1 DEF Due, Calls
<1>7. CallFits' /\ Settled' /\ BytesFollow' /\ BytesBeforeEnd'
  BY <1>1, <1>5, <1>6
     DEF CallFits, Settled, InCall, Calls, BytesFollow, BytesBeforeEnd
<1>8. EndKnown'
  BY <1>1, <1>3 DEF EndKnown, ReaderInv, InCall, Calls
<1>9. InStream'
  <2>1. pc = "meta" => unread = size
    BY LoopFacts
  <2>2. /\ handed \in Nat /\ payload \in Nat /\ size \in Nat /\ unread \in Nat
    BY LoopFacts DEF ReaderInv, ChannelOK
  <2>3. InCall'
    BY <1>1 DEF InCall, Calls
  <2> QED BY <1>1, <1>3, <1>5, <2>1, <2>2, <2>3 DEF InStream, TypeSize
<1>10. Unconnected'
  BY <1>1 DEF Unconnected
<1> QED BY <1>2, <1>4, <1>7, <1>8, <1>9, <1>10 DEF ReaderInv

(* The call is answered and the loop goes on.                              *)
LEMMA AnsweredKeeps ==
  ASSUME TypeInv, ReaderInv, Answered, Socket!Answered, payload' \in Nat,
         ended' \in BOOLEAN, ended' = over,
         ~ended' => handed + unread' = payload' + size',
         connection # 0
  PROVE  ReaderInv'
<1>1. /\ UNCHANGED <<connection, arrived, handed, wanted, call, over>>
      /\ step' = "none"
  BY DEF Answered, channel
<1>2. ChannelOK' /\ StepFits'
  BY <1>1 DEF ReaderInv, ChannelOK, StepFits
<1>3. ~InCall'
  BY <1>1 DEF InCall
<1>4. CallFits' /\ Settled' /\ BytesFollow' /\ BytesBeforeEnd' /\ EndKnown'
  BY <1>1, <1>3 DEF CallFits, Settled, Socket!Answered, BytesFollow,
                    BytesBeforeEnd, EndKnown
<1>5. InStream'
  BY <1>1, <1>3 DEF InStream
<1>6. Unconnected'
  BY <1>1 DEF Unconnected
<1> QED BY <1>2, <1>4, <1>5, <1>6 DEF ReaderInv

LEMMA InCallConnected ==
  ASSUME ReaderInv, InCall \/ pc # "header" PROVE connection # 0
BY DEF ReaderInv, Unconnected

LEMMA HeaderKeeps == ASSUME TypeInv, ReaderInv, ReadHeader PROVE ReaderInv'
<1>1. CASE AskHeader
  BY <1>1, AskKeeps DEF AskHeader, Calls
<1>2. CASE AskSize
  <2>1. step = "header" /\ pc = "header" /\ connection # 0
    BY <1>2, InCallConnected DEF AskSize, ReaderInv, StepFits, InCall
  <2> QED BY <1>2, <2>1, AskKeeps DEF AskSize, Calls
<1>3. CASE TakeHeader
  <2>1. /\ InCall /\ Len(call) = wanted /\ step # "chunk" /\ connection # 0
        /\ Socket!Answered
    BY <1>3, InCallConnected DEF TakeHeader, InCall, Full, Socket!Answered
  <2>2. call # <<>>
    BY <2>1, DueIsWanted
  <2>3. ~ended /\ ~over /\ handed \in Nat
    BY <2>1, <2>2 DEF ReaderInv, BytesBeforeEnd, ChannelOK
  <2>4. ended' = ended /\ size' = unread'
    BY <1>3 DEF TakeHeader, Message, DataHeader, StrayDataHeader, MetaHeader,
                OtherHeader, NewMessage
  <2>5. size' \in Nat
    <3>1. LoopInv /\ Header
      BY <1>3 DEF TakeHeader, Header, TypeInv
    <3>2. LoopInv'
      BY <3>1, HeaderInv
    <3> QED BY <3>2 DEF LoopInv, CountersOK
  <2>6. payload' = handed /\ Answered
    BY <1>3 DEF TakeHeader
  <2>7. ended \in BOOLEAN /\ over \in BOOLEAN
    BY LoopFacts DEF ReaderInv, ChannelOK
  <2>8. handed + unread' = payload' + size'
    BY <2>3, <2>4, <2>5, <2>6
  <2> QED BY <2>1, <2>3, <2>4, <2>6, <2>7, <2>8, AnsweredKeeps
<1>4. CASE LoseHeader
  <2>1. /\ over /\ ended' = TRUE /\ pc' = "stopped" /\ Answered
        /\ payload' = payload /\ InCall /\ Socket!Answered
    BY <1>4 DEF LoseHeader, Short, HeaderFails, InCall, Socket!Answered
  <2>2. payload \in Nat /\ over \in BOOLEAN
    BY DEF ReaderInv, ChannelOK
  <2> QED BY <2>1, <2>2, AnsweredKeeps, InCallConnected
<1> QED BY <1>1, <1>2, <1>3, <1>4 DEF ReadHeader

LEMMA DataKeeps == ASSUME TypeInv, ReaderInv, ReadData PROVE ReaderInv'
<1>1. CASE AskChunk
  <2>1. /\ pc = "data" /\ toProcess > 0 /\ ~InCall /\ Ask("chunk", ToRead)
        /\ connection # 0
    BY <1>1, InCallConnected DEF AskChunk, InCall
  <2>2. ~ended => handed + unread = payload + size
    BY <2>1 DEF ReaderInv, InStream
  <2> QED BY <2>1, <2>2, AskKeeps DEF Calls
<1>2. CASE TakeChunk \/ TakeNothing
  <2>1. /\ Answered /\ payload' = payload /\ ended' = over /\ size' = size
        /\ InCall /\ Socket!Answered
    BY <1>2 DEF TakeChunk, TakeNothing, msgVars, InCall, Full, Short,
                Socket!Answered
  <2>2. /\ payload \in Nat /\ handed \in Nat /\ over \in BOOLEAN /\ size \in Nat
    BY LoopFacts DEF ReaderInv, ChannelOK
  <2>3. CASE TakeChunk
    <3>1. unread' = payload + size - handed
      BY <2>3 DEF TakeChunk
    <3> QED BY <2>1, <2>2, <3>1, AnsweredKeeps, InCallConnected
  <2>4. CASE TakeNothing
    <3>1. /\ step = "chunk" /\ unread' = unread /\ unread \in Nat
          /\ ~over => Len(call) = 0
      BY <2>4, LoopFacts DEF TakeNothing, Full, Short, msgVars
    <3>2. ~over => handed + unread = payload + size
      BY <2>2, <3>1 DEF ReaderInv, EndKnown, InStream
    <3> QED BY <2>1, <2>2, <3>1, <3>2, AnsweredKeeps, InCallConnected
  <2> QED BY <1>2, <2>3, <2>4
<1> QED BY <1>1, <1>2 DEF ReadData

LEMMA MetaKeeps == ASSUME TypeInv, ReaderInv, ReadMeta PROVE ReaderInv'
<1>1. CASE AskType
  <2>1. /\ pc = "meta" /\ size > TypeSize /\ ~InCall /\ Ask("type", TypeSize)
        /\ connection # 0
    BY <1>1, InCallConnected DEF AskType, InCall
  <2>2. ~ended => handed + unread = payload + size
    BY <2>1 DEF ReaderInv, InStream
  <2> QED BY <2>1, <2>2, AskKeeps DEF Calls
<1>2. CASE AskContent
  <2>1. /\ step = "type" /\ InCall /\ Ask("content", ContentSize)
        /\ wanted = TypeSize /\ connection # 0
    BY <1>2, InCallConnected DEF AskContent, ReaderInv, CallFits, InCall, Due
  <2>2. pc = "meta" /\ size > TypeSize
    BY <2>1 DEF ReaderInv, StepFits
  <2>3. ~ended => over \/ handed = payload + TypeSize
    BY <1>2, <2>1 DEF AskContent, Full, Short, ReaderInv, InStream
  <2> QED BY <2>1, <2>2, <2>3, AskKeeps DEF Calls
<1>3. CASE TakeContent
  <2>1. /\ InCall /\ Len(call) = wanted /\ step # "chunk" /\ Answered
        /\ Socket!Answered
        /\ ended' = ended /\ payload' = payload /\ size' = size
        /\ unread' = payload + size - handed
    BY <1>3 DEF TakeContent, InCall, Full, Socket!Answered
  <2>2. call # <<>>
    BY <2>1, DueIsWanted
  <2>3. ~ended /\ ~over /\ payload \in Nat /\ over \in BOOLEAN /\ ended \in BOOLEAN
    BY <2>1, <2>2, LoopFacts DEF ReaderInv, BytesBeforeEnd, ChannelOK
  <2>4. size \in Nat /\ handed \in Nat
    BY LoopFacts DEF ReaderInv, ChannelOK
  <2> QED BY <2>1, <2>3, <2>4, AnsweredKeeps, InCallConnected
<1>4. CASE TearContent
  <2>1. /\ over /\ ended' = TRUE /\ Answered
        /\ payload' = payload /\ InCall /\ Socket!Answered
    BY <1>4 DEF TearContent, Short, TornMeta, InCall, Socket!Answered
  <2>2. payload \in Nat /\ over \in BOOLEAN
    BY DEF ReaderInv, ChannelOK
  <2> QED BY <2>1, <2>2, AnsweredKeeps, InCallConnected
<1> QED BY <1>1, <1>2, <1>3, <1>4 DEF ReadMeta

LEMMA WorkKeeps == ASSUME TypeInv, ReaderInv, Work PROVE ReaderInv'
<1>1. Answered /\ payload' = payload /\ ~InCall /\ Socket!Answered
  BY DEF Work, Answered, InCall, ReaderInv, Settled
<1>2. ended' = ended /\ size' = size /\ unread' = unread
  BY DEF Work, DataDone, Process, ProcessUnknown, Overrun, Discard, SkipMeta,
         Clear, msgVars
<1>3. pc # "header"
  BY DEF Work, DataDone, Process, ProcessUnknown, Overrun, Unknown, Discard,
         SkipMeta, Clear
<1>4. payload \in Nat /\ over \in BOOLEAN /\ ended \in BOOLEAN
  BY LoopFacts DEF ReaderInv, ChannelOK
<1>5. ended = over
  BY <1>1, <1>4 DEF ReaderInv, EndKnown
<1>6. ~ended => handed + unread = payload + size
  BY <1>1 DEF ReaderInv, InStream
<1> QED BY <1>1, <1>2, <1>3, <1>4, <1>5, <1>6, AnsweredKeeps, InCallConnected

(* A connection begins.                                                    *)
LEMMA OpenKeeps ==
  ASSUME TypeInv, ReaderInv, Connect \/ Reconnect PROVE ReaderInv'
<1>1. /\ connection' = connection + 1 /\ handed' = 0 /\ arrived' = 0
      /\ wanted' = 0 /\ call' = <<>> /\ over' = FALSE /\ step' = step
  BY DEF Connect, Reconnect, Socket!Open
<1>2. ~InCall
  BY DEF Connect, Reconnect, Restart, ReaderInv, Unconnected, StepFits, ChannelOK,
         InCall, Calls
<1>3. /\ ended' = FALSE /\ pc' = "header"
      /\ payload' = 0 /\ size' = 0 /\ unread' = 0
  BY LoopFacts DEF Connect, Reconnect, Restart, ReaderInv, Unconnected, vars,
                   msgVars
<1>4. step = "none" /\ payload \in Nat /\ connection \in Nat
  BY <1>2 DEF InCall, ReaderInv, ChannelOK
<1>5. ~InCall'
  BY <1>1, <1>4 DEF InCall
<1>6. ChannelOK'
  <2>1. <<>> \in Seq(Nat \X Nat)
    OBVIOUS
  <2>2. payload' \in Nat /\ connection' \in Nat
    BY <1>1, <1>3, <1>4
  <2> QED BY <1>1, <1>4, <2>1, <2>2 DEF ChannelOK
<1> QED BY <1>1, <1>3, <1>4, <1>5, <1>6
        DEF ReaderInv, StepFits, CallFits, Settled, Socket!Answered, BytesFollow,
            EndKnown, BytesBeforeEnd, InStream, Unconnected

(* The channel moves while a call is under way, or between two.            *)
LEMMA DueStays ==
  ASSUME UNCHANGED <<vars, step>> PROVE Due' = Due
BY DEF Due, ToRead, ContentSize, vars, msgVars

LEMMA HandKeeps == ASSUME TypeInv, ReaderInv, Hand PROVE ReaderInv'
<1>1. PICK n \in 1 .. arrived - handed :
        /\ Len(call) + n <= wanted
        /\ handed' = handed + n
        /\ call' = call \o [i \in 1 .. n |-> <<connection, handed + i>>]
  BY DEF Hand, Socket!Hand
<1>2. /\ ~over
      /\ UNCHANGED <<vars, step, payload, connection, arrived, wanted, over>>
  BY DEF Hand, Socket!Hand
<1>3. /\ handed \in Nat /\ connection \in Nat /\ arrived \in Nat /\ n \in Nat
      /\ n > 0 /\ call \in Seq(Nat \X Nat) /\ Len(call) \in Nat
      /\ wanted \in Nat
  BY <1>1 DEF ReaderInv, ChannelOK
<1> DEFINE new == [i \in 1 .. n |-> <<connection, handed + i>>]
<1>4. new \in Seq(Nat \X Nat) /\ Len(new) = n
  BY <1>3
<1>5. /\ call' \in Seq(Nat \X Nat) /\ Len(call') = Len(call) + n
      /\ \A i \in 1 .. Len(call) : call'[i] = call[i]
      /\ \A i \in Len(call) + 1 .. Len(call) + n : call'[i] = new[i - Len(call)]
  <2>1. call' = call \o new
    BY <1>1
  <2> HIDE DEF new
  <2> QED BY <1>3, <1>4, <2>1
<1>6. InCall /\ step # "none"
  <2>1. Len(call) # wanted
    BY <1>1, <1>3
  <2> QED BY <1>2, <2>1 DEF ReaderInv, Settled, Socket!Answered, InCall
<1>7. ~ended
  BY <1>2 DEF ReaderInv, EndKnown
<1>8. UNCHANGED <<pc, toProcess, size, unread, ended>>
  BY <1>2 DEF vars, msgVars
<1>9. Due' = Due
  BY <1>2, DueStays
<1>10. /\ ChannelOK' /\ StepFits' /\ CallFits' /\ Settled' /\ EndKnown'
       /\ Unconnected'
  BY <1>1, <1>2, <1>3, <1>5, <1>6, <1>8, <1>9
     DEF ReaderInv, ChannelOK, StepFits, CallFits, Settled, EndKnown, Unconnected,
         InCall
<1>11. BytesFollow'
  <2>1. handed' - Len(call') = handed - Len(call)
    BY <1>1, <1>3, <1>5
  <2>2. ASSUME NEW i \in 1 .. Len(call) + n
        PROVE  call'[i] = <<connection, handed - Len(call) + i>>
    <3>1. CASE i <= Len(call)
      <4>1. i \in 1 .. Len(call)
        BY <1>3, <3>1
      <4>2. call[i] = <<connection, handed - Len(call) + i>>
        BY <1>6, <4>1 DEF ReaderInv, BytesFollow
      <4> QED BY <1>5, <4>1, <4>2
    <3>2. CASE i > Len(call)
      <4> DEFINE j == i - Len(call)
      <4>1. j \in 1 .. n /\ i \in Len(call) + 1 .. Len(call) + n
        BY <1>3, <3>2
      <4>2. new[j] = <<connection, handed + j>>
        BY <4>1
      <4>3. handed + j = handed - Len(call) + i
        BY <1>3
      <4>4. call'[i] = new[j]
        BY <1>5, <4>1
      <4> QED BY <4>2, <4>3, <4>4
    <3> QED BY <1>3, <3>1, <3>2
  <2> HIDE DEF new
  <2> QED BY <1>2, <1>5, <2>1, <2>2 DEF BytesFollow
<1>12. BytesBeforeEnd'
  BY <1>2, <1>7, <1>8 DEF BytesBeforeEnd
<1>13. InStream'
  <2>1. size \in Nat /\ unread \in Nat /\ payload \in Nat
    BY LoopFacts DEF ReaderInv, ChannelOK
  <2>2. /\ handed' = handed + n /\ Len(call') = Len(call) + n
        /\ InCall' /\ ~over /\ ~ended
    BY <1>1, <1>2, <1>5, <1>6, <1>7 DEF InCall
  <2>3. step = "chunk" => handed' + unread = payload + size + Len(call')
    <3>1. step = "chunk" => handed + unread = payload + size + Len(call)
      BY <1>7 DEF ReaderInv, InStream
    <3>2. /\ handed \in Nat /\ n \in Nat /\ Len(call) \in Nat
          /\ handed' = handed + n /\ Len(call') = Len(call) + n
      BY <1>3, <2>2
    <3> HIDE DEF new
    <3> QED BY <2>1, <3>1, <3>2
  <2>4. step = "type" => handed' = payload + Len(call')
    BY <1>3, <1>7, <2>1, <2>2 DEF ReaderInv, InStream
  <2>5. step = "content" => handed' = payload + TypeSize + Len(call')
    <3>1. step = "content" => handed = payload + TypeSize + Len(call)
      BY <2>2 DEF ReaderInv, InStream
    <3>2. /\ handed \in Nat /\ n \in Nat /\ Len(call) \in Nat
          /\ handed' = handed + n /\ Len(call') = Len(call) + n
      BY <1>3, <2>2
    <3> HIDE DEF new
    <3> QED BY <2>1, <3>1, <3>2 DEF TypeSize
  <2> QED BY <1>2, <1>8, <2>2, <2>3, <2>4, <2>5 DEF InStream
<1> QED BY <1>10, <1>11, <1>12, <1>13 DEF ReaderInv

LEMMA ServeKeeps == ASSUME TypeInv, ReaderInv, Serve PROVE ReaderInv'
<1>1. CASE Arrive \/ GiveUp
  <2>1. /\ UNCHANGED <<vars, step, payload, connection, handed, wanted, call>>
        /\ arrived' \in Nat
        /\ over' = over \/ (over' = TRUE /\ Len(call) < wanted)
    BY <1>1 DEF Arrive, GiveUp, Socket!Arrive, Socket!End, ReaderInv, ChannelOK
  <2>2. UNCHANGED <<pc, toProcess, size, unread, ended>> /\ Due' = Due
    BY <2>1, DueStays DEF vars, msgVars
  <2>3. over' # over => InCall
    <3>1. Len(call) \in Nat /\ wanted \in Nat /\ over \in BOOLEAN
      BY DEF ReaderInv, ChannelOK
    <3>2. over' # over => ~over /\ Len(call) < wanted
      BY <2>1, <3>1
    <3>3. Len(call) < wanted => Len(call) # wanted
      BY <3>1
    <3> QED BY <3>2, <3>3 DEF ReaderInv, Settled, Socket!Answered
  <2>4. ChannelOK' /\ StepFits' /\ Unconnected'
    <3>1. over' \in BOOLEAN
      BY <2>1 DEF ReaderInv, ChannelOK
    <3>2. ChannelOK'
      BY <2>1, <3>1 DEF ReaderInv, ChannelOK
    <3> QED BY <2>1, <2>2, <3>2 DEF ReaderInv, StepFits, Unconnected, InCall
  <2>8. CallFits' /\ Settled' /\ BytesFollow'
    BY <2>1, <2>2 DEF ReaderInv, CallFits, Settled, Socket!Answered, BytesFollow,
                      InCall
  <2>5. EndKnown'
    BY <2>1, <2>2, <2>3 DEF ReaderInv, EndKnown, InCall, ChannelOK
  <2>6. BytesBeforeEnd'
    BY <2>1, <2>2, DueIsWanted DEF ReaderInv, BytesBeforeEnd, InCall
  <2>7. InStream'
    BY <2>1, <2>2 DEF ReaderInv, InStream, InCall
  <2> QED BY <2>4, <2>5, <2>6, <2>7, <2>8 DEF ReaderInv
<1> QED BY <1>1, HandKeeps DEF Serve

LEMMA ReaderKeeps ==
  ASSUME TypeInv, ReaderInv, [ReaderNext]_readerVars PROVE ReaderInv'
<1>1. CASE UNCHANGED readerVars
  <2>1. /\ UNCHANGED <<vars, step, payload>>
        /\ UNCHANGED <<connection, arrived, handed, wanted, call, over>>
    BY <1>1 DEF readerVars, channel
  <2>2. UNCHANGED <<pc, toProcess, size, unread, ended>> /\ Due' = Due
    BY <2>1, DueStays DEF vars, msgVars
  <2> QED BY <2>1, <2>2 DEF ReaderInv, ChannelOK, StepFits, CallFits, Settled,
             Socket!Answered, BytesFollow, EndKnown, BytesBeforeEnd, InStream,
             Unconnected, InCall
<1> QED BY <1>1, OpenKeeps, HeaderKeeps, DataKeeps, MetaKeeps, WorkKeeps,
           ServeKeeps DEF ReaderNext

-----------------------------------------------------------------------------
(* Theorems                                                                *)

(* The stream invariant of the reader is inductive together with the one   *)
(* of the loop.                                                            *)
THEOREM ReaderInvariance == ReaderSpec => [](TypeInv /\ ReaderInv)
<1>1. ReaderInit => TypeInv /\ ReaderInv
  <2> SUFFICES ASSUME ReaderInit PROVE TypeInv /\ ReaderInv
    OBVIOUS
  <2>1. TypeInv
    BY InitInv, InitTypes DEF TypeInv, ReaderInit
  <2>2. ReaderInv
    <3>1. /\ pc = "header" /\ step = "none" /\ ended = FALSE
          /\ payload = 0 /\ size = 0 /\ unread = 0
          /\ connection = 0 /\ handed = 0 /\ arrived = 0 /\ call = <<>>
          /\ wanted = 0 /\ over = FALSE
      BY DEF ReaderInit, Init, Socket!ChannelInit
    <3>2. ~InCall
      BY <3>1 DEF InCall
    <3>3. <<>> \in Seq(Nat \X Nat)
      OBVIOUS
    <3>4. ChannelOK
      BY <3>1, <3>3 DEF ChannelOK
    <3> QED BY <3>1, <3>2, <3>4 DEF ReaderInv, StepFits, CallFits, Settled,
               Socket!Answered, BytesFollow, EndKnown, BytesBeforeEnd, InStream,
               Unconnected
  <2> QED BY <2>1, <2>2
<1>2. TypeInv /\ ReaderInv /\ [ReaderNext]_readerVars => (TypeInv /\ ReaderInv)'
  BY ReaderSteps, StepKeepsTypes, ReaderKeeps
<1> QED BY <1>1, <1>2, PTL DEF ReaderSpec

(* Whatever the calls of receiveComplete return, and although most results *)
(* are not looked at, the loop does what ReceiveLoop says: every byte of a *)
(* payload is taken once and at its place, and a message that is cut off   *)
(* is the last one.                                                        *)
THEOREM CallsReadMessages == ReaderSpec => ReadsMessages
<1>1. ReaderInit => Init
  BY DEF ReaderInit
<1>2. TypeInv /\ ReaderInv /\ [ReaderNext]_readerVars => [Next]_vars
  BY ReaderSteps
<1> QED BY <1>1, <1>2, ReaderInvariance, PTL
        DEF ReaderSpec, ReadsMessages, Spec

(* A header is taken from the place in the stream right behind the payload *)
(* of the message before.                                                  *)
THEOREM HeadersFollow == ReaderSpec => []HeaderFollows
<1>1. TypeInv /\ ReaderInv => HeaderFollows
  <2> SUFFICES ASSUME TypeInv, ReaderInv, pc = "header", step = "none", ~over
               PROVE  handed = payload + size
    BY DEF HeaderFollows
  <2>1. ~ended /\ ~InCall
    BY DEF ReaderInv, EndKnown, InCall
  <2>2. unread = 0
    BY <2>1 DEF TypeInv, LoopInv, Framed
  <2>3. handed + unread = payload + size
    BY <2>1 DEF ReaderInv, InStream
  <2> QED BY <2>2, <2>3 DEF ReaderInv, ChannelOK
<1> QED BY <1>1, ReaderInvariance, PTL

(* Every variable of loop and channel keeps its type.                      *)
THEOREM ReaderTypeCorrect == ReaderSpec => []ReaderTypeOK
<1>1. ReaderInv => ChannelOK
  BY DEF ReaderInv
<1>2. TypeInv => TypeOK
  BY TypesImplied
<1>3. TypeOK /\ ChannelOK => ReaderTypeOK
  BY DEF ReaderTypeOK, ChannelOK
<1> QED BY <1>1, <1>2, <1>3, ReaderInvariance, PTL

(* What ReceiveLoop says of the loop holds call by call: framing, bounds   *)
(* of the buffer and format.                                               *)
THEOREM CallsStayFramed ==
  ReaderSpec => [](Framed /\ InBounds /\ FormatCurrent)
BY CallsReadMessages, StaysFramed, StaysInBounds, FormatIsCurrent, PTL
   DEF ReadsMessages

(* Call by call, too, values, raw bytes and clocks are the ones sent, as   *)
(* far as one call of processMeasuredData takes a block.                   *)
THEOREM CallsDeliver ==
  ASSUME ValuesFit, BlockValuesFit, BlocksFit, ValuesWhole
  PROVE  ReaderSpec => [](/\ DeliveredInOrder /\ AllDelivered /\ RawMatches
                          /\ ClockInStep)
BY CallsReadMessages, DeliversInOrder, DeliversAll, RawIsValues, ClockKeepsStep, PTL
   DEF ReadsMessages
=============================================================================
