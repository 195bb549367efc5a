------------------------- MODULE StreamSocketProofs -------------------------
(***************************************************************************)
(* Proofs about StreamSocket, for every size of the buffer and of the      *)
(* requests.                                                               *)
(***************************************************************************)
EXTENDS StreamSocket, TLAPS

(* What m_buffer holds unread are the next bytes of the connection. *)
BufferIsNext ==
  \A j \in m_alreadyRead .. m_fillLevel - 1 :
    m_buffer[j] = <<conn, handed + (j - m_alreadyRead) + 1>>

UnderWay == {"recv", "wait", "polling"}

(* A call that is under way still wants bytes; one that has been answered  *)
(* got them, unless the connection is over.                                *)
CallWants ==
  IF rpc \in UnderWay THEN Len(block) < size
                      ELSE Len(block) = size \/ ended

(* A connection found to have ended stays so until the next one. *)
EndIsFinal ==
  /\ ended => ~Usable \/ EndOfStream
  /\ rpc \in {"resolve", "dial", "dialing"} => ~ended

(* The latest descriptor is among those that are counted. *)
OpenCounted == isOpen => openSockets >= 1

(* What holds however the waiting for data is done ... *)
SocketInv ==
  /\ TypeOK
  /\ NothingLost /\ InOrder /\ BufferIsNext /\ CallWants /\ OpenCounted

(* ... and what depends on it. *)
IInv == SocketInv /\ EndIsFinal

-----------------------------------------------------------------------------
(* Appending the next bytes of the connection keeps a call in order. *)
LEMMA AppendInOrder ==
  ASSUME NEW b \in Seq(Nat \X Nat), NEW t \in Seq(Nat \X Nat),
         NEW c \in Nat, NEW h \in Nat,
         \A i \in DOMAIN b : b[i] = <<c, h - Len(b) + i>>,
         \A i \in DOMAIN t : t[i] = <<c, h + i>>
  PROVE  \A i \in DOMAIN (b \o t) :
              (b \o t)[i] = <<c, (h + Len(t)) - Len(b \o t) + i>>
<1>1. b \o t \in Seq(Nat \X Nat) /\ Len(b \o t) = Len(b) + Len(t)
  OBVIOUS
<1>2. ASSUME NEW i \in DOMAIN (b \o t)
      PROVE  (b \o t)[i] = <<c, (h + Len(t)) - Len(b \o t) + i>>
  <2>1. i \in 1 .. Len(b) + Len(t)
    BY <1>1
  <2>2. CASE i <= Len(b)
    <3>1. (b \o t)[i] = b[i] /\ i \in DOMAIN b
      BY <2>1, <2>2
    <3>2. (h + Len(t)) - Len(b \o t) + i = h - Len(b) + i
      BY <1>1, <2>1
    <3> QED BY <3>1, <3>2
  <2>3. CASE i > Len(b)
    <3>1. (b \o t)[i] = t[i - Len(b)] /\ i - Len(b) \in DOMAIN t
      BY <2>1, <2>3
    <3>2. (h + Len(t)) - Len(b \o t) + i = h + (i - Len(b))
      BY <1>1, <2>1
    <3> QED BY <3>1, <3>2
  <2>4. Len(b) \in Nat
    OBVIOUS
  <2>5. i <= Len(b) \/ i > Len(b)
    BY <2>1, <2>4
  <2> QED BY ONLY <2>2, <2>3, <2>5, Zenon
<1> QED BY <1>1, <1>2

LEMMA InitInv == Init => IInv
<1> SUFFICES ASSUME Init PROVE IInv
  OBVIOUS
<1> USE DEF Init
<1>1. ThreadsOK /\ NetworkOK
  BY DEF ThreadsOK, NetworkOK
<1>5. FlagsOK
  BY DEF FlagsOK
<1>2. ReaderOK
  <2>1. m_buffer \in [0 .. BufferSize - 1 -> Byte]
    BY DEF Byte
  <2>2. block \in Seq(Byte) /\ Len(block) = 0
    OBVIOUS
  <2> QED BY <2>1, <2>2, SizesAssumption DEF ReaderOK
<1>3. NothingLost /\ InOrder
  BY DEF NothingLost, InOrder, Unread, Receiving
<1>4. BufferIsNext /\ CallWants /\ EndIsFinal /\ OpenCounted
  BY DEF BufferIsNext, CallWants, UnderWay, EndIsFinal, OpenCounted
<1> QED BY <1>1, <1>2, <1>3, <1>4, <1>5 DEF IInv, SocketInv, TypeOK

-----------------------------------------------------------------------------
(* A step that neither reads from the socket nor opens a new one leaves    *)
(* the data where they are.                                                *)
DataUnchanged ==
  UNCHANGED <<conn, readerVars, callVars, ended, taken>>

LEMMA KeepsData ==
  ASSUME SocketInv, DataUnchanged,
         rpc \in Receiving \/ rpc' \notin Receiving \/ Unread = 0,
         rpc' \in Receiving \/ rpc \notin Receiving \/ ended,
         rpc' \in UnderWay <=> rpc \in UnderWay
  PROVE  ReaderOK' /\ NothingLost' /\ InOrder' /\ BufferIsNext' /\ CallWants'
<1> USE DEF SocketInv, DataUnchanged, readerVars, callVars
<1>1. ReaderOK'
  BY DEF TypeOK, ReaderOK
<1>2. NothingLost'
  BY DEF NothingLost, Unread
<1>3. InOrder'
  BY DEF InOrder
<1>4. BufferIsNext'
  BY DEF BufferIsNext
<1>5. CallWants'
  BY DEF CallWants
<1> QED BY <1>1, <1>2, <1>3, <1>4, <1>5

LEMMA CreateSocketInv == ASSUME SocketInv, CreateSocket PROVE SocketInv'
<1> USE DEF SocketInv, TypeOK, CreateSocket, readerVars
<1>1. ThreadsOK'
  BY DEF ThreadsOK, Connecting
<1>2. NetworkOK' /\ FlagsOK'
  <2>1. NetworkOK'
    BY DEF NetworkOK
  <2>2. FlagsOK'
    BY DEF FlagsOK
  <2> QED BY <2>1, <2>2
<1>3. block' \in Seq(Byte) /\ Len(block') = 0
  OBVIOUS
<1>4. ReaderOK'
  BY <1>3 DEF ReaderOK
<1>5. m_alreadyRead = m_fillLevel
  BY DEF NothingLost, Unread, ReaderOK, Receiving
<1>6. NothingLost' /\ BufferIsNext'
  BY <1>5 DEF NothingLost, BufferIsNext, Unread, Receiving, ReaderOK
<1>7. InOrder'
  BY DEF InOrder
<1>8. CallWants' /\ OpenCounted'
  BY <1>3 DEF CallWants, UnderWay, OpenCounted, NetworkOK
<1> QED BY <1>1, <1>2, <1>4, <1>6, <1>7, <1>8

(* The steps of both threads that touch no data, and those of the peer. *)
LEMMA QuietInv ==
  ASSUME SocketInv,
         \/ Start \/ CreateSocketFails \/ Resolve \/ Dial \/ DialWait
         \/ EnterPoll \/ PollReturns \/ Leave \/ Stop \/ Environment
  PROVE  SocketInv'
<1> USE DEF Stop, Environment, kernelVars, peerVars
<1>1. ReaderOK' /\ NothingLost' /\ InOrder' /\ BufferIsNext' /\ CallWants'
  <2>1. DataUnchanged
    BY DEF DataUnchanged, readerVars, callVars, Start, CreateSocketFails, Resolve, Dial,
           DialWait, EnterPoll, PollReturns, Leave, StopShutdown, StopClose,
           StopClear, PeerSends, PeerGoes, KeepAliveExpires, PollInterrupted
  <2>2. rpc \in Receiving \/ rpc' \notin Receiving \/ Unread = 0
    BY DEF SocketInv, NothingLost, Receiving
  <2>3. rpc' \in Receiving \/ rpc \notin Receiving \/ ended
    BY DEF Receiving, Start, CreateSocketFails, Resolve, Dial,
           DialWait, EnterPoll, PollReturns, Leave, StopShutdown, StopClose,
           StopClear, PeerSends, PeerGoes, KeepAliveExpires, PollInterrupted
  <2>4. rpc' \in UnderWay <=> rpc \in UnderWay
    BY DEF UnderWay, Start, CreateSocketFails, Resolve, Dial, Established,
           DialWait, EnterPoll, PollReturns, Leave, StopShutdown, StopClose,
           StopClear, PeerSends, PeerGoes, KeepAliveExpires, PollInterrupted
  <2> QED BY <2>1, <2>2, <2>3, <2>4, KeepsData
<1>2. ThreadsOK'
  BY DEF SocketInv, TypeOK, ThreadsOK, Connecting, Receiving,
           Start, CreateSocketFails, Resolve, Dial, Established, DialWait,
           EnterPoll, PollReturns, Leave, StopShutdown, StopClose, StopClear,
           PeerSends, PeerGoes, KeepAliveExpires, PollInterrupted
<1>3. FlagsOK'
  BY DEF SocketInv, TypeOK, FlagsOK, Usable,
           Start, CreateSocketFails, Resolve, Dial, Established, DialWait,
           EnterPoll, PollReturns, Leave, StopShutdown, StopClose, StopClear,
           PeerSends, PeerGoes, KeepAliveExpires, PollInterrupted
<1>4. NetworkOK' /\ OpenCounted'
  <2>1. CASE StopClose
    <3>1. CASE Usable
      <4>1. isOpen /\ ~isOpen' /\ openSockets' = openSockets - 1
        BY <2>1, <3>1 DEF StopClose, Usable, SocketInv, TypeOK, FlagsOK
      <4>2. openSockets' \in Nat
        BY <4>1 DEF SocketInv, TypeOK, OpenCounted, NetworkOK
      <4> QED BY <2>1, <4>1, <4>2
              DEF StopClose, SocketInv, TypeOK, NetworkOK, OpenCounted
    <3>2. CASE ~Usable
      <4>1. isOpen' <=> isOpen
        BY <2>1, <3>2 DEF StopClose, SocketInv, TypeOK, FlagsOK
      <4> QED BY <2>1, <3>2, <4>1
              DEF StopClose, SocketInv, TypeOK, NetworkOK, OpenCounted
    <3> QED BY <3>1, <3>2
  <2>2. CASE ~StopClose
    BY <2>2 DEF SocketInv, TypeOK, NetworkOK, OpenCounted, Usable,
           Start, CreateSocketFails, Resolve, Dial, Established, DialWait,
           EnterPoll, PollReturns, Leave, StopShutdown, StopClear,
           PeerSends, PeerGoes, KeepAliveExpires, PollInterrupted
  <2> QED BY <2>1, <2>2
<1> QED BY <1>1, <1>2, <1>3, <1>4 DEF SocketInv, TypeOK

-----------------------------------------------------------------------------
(* The steps of receiveComplete and recv().                                *)

LEMMA ReceiveInv ==
  ASSUME SocketInv, NEW n \in Nat, Receive(n) PROVE SocketInv'
<1> USE DEF SocketInv, TypeOK, Receive, readerVars, kernelVars, peerVars
<1>1. ThreadsOK'
  BY DEF ThreadsOK, Receiving
<1>2. FlagsOK'
  BY DEF FlagsOK
<1>3. NetworkOK' /\ OpenCounted'
  BY DEF NetworkOK, OpenCounted
<1>4. block' \in Seq(Byte) /\ Len(block') = 0
  OBVIOUS
<1>5. ReaderOK'
  BY <1>4 DEF ReaderOK
<1>6. NothingLost'
  BY DEF NothingLost, Unread, Receiving
<1>7. InOrder' /\ BufferIsNext'
  BY DEF InOrder, BufferIsNext
<1>8. CallWants'
  BY <1>4 DEF CallWants, UnderWay
<1> QED BY <1>1, <1>2, <1>3, <1>5, <1>6, <1>7, <1>8

LEMMA ReadvShortInv ==
  ASSUME SocketInv, ReadvEnds \/ ReadvWouldBlock PROVE SocketInv'
<1> USE DEF SocketInv, TypeOK, ReadvEnds, ReadvWouldBlock, Emptied, ComeBackShort, callVars,
            kernelVars, peerVars
<1>1. ThreadsOK'
  BY DEF ThreadsOK, Receiving
<1>2. FlagsOK'
  BY DEF FlagsOK
<1>3. NetworkOK' /\ OpenCounted'
  BY DEF NetworkOK, OpenCounted
<1>4. ReaderOK'
  BY SizesAssumption DEF ReaderOK
<1>5. NothingLost'
  BY DEF NothingLost, Unread, Receiving
<1>6. InOrder' /\ BufferIsNext'
  BY DEF InOrder, BufferIsNext
<1>7. CallWants'
  BY DEF CallWants, UnderWay
<1> QED BY <1>1, <1>2, <1>3, <1>4, <1>5, <1>6, <1>7

(* Bytes that are the next ones are stored in the block. *)
LEMMA DeliverInOrder ==
  ASSUME SocketInv, NEW bytes \in Seq(Byte), Deliver(bytes), rpc = "recv",
         Len(bytes) \in 1 .. SizeLeft, conn' = conn,
         \A i \in DOMAIN bytes : bytes[i] = <<conn, handed + i>>
  PROVE  /\ block' \in Seq(Byte) /\ Len(block') = Len(block) + Len(bytes)
         /\ Len(block') <= size' /\ size' \in Nat
         /\ handed' = handed + Len(bytes) /\ handed' \in Nat
         /\ rpc' \in {"ready", "recv"}
         /\ InOrder' /\ CallWants'
<1>1. /\ block \in Seq(Nat \X Nat) /\ bytes \in Seq(Nat \X Nat)
      /\ conn \in Nat /\ handed \in Nat /\ size \in Nat
      /\ Len(block) \in Nat /\ Len(bytes) \in Nat
  BY DEF SocketInv, TypeOK, ThreadsOK, ReaderOK, Byte
<1>2. /\ block' = block \o bytes /\ handed' = handed + Len(bytes)
      /\ size' = size
  BY DEF Deliver
<1>3. \A i \in DOMAIN block : block[i] = <<conn, handed - Len(block) + i>>
  BY DEF SocketInv, InOrder
<1>4. SizeLeft \in Int /\ Len(bytes) <= SizeLeft
  BY <1>1 DEF SizeLeft
<1>5. /\ block \o bytes \in Seq(Nat \X Nat)
      /\ Len(block \o bytes) = Len(block) + Len(bytes)
  BY <1>1
<1>6. \A i \in DOMAIN (block \o bytes) :
           (block \o bytes)[i]
             = <<conn, (handed + Len(bytes)) - Len(block \o bytes) + i>>
  <2>1. block \in Seq(Nat \X Nat) /\ bytes \in Seq(Nat \X Nat)
    BY <1>1
  <2>2. conn \in Nat /\ handed \in Nat
    BY <1>1
  <2> QED BY <1>3, <2>1, <2>2, AppendInOrder, ZenonT(30)
<1>7. InOrder'
  <2>1. \A i \in DOMAIN block' : block'[i] = <<conn', handed' - Len(block') + i>>
    BY <1>2, <1>6
  <2> QED BY <2>1 DEF InOrder
<1>8. Len(block') = Len(block) + Len(bytes) /\ Len(block') <= size'
  BY <1>1, <1>2, <1>5, <1>4 DEF SizeLeft
<1>9. rpc' \in {"ready", "recv"} /\ CallWants'
  <2>1. CASE Len(bytes) = SizeLeft
    <3>1. rpc' = "ready"
      BY <2>1 DEF Deliver
    <3>2. Len(block') = size'
      BY <1>1, <1>2, <1>8, <2>1 DEF SizeLeft
    <3> QED BY <3>1, <3>2 DEF CallWants, UnderWay
  <2>2. CASE Len(bytes) # SizeLeft
    <3>1. rpc' = "recv"
      BY <2>2 DEF Deliver
    <3>2. Len(bytes) < SizeLeft
      BY <1>4, <1>1, <2>2
    <3>3. Len(block') < size'
      BY <1>1, <1>2, <1>8, <3>2 DEF SizeLeft
    <3> QED BY <3>1, <3>3 DEF CallWants, UnderWay
  <2> QED BY <2>1, <2>2
<1> QED BY <1>1, <1>2, <1>5, <1>7, <1>8, <1>9 DEF Byte

LEMMA RecvFromBufferInv == ASSUME SocketInv, RecvFromBuffer PROVE SocketInv'
<1> DEFINE n == Lesser(Unread, SizeLeft)
           bytes == Buffered(n)
<1>1. /\ rpc = "recv" /\ Unread > 0 /\ Deliver(bytes)
      /\ m_alreadyRead' = m_alreadyRead + n
      /\ UNCHANGED <<m_fd, pfd, m_buffer, m_fillLevel, spc, kernelVars,
                      peerVars, taken>>
  BY DEF RecvFromBuffer
<1>2. /\ conn \in Nat /\ m_fillLevel \in 0 .. BufferSize
      /\ m_alreadyRead \in 0 .. m_fillLevel /\ handed \in Nat
      /\ m_buffer \in [0 .. BufferSize - 1 -> Byte] /\ BufferSize \in Nat
      /\ SizeLeft \in Nat \ {0} /\ Unread \in Nat
  <2>1. size \in Nat /\ Len(block) \in Nat /\ Len(block) < size
    BY <1>1 DEF SocketInv, TypeOK, ReaderOK, CallWants, UnderWay
  <2> QED BY <2>1, SizesAssumption
          DEF SocketInv, TypeOK, ThreadsOK, ReaderOK, SizeLeft, Unread
<1>3. n \in 1 .. SizeLeft /\ n \in 1 .. Unread
  BY <1>1, <1>2 DEF Lesser
<1>4. \A i \in 1 .. n : m_alreadyRead + i - 1 \in 0 .. BufferSize - 1
                       /\ m_alreadyRead + i - 1 \in m_alreadyRead .. m_fillLevel - 1
  BY <1>2, <1>3 DEF Unread
<1>5. bytes \in Seq(Byte) /\ Len(bytes) = n /\ DOMAIN bytes = 1 .. n
  BY <1>2, <1>3, <1>4 DEF Buffered
<1>6. \A i \in DOMAIN bytes : bytes[i] = <<conn, handed + i>>
  <2> SUFFICES ASSUME NEW i \in 1 .. n PROVE bytes[i] = <<conn, handed + i>>
    BY <1>5
  <2>1. bytes[i] = m_buffer[m_alreadyRead + i - 1]
    BY DEF Buffered
  <2>2. m_buffer[m_alreadyRead + i - 1]
          = <<conn, handed + ((m_alreadyRead + i - 1) - m_alreadyRead) + 1>>
    BY <1>4 DEF SocketInv, BufferIsNext
  <2>3. handed + ((m_alreadyRead + i - 1) - m_alreadyRead) + 1 = handed + i
    BY <1>2
  <2> QED BY <2>1, <2>2, <2>3
<1> HIDE DEF bytes, n
<1>7. /\ block' \in Seq(Byte) /\ Len(block') <= size' /\ size' \in Nat
      /\ handed' = handed + n /\ handed' \in Nat
      /\ rpc' \in {"ready", "recv"} /\ InOrder' /\ CallWants'
  <2>1. conn' = conn
    BY <1>1 DEF kernelVars
  <2> QED BY <1>1, <1>3, <1>5, <1>6, <2>1, DeliverInOrder
<1>8. ThreadsOK' /\ NetworkOK' /\ OpenCounted'
  BY <1>1, <1>7 DEF SocketInv, TypeOK, ThreadsOK, NetworkOK, OpenCounted, Receiving,
                    kernelVars, peerVars
<1>9. ReaderOK'
  BY <1>1, <1>2, <1>3, <1>7 DEF ReaderOK, Unread
<1>10. FlagsOK'
  BY <1>1, <1>7 DEF SocketInv, TypeOK, FlagsOK, Deliver, kernelVars
<1>11. ~ended /\ ~ended' /\ rpc \in Receiving /\ rpc' \in Receiving
  BY <1>1, <1>7 DEF SocketInv, NothingLost, Deliver, Receiving
<1>12. NothingLost'
  BY <1>1, <1>2, <1>3, <1>7, <1>11 DEF SocketInv, NothingLost, Unread
<1>13. BufferIsNext'
  <2> SUFFICES ASSUME NEW j \in m_alreadyRead' .. m_fillLevel' - 1
               PROVE  m_buffer'[j] = <<conn', handed' + (j - m_alreadyRead') + 1>>
    BY DEF BufferIsNext
  <2>1. j \in m_alreadyRead .. m_fillLevel - 1 /\ j \in Int /\ n \in Nat
    BY <1>1, <1>2, <1>3
  <2>2. m_buffer[j] = <<conn, handed + (j - m_alreadyRead) + 1>>
    BY <2>1 DEF SocketInv, BufferIsNext
  <2>3. handed + (j - m_alreadyRead) + 1 = handed' + (j - m_alreadyRead') + 1
    BY <1>1, <1>2, <1>7, <2>1
  <2> QED BY <1>1, <2>2, <2>3 DEF kernelVars
<1> QED BY <1>7, <1>8, <1>9, <1>10, <1>12, <1>13 DEF SocketInv, TypeOK

LEMMA ReadvBytesInv ==
  ASSUME SocketInv, NEW n \in Nat, ReadvBytes(n), ~ended PROVE SocketInv'
<1> DEFINE surplus == IF n > SizeLeft THEN n - SizeLeft ELSE 0
           bytes == Wire(taken, n - surplus)
<1>1. /\ rpc = "recv" /\ Unread = 0 /\ Usable
      /\ n \in 1 .. Lesser(arrived - taken, SizeLeft + BufferSize)
      /\ taken' = taken + n /\ Deliver(bytes)
      /\ m_fillLevel' = surplus /\ m_alreadyRead' = 0
      /\ m_buffer' = [i \in DOMAIN m_buffer |->
                        IF i < surplus THEN <<conn, taken + SizeLeft + i + 1>>
                                       ELSE m_buffer[i]]
      /\ UNCHANGED <<m_fd, pfd, spc, kernelVars, peerVars>>
  BY DEF ReadvBytes
<1>2. /\ conn \in Nat /\ handed \in Nat /\ taken \in Nat /\ arrived \in Nat
      /\ m_buffer \in [0 .. BufferSize - 1 -> Byte] /\ BufferSize \in Nat
      /\ SizeLeft \in Nat \ {0} /\ handed = taken
  <2>1. size \in Nat /\ Len(block) \in Nat /\ Len(block) < size
    BY <1>1 DEF SocketInv, TypeOK, ReaderOK, CallWants, UnderWay
  <2>2. taken \in Nat /\ arrived \in Nat
    BY DEF SocketInv, TypeOK, NetworkOK
  <2>3. handed \in Nat /\ handed = taken
    BY <1>1, <2>2 DEF SocketInv, TypeOK, ReaderOK, NothingLost
  <2> QED BY <2>1, <2>2, <2>3, SizesAssumption
          DEF SocketInv, TypeOK, ThreadsOK, ReaderOK, SizeLeft
<1>3. /\ n \in 1 .. SizeLeft + BufferSize /\ n <= arrived - taken
      /\ surplus \in 0 .. BufferSize /\ n - surplus \in 1 .. SizeLeft
      /\ surplus > 0 => n - surplus = SizeLeft
  BY <1>1, <1>2 DEF Lesser
<1>4. /\ bytes \in Seq(Byte) /\ Len(bytes) = n - surplus
      /\ \A i \in DOMAIN bytes : bytes[i] = <<conn, handed + i>>
  BY <1>2, <1>3 DEF Wire, Byte
<1> HIDE DEF bytes, surplus
<1>7. /\ block' \in Seq(Byte) /\ Len(block') <= size' /\ size' \in Nat
      /\ handed' = handed + (n - surplus) /\ handed' \in Nat
      /\ rpc' \in {"ready", "recv"} /\ InOrder' /\ CallWants'
  <2>1. conn' = conn
    BY <1>1 DEF kernelVars
  <2> QED BY <1>1, <1>3, <1>4, <2>1, DeliverInOrder
<1>8. ThreadsOK' /\ OpenCounted'
  BY <1>1, <1>7 DEF SocketInv, TypeOK, ThreadsOK, OpenCounted, Receiving, kernelVars
<1>9. NetworkOK'
  BY <1>1, <1>2, <1>3 DEF SocketInv, TypeOK, NetworkOK, kernelVars, peerVars
<1>10. ReaderOK'
  <2>1. m_buffer' \in [0 .. BufferSize - 1 -> Byte]
    BY <1>1, <1>2 DEF Byte
  <2> QED BY <1>1, <1>2, <1>3, <1>7, <2>1 DEF ReaderOK
<1>11. ~ended /\ ended' = ended
  BY <1>1 DEF Deliver
<1>12. FlagsOK'
  BY <1>1, <1>7, <1>11 DEF SocketInv, TypeOK, FlagsOK, kernelVars
<1>13. NothingLost'
  BY <1>1, <1>2, <1>3, <1>7, <1>11 DEF NothingLost, Unread, Receiving
<1>14. BufferIsNext'
  <2> SUFFICES ASSUME NEW j \in 0 .. surplus - 1
               PROVE  m_buffer'[j] = <<conn, handed' + (j - 0) + 1>>
    BY <1>1 DEF BufferIsNext, kernelVars
  <2>1. j \in 0 .. BufferSize - 1 /\ j < surplus /\ surplus > 0
    BY <1>2, <1>3
  <2>2. m_buffer'[j] = <<conn, taken + SizeLeft + j + 1>>
    BY <1>1, <1>2, <2>1
  <2>3. taken + SizeLeft + j + 1 = handed' + (j - 0) + 1
    BY <1>2, <1>3, <1>7, <2>1
  <2> QED BY <2>2, <2>3
<1> QED BY <1>7, <1>8, <1>9, <1>10, <1>12, <1>13, <1>14 DEF SocketInv, TypeOK

-----------------------------------------------------------------------------
(* A connection that has ended is not read from any more. *)
LEMMA EndedIsEmpty ==
  ASSUME IInv, NEW n, ReadvBytes(n) PROVE ~ended
<1>1. Usable /\ n \in 1 .. Lesser(arrived - taken, SizeLeft + BufferSize)
  BY DEF ReadvBytes
<1>2. arrived \in Nat /\ taken \in Nat
  BY DEF IInv, SocketInv, TypeOK, NetworkOK
<1>3. SizeLeft \in Int
  BY DEF IInv, SocketInv, TypeOK, ReaderOK, SizeLeft
<1>4. arrived # taken
  BY <1>1, <1>2, <1>3, SizesAssumption DEF Lesser
<1> QED BY <1>1, <1>4 DEF IInv, EndIsFinal, EndOfStream

(* Only a new connection makes one that has ended readable again. *)
LEMMA EndStaysFinal == ASSUME IInv, Next PROVE EndIsFinal'
<1> USE DEF readerVars, callVars, kernelVars, peerVars
<1>1. CASE Start \/ Connect
  BY <1>1 DEF IInv, EndIsFinal, Usable, EndOfStream, Start, Connect,
     CreateSocket, CreateSocketFails, Resolve, Dial, DialWait, Established
<1>2. CASE Stop \/ Environment
  BY <1>2 DEF IInv, EndIsFinal, Usable, EndOfStream, Stop, Environment,
     StopShutdown, StopClose, StopClear, PeerSends, PeerGoes,
     KeepAliveExpires, PollInterrupted, SocketInv, TypeOK, FlagsOK
<1>3. ASSUME NEW n \in 0 .. MaxRequest, Receive(n) PROVE EndIsFinal'
  BY <1>3 DEF IInv, EndIsFinal, Usable, EndOfStream, Receive
<1>4. CASE RecvFromBuffer
  BY <1>4 DEF IInv, EndIsFinal, Usable, EndOfStream, RecvFromBuffer, Deliver
<1>5. ASSUME NEW n \in 1 .. MaxRequest + BufferSize, ReadvBytes(n)
      PROVE  EndIsFinal'
  <2>1. ~ended
    BY <1>5, EndedIsEmpty
  <2> QED BY <1>5, <2>1 DEF EndIsFinal, ReadvBytes, Deliver
<1>6. CASE ReadvEnds \/ ReadvWouldBlock
  BY <1>6 DEF IInv, EndIsFinal, Usable, EndOfStream, ReadvEnds,
     ReadvWouldBlock, ComeBackShort
<1>7. CASE EnterPoll \/ PollReturns \/ Leave
  BY <1>7 DEF IInv, EndIsFinal, Usable, EndOfStream, EnterPoll, PollReturns,
     Leave
<1> QED BY <1>1, <1>2, <1>3, <1>4, <1>5, <1>6, <1>7 DEF Next, ReceiveStep

LEMMA NextInv == ASSUME IInv, Next PROVE IInv'
<1> SUFFICES SocketInv'
  BY EndStaysFinal DEF IInv
<1>0. SocketInv
  BY DEF IInv
<1>1. CASE Start
  BY <1>0, <1>1, QuietInv
<1>2. CASE Connect
  BY <1>0, <1>2, QuietInv, CreateSocketInv DEF Connect
<1>3. CASE ReceiveStep
  <2>1. ASSUME NEW n \in 0 .. MaxRequest, Receive(n) PROVE SocketInv'
    <3>1. n \in Nat
      BY SizesAssumption
    <3> QED BY <1>0, <2>1, <3>1, ReceiveInv
  <2>2. ASSUME NEW n \in 1 .. MaxRequest + BufferSize, ReadvBytes(n)
        PROVE  SocketInv'
    <3>1. n \in Nat /\ ~ended
      BY <2>2, SizesAssumption, EndedIsEmpty
    <3> QED BY <1>0, <2>2, <3>1, ReadvBytesInv
  <2>3. CASE RecvFromBuffer
    BY <1>0, <2>3, RecvFromBufferInv
  <2>4. CASE ReadvEnds \/ ReadvWouldBlock
    BY <1>0, <2>4, ReadvShortInv
  <2>5. CASE EnterPoll \/ PollReturns \/ Leave
    BY <1>0, <2>5, QuietInv
  <2> QED BY <1>3, <2>1, <2>2, <2>3, <2>4, <2>5 DEF ReceiveStep
<1>4. CASE Stop \/ Environment
  BY <1>0, <1>4, QuietInv
<1> QED BY <1>1, <1>2, <1>3, <1>4 DEF Next

LEMMA StutterInv == ASSUME SocketInv, UNCHANGED vars PROVE SocketInv'
<1> USE DEF vars, readerVars, callVars, kernelVars, peerVars, SocketInv, TypeOK
<1>1. ThreadsOK' /\ ReaderOK' /\ FlagsOK' /\ NetworkOK'
  BY DEF ThreadsOK, ReaderOK, FlagsOK, NetworkOK
<1>2. NothingLost' /\ InOrder'
  BY DEF NothingLost, InOrder, Unread
<1>3. BufferIsNext' /\ CallWants' /\ OpenCounted'
  BY DEF BufferIsNext, CallWants, OpenCounted
<1> QED BY <1>1, <1>2, <1>3

(* IInv is inductive: it holds in every state of every behaviour. *)
THEOREM Invariance == Spec => []IInv
<1>1. ASSUME IInv, UNCHANGED vars PROVE EndIsFinal'
  BY <1>1 DEF IInv, EndIsFinal, Usable, EndOfStream, vars, kernelVars, peerVars
<1>2. IInv /\ [Next]_vars => IInv'
  BY <1>1, NextInv, StutterInv DEF IInv
<1> QED BY InitInv, <1>2, PTL DEF Spec

(* Every variable keeps its type; in particular stop() in one thread and   *)
(* init() in the other never leave a descriptor in m_fd that is not the    *)
(* latest one.                                                             *)
THEOREM TypeCorrect == Spec => []TypeOK
<1>1. IInv => TypeOK
  BY DEF IInv, SocketInv
<1> QED BY Invariance, <1>1, PTL

(* receiveComplete stores the next bytes of the connection in force, for   *)
(* every size of buffer and request and every interleaving with stop().    *)
THEOREM StoresInOrder == Spec => []InOrder
<1>1. IInv => InOrder
  BY DEF IInv, SocketInv
<1> QED BY Invariance, <1>1, PTL

(* Every byte taken from the kernel is handed out or buffered, and none is *)
(* left behind for the next connection.                                    *)
THEOREM LosesNothing == Spec => []NothingLost
<1>1. IInv => NothingLost
  BY DEF IInv, SocketInv
<1> QED BY Invariance, <1>1, PTL

-----------------------------------------------------------------------------
(* The refinement: each step of the socket is a step of the channel or     *)
(* none.                                                                   *)

LEMMA DeliverHands ==
  ASSUME SocketInv, NEW bytes, Deliver(bytes), NEW n \in Nat \ {0},
         bytes = [i \in 1 .. n |-> <<conn, handed + i>>],
         ~ended, n <= arrived - handed, n <= SizeLeft,
         UNCHANGED <<conn, arrived>>
  PROVE  Channel!Hand
<1>1. handed \in Nat /\ arrived \in Nat /\ Len(bytes) = n
  BY DEF SocketInv, TypeOK, ReaderOK, NetworkOK
<1>2. n \in 1 .. arrived - handed
  BY <1>1
<1>3. Len(block) + n <= size
  BY DEF SocketInv, TypeOK, ReaderOK, SizeLeft
<1> QED BY <1>1, <1>2, <1>3 DEF Channel!Hand, Deliver

LEMMA RecvFromBufferHands ==
  ASSUME SocketInv, RecvFromBuffer PROVE Channel!Hand
<1> DEFINE n == Lesser(Unread, SizeLeft)
           bytes == Buffered(n)
<1>1. /\ rpc = "recv" /\ Unread > 0 /\ Deliver(bytes)
      /\ UNCHANGED <<conn, arrived>>
  BY DEF RecvFromBuffer, kernelVars, peerVars
<1>2. /\ handed \in Nat /\ arrived \in Nat /\ taken <= arrived
      /\ m_fillLevel \in Nat /\ m_alreadyRead \in 0 .. m_fillLevel
      /\ SizeLeft \in Nat \ {0} /\ handed + Unread = taken
  <2>1. size \in Nat /\ Len(block) \in Nat /\ Len(block) < size
    BY <1>1 DEF SocketInv, TypeOK, ReaderOK, CallWants, UnderWay
  <2>2. /\ handed \in Nat /\ m_fillLevel \in Nat
        /\ m_alreadyRead \in 0 .. m_fillLevel
    BY SizesAssumption DEF SocketInv, TypeOK, ReaderOK
  <2>3. arrived \in Nat /\ taken <= arrived
    BY DEF SocketInv, TypeOK, NetworkOK
  <2> QED BY <2>1, <2>2, <2>3 DEF SocketInv, NothingLost, SizeLeft
<1>3. n \in Nat \ {0} /\ n <= Unread /\ n <= arrived - handed /\ n <= SizeLeft
  BY <1>1, <1>2 DEF Lesser, Unread
<1>4. bytes = [i \in 1 .. n |-> <<conn, handed + i>>]
  <2> SUFFICES ASSUME NEW i \in 1 .. n
               PROVE  m_buffer[m_alreadyRead + i - 1] = <<conn, handed + i>>
    BY DEF Buffered
  <2>1. m_alreadyRead + i - 1 \in m_alreadyRead .. m_fillLevel - 1
    BY <1>2, <1>3 DEF Unread
  <2>2. m_buffer[m_alreadyRead + i - 1]
          = <<conn, handed + ((m_alreadyRead + i - 1) - m_alreadyRead) + 1>>
    BY <2>1 DEF SocketInv, BufferIsNext
  <2> QED BY <1>2, <2>2
<1>5. ~ended
  BY <1>1 DEF SocketInv, NothingLost
<1> HIDE DEF n, bytes
<1> QED BY <1>1, <1>3, <1>4, <1>5, DeliverHands

LEMMA ReadvBytesHands ==
  ASSUME SocketInv, ~ended, NEW n \in Nat, ReadvBytes(n) PROVE Channel!Hand
<1> DEFINE surplus == IF n > SizeLeft THEN n - SizeLeft ELSE 0
           m == n - surplus
<1>1. /\ rpc = "recv" /\ Unread = 0 /\ Usable
      /\ n \in 1 .. Lesser(arrived - taken, SizeLeft + BufferSize)
      /\ Deliver(Wire(taken, m)) /\ UNCHANGED <<conn, arrived>>
  BY DEF ReadvBytes, kernelVars, peerVars
<1>2. /\ handed = taken /\ taken \in Nat /\ arrived \in Nat
      /\ SizeLeft \in Nat \ {0}
  <2>1. size \in Nat /\ Len(block) \in Nat /\ Len(block) < size
    BY <1>1 DEF SocketInv, TypeOK, ReaderOK, CallWants, UnderWay
  <2>2. taken \in Nat /\ arrived \in Nat
    BY DEF SocketInv, TypeOK, NetworkOK
  <2>3. handed \in Nat /\ handed + Unread = taken
    BY DEF SocketInv, TypeOK, ReaderOK, NothingLost
  <2> QED BY <1>1, <2>1, <2>2, <2>3 DEF SizeLeft
<1>3. m \in Nat \ {0} /\ m <= arrived - handed /\ m <= SizeLeft
  BY <1>1, <1>2, SizesAssumption DEF Lesser
<1>4. Wire(taken, m) = [i \in 1 .. m |-> <<conn, handed + i>>]
  BY <1>2 DEF Wire
<1> HIDE DEF m
<1> QED BY <1>1, <1>3, <1>4, DeliverHands

LEMMA StepRefines ==
  ASSUME IInv, Next
  PROVE  Channel!ChannelNext \/ UNCHANGED Channel!channel
<1> USE DEF Channel!ChannelNext, Channel!channel
<1>0. rpc \notin UnderWay => Channel!Answered
  BY DEF IInv, SocketInv, CallWants, Channel!Answered
<1>1. CASE CreateSocket
  BY <1>0, <1>1 DEF CreateSocket, UnderWay, Channel!Open
<1>2. CASE \/ Start \/ CreateSocketFails \/ Resolve \/ Dial \/ DialWait
           \/ EnterPoll \/ PollReturns \/ Leave \/ Stop
           \/ PeerGoes \/ KeepAliveExpires \/ PollInterrupted
  BY <1>2 DEF callVars, kernelVars, peerVars, Start, CreateSocketFails,
              Resolve, Dial, DialWait, EnterPoll, PollReturns, Leave, Stop,
              StopShutdown, StopClose, StopClear, PeerGoes, KeepAliveExpires,
              PollInterrupted
<1>3. CASE PeerSends
  BY <1>3 DEF PeerSends, Channel!Arrive, callVars, kernelVars
<1>4. ASSUME NEW n \in 0 .. MaxRequest, Receive(n) PROVE Channel!Call
  BY <1>0, <1>4, SizesAssumption
     DEF Receive, UnderWay, Channel!Call, kernelVars, peerVars
<1>5. CASE ReadvEnds
  BY <1>5 DEF ReadvEnds, ComeBackShort, Channel!End, callVars, kernelVars,
              peerVars, IInv, SocketInv, CallWants, UnderWay
<1>6. CASE ReadvWouldBlock
  BY <1>6 DEF ReadvWouldBlock, callVars, kernelVars, peerVars
<1>7. CASE RecvFromBuffer
  BY <1>7, RecvFromBufferHands DEF IInv
<1>8. ASSUME NEW n \in 1 .. MaxRequest + BufferSize, ReadvBytes(n)
      PROVE  Channel!Hand
  <2>1. ~ended /\ n \in Nat
    BY <1>8, EndedIsEmpty, SizesAssumption
  <2> QED BY <1>8, <2>1, ReadvBytesHands DEF IInv
<1> QED BY <1>1, <1>2, <1>3, <1>4, <1>5, <1>6, <1>7, <1>8
        DEF Next, Connect, ReceiveStep, Environment

(* StreamSocket implements ByteChannel. *)
THEOREM Refinement == Spec => ImplementsChannel
<1>1. Init => Channel!ChannelInit
  BY DEF Init, Channel!ChannelInit
<1>2. IInv /\ [Next]_vars => [Channel!ChannelNext]_(Channel!channel)
  <2>1. UNCHANGED vars => UNCHANGED Channel!channel
    BY DEF vars, callVars, kernelVars, peerVars, Channel!channel
  <2> QED BY <2>1, StepRefines
<1> QED BY Invariance, <1>1, <1>2, PTL DEF Spec, ImplementsChannel, Channel!ChannelSpec
=============================================================================
