------------------------ MODULE WindowsSocketProofs ------------------------
(***************************************************************************)
(* Proofs about the socket of either build: what StreamSocketProofs shows  *)
(* of the one for Linux holds for the one for Windows, although its waits  *)
(* are different.                                                          *)
(***************************************************************************)
EXTENDS WindowsSocket, StreamSocketProofs

(* A connection that has ended stays so; a shut down one is not read.      *)
WinEnd ==
  /\ ended => WSARecvDone
  /\ rpc \in {"resolve", "dial", "dialing"} => ~ended

(* Whoever waits in select() has nothing left in the buffer. *)
WaitsEmpty == rpc \in {"wait", "polling"} => Unread = 0

(* The handle put into the set on entry is the latest one, or stop() has   *)
(* taken it away since.                                                    *)
HandleTaken == rpc \in UnderWay => pfd = conn \/ m_fd = NoFd

WinInv == SocketInv /\ WinEnd /\ WaitsEmpty /\ HandleTaken

-----------------------------------------------------------------------------
(* SocketInv is kept by the steps that only the Windows build takes.       *)

LEMMA WinQuietInv ==
  ASSUME SocketInv,
         \/ DialSelect \/ SelectConnects \/ EnterSelect \/ SelectReturns
         \/ ShutdownBoth
  PROVE  SocketInv'
<1> USE DEF kernelVars, peerVars, DialSelect, SelectConnects, EnterSelect,
            SelectReturns, ShutdownBoth, Established
<1>1. ReaderOK' /\ NothingLost' /\ InOrder' /\ BufferIsNext' /\ CallWants'
  <2>1. DataUnchanged
    BY DEF DataUnchanged, readerVars, callVars
  <2>2. rpc \in Receiving \/ rpc' \notin Receiving \/ Unread = 0
    BY DEF SocketInv, NothingLost, Receiving
  <2>3. rpc' \in Receiving \/ rpc \notin Receiving \/ ended
    BY DEF Receiving
  <2>4. rpc' \in UnderWay <=> rpc \in UnderWay
    BY DEF UnderWay
  <2> QED BY <2>1, <2>2, <2>3, <2>4, KeepsData
<1>2. ThreadsOK'
  BY DEF SocketInv, TypeOK, ThreadsOK, Connecting, Receiving
<1>3. FlagsOK' /\ NetworkOK' /\ OpenCounted'
  <2>1. FlagsOK'
    BY DEF SocketInv, TypeOK, FlagsOK, Usable
  <2>2. NetworkOK'
    BY DEF SocketInv, TypeOK, NetworkOK
  <2>3. OpenCounted'
    BY DEF SocketInv, OpenCounted
  <2> QED BY <2>1, <2>2, <2>3
<1> QED BY <1>1, <1>2, <1>3 DEF SocketInv, TypeOK

LEMMA WinReceiveInv ==
  ASSUME SocketInv, NEW n \in Nat, WinReceive(n) PROVE SocketInv'
<1> USE DEF SocketInv, TypeOK, WinReceive, readerVars, kernelVars, peerVars
<1>1. ThreadsOK'
  BY DEF ThreadsOK, Receiving
<1>2. FlagsOK' /\ NetworkOK' /\ OpenCounted'
  BY DEF FlagsOK, NetworkOK, OpenCounted
<1>3. block' \in Seq(Byte) /\ Len(block') = 0
  OBVIOUS
<1>4. ReaderOK'
  BY <1>3 DEF ReaderOK
<1>5. NothingLost'
  BY DEF NothingLost, Unread, Receiving
<1>6. InOrder' /\ BufferIsNext'
  BY DEF InOrder, BufferIsNext
<1>7. CallWants'
  BY <1>3 DEF CallWants, UnderWay
<1> QED BY <1>1, <1>2, <1>4, <1>5, <1>6, <1>7

LEMMA WinShortInv ==
  ASSUME SocketInv, WaitsEmpty,
         WSARecvEnds \/ WSARecvWouldBlock \/ SelectCancelled
  PROVE  SocketInv'
<1> USE DEF SocketInv, TypeOK, WSARecvEnds, WSARecvWouldBlock, SelectCancelled,
            Emptied, ComeBackShort, callVars, readerVars, kernelVars, peerVars
<1>1. ThreadsOK'
  BY DEF ThreadsOK, Receiving
<1>2. FlagsOK'
  BY DEF FlagsOK
<1>3. NetworkOK' /\ OpenCounted' /\ ReaderOK'
  <2>1. NetworkOK' /\ OpenCounted'
    BY DEF NetworkOK, OpenCounted
  <2>2. ReaderOK'
    BY SizesAssumption DEF ReaderOK
  <2> QED BY <2>1, <2>2
<1>4. Unread = 0
  BY DEF WaitsEmpty
<1>5. Unread' = 0
  BY <1>4 DEF Unread
<1>6. handed' = handed /\ taken' = taken
  OBVIOUS
<1>7. NothingLost'
  BY <1>4, <1>5, <1>6 DEF NothingLost, Receiving
<1>8. InOrder'
  BY DEF InOrder
<1>9. BufferIsNext'
  <2>1. CASE SelectCancelled
    BY <2>1 DEF BufferIsNext
  <2>2. CASE WSARecvEnds \/ WSARecvWouldBlock
    <3>1. m_fillLevel' = 0 /\ m_alreadyRead' = 0
      BY <2>2
    <3> QED BY ONLY <3>1 DEF BufferIsNext
  <2> QED BY <2>1, <2>2
<1>10. CallWants'
  BY DEF CallWants, UnderWay
<1> QED BY <1>1, <1>2, <1>3, <1>7, <1>8, <1>9, <1>10

(* A connection that has ended is not read from any more. *)
LEMMA WinEndedIsEmpty ==
  ASSUME WinInv, NEW n, WSARecvBytes(n) PROVE ~ended /\ ReadvBytes(n)
<1>1. /\ ~shut /\ Usable /\ ReadvBytes(n)
      /\ n \in 1 .. Lesser(arrived - taken, SizeLeft + BufferSize)
  BY DEF WSARecvBytes, ReadvBytes
<1>2. arrived \in Nat /\ taken \in Nat
  BY DEF WinInv, SocketInv, TypeOK, NetworkOK
<1>3. SizeLeft \in Int
  BY DEF WinInv, SocketInv, TypeOK, ReaderOK, SizeLeft
<1>4. arrived # taken
  BY <1>1, <1>2, <1>3, SizesAssumption DEF Lesser
<1> QED BY <1>1, <1>4 DEF WinInv, WinEnd, WSARecvDone, EndOfStream

LEMMA WinSocketInv == ASSUME WinInv, WinNext PROVE SocketInv'
<1>0. SocketInv /\ WaitsEmpty
  BY DEF WinInv
<1>1. CASE Start \/ PeerSends \/ PeerGoes \/ KeepAliveExpires
  BY <1>0, <1>1, QuietInv DEF Environment
<1>2. CASE WinConnect
  BY <1>0, <1>2, QuietInv, WinQuietInv, CreateSocketInv DEF WinConnect
<1>3. CASE WinStop
  BY <1>0, <1>3, QuietInv, WinQuietInv DEF WinStop, Stop
<1>4. CASE WinReceiveStep
  <2>1. ASSUME NEW n \in 0 .. MaxRequest, WinReceive(n) PROVE SocketInv'
    <3>1. n \in Nat
      BY SizesAssumption
    <3> QED BY <1>0, <2>1, <3>1, WinReceiveInv
  <2>2. ASSUME NEW n \in 1 .. MaxRequest + BufferSize, WSARecvBytes(n)
        PROVE  SocketInv'
    <3>1. n \in Nat /\ ~ended /\ ReadvBytes(n)
      BY <2>2, SizesAssumption, WinEndedIsEmpty
    <3> QED BY <1>0, <3>1, ReadvBytesInv
  <2>3. CASE RecvFromBuffer
    BY <1>0, <2>3, RecvFromBufferInv
  <2>4. CASE WSARecvEnds \/ WSARecvWouldBlock \/ SelectCancelled
    BY <1>0, <2>4, WinShortInv
  <2>5. CASE EnterSelect \/ SelectReturns
    BY <1>0, <2>5, WinQuietInv
  <2>6. CASE Leave
    BY <1>0, <2>6, QuietInv
  <2> QED BY <1>4, <2>1, <2>2, <2>3, <2>4, <2>5, <2>6 DEF WinReceiveStep
<1> QED BY <1>1, <1>2, <1>3, <1>4 DEF WinNext

LEMMA WinEndStays == ASSUME WinInv, WinNext PROVE WinEnd' /\ WaitsEmpty'
<1> USE DEF readerVars, callVars, kernelVars, peerVars
<1> DEFINE Goal == WinEnd' /\ WaitsEmpty'
<1>1. CASE Start \/ WinConnect
  BY <1>1 DEF WinInv, WinEnd, WaitsEmpty, Unread, WSARecvDone, Usable,
     EndOfStream, Start, WinConnect, CreateSocket, CreateSocketFails, Resolve,
     DialSelect, SelectConnects, Established
<1>2. CASE WinStop \/ PeerSends \/ PeerGoes \/ KeepAliveExpires
  BY <1>2 DEF WinInv, WinEnd, WaitsEmpty, Unread, WSARecvDone, Usable,
     EndOfStream, WinStop, ShutdownBoth, StopClose, StopClear, PeerSends,
     PeerGoes, KeepAliveExpires, SocketInv, TypeOK, FlagsOK
<1>3. ASSUME NEW n \in 0 .. MaxRequest, WinReceive(n) PROVE Goal
  BY <1>3 DEF WinInv, WinEnd, WaitsEmpty, WSARecvDone, Usable, EndOfStream,
     WinReceive
<1>4. CASE RecvFromBuffer
  BY <1>4 DEF WinInv, WinEnd, WaitsEmpty, WSARecvDone, Usable, EndOfStream,
     RecvFromBuffer, Deliver
<1>5. ASSUME NEW n \in 1 .. MaxRequest + BufferSize, WSARecvBytes(n)
      PROVE  Goal
  <2>1. ~ended /\ ReadvBytes(n)
    BY <1>5, WinEndedIsEmpty
  <2> QED BY <2>1 DEF WinEnd, WaitsEmpty, ReadvBytes, Deliver
<1>6. CASE WSARecvEnds
  BY <1>6 DEF WinEnd, WaitsEmpty, WSARecvDone, Usable, EndOfStream,
     WSARecvEnds, ComeBackShort
<1>7. CASE WSARecvWouldBlock
  <2>1. Unread' = 0
    BY <1>7 DEF WSARecvWouldBlock, Emptied, Unread
  <2> QED BY <1>7, <2>1 DEF WinInv, WinEnd, WaitsEmpty, WSARecvDone, Usable,
          EndOfStream, WSARecvWouldBlock
<1>8. CASE SelectCancelled
  <2>1. ~Usable
    BY <1>8 DEF SelectCancelled, Usable, WinInv, HandleTaken, UnderWay
  <2> QED BY <1>8, <2>1 DEF WinEnd, WaitsEmpty, WSARecvDone, Usable,
          SelectCancelled, ComeBackShort
<1>9. CASE EnterSelect \/ SelectReturns \/ Leave
  BY <1>9 DEF WinInv, WinEnd, WaitsEmpty, Unread, WSARecvDone, Usable,
     EndOfStream, EnterSelect, SelectReturns, Leave
<1> QED BY <1>1, <1>2, <1>3, <1>4, <1>5, <1>6, <1>7, <1>8, <1>9
        DEF WinNext, WinReceiveStep

LEMMA HandleStays == ASSUME WinInv, WinNext PROVE HandleTaken'
<1> USE DEF WinInv, HandleTaken, UnderWay, kernelVars
<1>1. CASE Start \/ WinConnect
  BY <1>1 DEF Start, WinConnect, CreateSocket, CreateSocketFails, Resolve,
     DialSelect, SelectConnects, Established
<1>2. CASE WinStop \/ PeerSends \/ PeerGoes \/ KeepAliveExpires
  BY <1>2 DEF WinStop, ShutdownBoth, StopClose, StopClear, PeerSends,
     PeerGoes, KeepAliveExpires
<1>3. CASE \E n \in 0 .. MaxRequest : WinReceive(n)
  BY <1>3 DEF WinReceive, SocketInv, TypeOK, ThreadsOK
<1>4. CASE \/ RecvFromBuffer
           \/ \E n \in 1 .. MaxRequest + BufferSize : WSARecvBytes(n)
  BY <1>4 DEF RecvFromBuffer, WSARecvBytes, ReadvBytes
<1>5. CASE \/ WSARecvEnds \/ WSARecvWouldBlock \/ EnterSelect
           \/ SelectReturns \/ SelectCancelled \/ Leave
  BY <1>5 DEF WSARecvEnds, WSARecvWouldBlock, EnterSelect, SelectReturns,
     SelectCancelled, ComeBackShort, Leave
<1> QED BY <1>1, <1>2, <1>3, <1>4, <1>5 DEF WinNext, WinReceiveStep

-----------------------------------------------------------------------------
LEMMA WinRefines ==
  ASSUME WinInv, WinNext
  PROVE  Channel!ChannelNext \/ UNCHANGED Channel!channel
<1> USE DEF Channel!ChannelNext, Channel!channel
<1>0. SocketInv
  BY DEF WinInv
<1>10. rpc \notin UnderWay => Channel!Answered
  BY <1>0 DEF SocketInv, CallWants, Channel!Answered
<1>1. CASE CreateSocket
  BY <1>10, <1>1 DEF CreateSocket, UnderWay, Channel!Open
<1>2. CASE \/ Start \/ CreateSocketFails \/ Resolve \/ DialSelect
           \/ SelectConnects \/ EnterSelect \/ SelectReturns \/ Leave
           \/ WinStop \/ PeerGoes \/ KeepAliveExpires
  BY <1>2 DEF callVars, kernelVars, peerVars, Start, CreateSocketFails,
              Resolve, DialSelect, SelectConnects, EnterSelect, SelectReturns,
              Leave, WinStop, ShutdownBoth, StopClose, StopClear, PeerGoes,
              KeepAliveExpires
<1>3. CASE PeerSends
  BY <1>3 DEF PeerSends, Channel!Arrive, callVars, kernelVars
<1>4. ASSUME NEW n \in 0 .. MaxRequest, WinReceive(n) PROVE Channel!Call
  BY <1>10, <1>4, SizesAssumption
     DEF WinReceive, UnderWay, Channel!Call, kernelVars, peerVars
<1>5. CASE WSARecvEnds \/ SelectCancelled
  BY <1>0, <1>5 DEF WSARecvEnds, SelectCancelled, ComeBackShort, Channel!End,
              callVars, kernelVars, peerVars, SocketInv, CallWants, UnderWay
<1>6. CASE WSARecvWouldBlock
  BY <1>6 DEF WSARecvWouldBlock, callVars, kernelVars, peerVars
<1>7. CASE RecvFromBuffer
  BY <1>0, <1>7, RecvFromBufferHands
<1>8. ASSUME NEW n \in 1 .. MaxRequest + BufferSize, WSARecvBytes(n)
      PROVE  Channel!Hand
  <2>1. ~ended /\ ReadvBytes(n) /\ n \in Nat
    BY <1>8, WinEndedIsEmpty, SizesAssumption
  <2> QED BY <1>0, <2>1, ReadvBytesHands
<1> QED BY <1>1, <1>2, <1>3, <1>4, <1>5, <1>6, <1>7, <1>8
        DEF WinNext, WinConnect, WinReceiveStep

LEMMA WinStutter == ASSUME WinInv, UNCHANGED vars PROVE WinInv'
<1>1. SocketInv'
  BY StutterInv DEF WinInv
<1>2. WinEnd' /\ WaitsEmpty' /\ HandleTaken'
  BY DEF WinInv, WinEnd, WSARecvDone, WaitsEmpty, HandleTaken, Usable,
         EndOfStream, Unread, vars, readerVars, kernelVars, peerVars
<1> QED BY <1>1, <1>2 DEF WinInv

-----------------------------------------------------------------------------
(* Each build keeps its own invariant. *)
BuildsInv ==
  /\ build \in {"linux", "windows"}
  /\ build = "linux" => IInv
  /\ build = "windows" => WinInv

THEOREM BuildsInvariance == BuildsSpec => []BuildsInv
<1>1. BuildsInit => BuildsInv
  <2>1. Init => IInv /\ WinEnd /\ WaitsEmpty /\ HandleTaken
    BY InitInv DEF Init, WinEnd, WaitsEmpty, HandleTaken, UnderWay
  <2> QED BY <2>1 DEF BuildsInit, BuildsInv, IInv, WinInv
<1>2. BuildsInv /\ [BuildsNext]_buildVars => BuildsInv'
  <2> SUFFICES ASSUME BuildsInv, [BuildsNext]_buildVars PROVE BuildsInv'
    OBVIOUS
  <2>1. CASE build = "linux" /\ Next /\ UNCHANGED build
    BY <2>1, NextInv DEF BuildsInv
  <2>2. CASE build = "windows" /\ WinNext /\ UNCHANGED build
    BY <2>2, WinSocketInv, WinEndStays, HandleStays DEF BuildsInv, WinInv
  <2>3. CASE UNCHANGED buildVars
    <3>1. UNCHANGED vars /\ UNCHANGED build
      BY <2>3 DEF buildVars
    <3>2. IInv => IInv'
      BY <3>1, StutterInv DEF IInv, EndIsFinal, Usable, EndOfStream, vars,
         kernelVars, peerVars
    <3> QED BY <3>1, <3>2, WinStutter DEF BuildsInv
  <2> QED BY <2>1, <2>2, <2>3 DEF BuildsNext
<1> QED BY <1>1, <1>2, PTL DEF BuildsSpec

(* Of either build the variables keep their types. *)
THEOREM BuildsTypeCorrect == BuildsSpec => []TypeOK
<1>1. BuildsInv => TypeOK
  BY DEF BuildsInv, IInv, WinInv, SocketInv
<1> QED BY BuildsInvariance, <1>1, PTL

(* Either build stores the next bytes of the connection in force. *)
THEOREM BuildsInOrder == BuildsSpec => []InOrder
<1>1. BuildsInv => InOrder
  BY DEF BuildsInv, IInv, WinInv, SocketInv
<1> QED BY BuildsInvariance, <1>1, PTL

(* Neither build loses a byte it has taken from the kernel.                *)
THEOREM BuildsLoseNothing == BuildsSpec => []NothingLost
<1>1. BuildsInv => NothingLost
  BY DEF BuildsInv, IInv, WinInv, SocketInv
<1> QED BY BuildsInvariance, <1>1, PTL

(* Either build implements ByteChannel: the receive loop needs no more.    *)
THEOREM BuildsRefine == BuildsSpec => ImplementsChannel
<1>1. BuildsInit => Channel!ChannelInit
  BY DEF BuildsInit, Init, Channel!ChannelInit
<1>2. BuildsInv /\ [BuildsNext]_buildVars
        => [Channel!ChannelNext]_(Channel!channel)
  <2>1. UNCHANGED buildVars => UNCHANGED Channel!channel
    BY DEF buildVars, vars, callVars, kernelVars, peerVars, Channel!channel
  <2> QED BY <2>1, StepRefines, WinRefines DEF BuildsNext, BuildsInv
<1> QED BY BuildsInvariance, <1>1, <1>2, PTL
        DEF BuildsSpec, ImplementsChannel, Channel!ChannelSpec
=============================================================================
