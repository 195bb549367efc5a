--------------------------- MODULE WindowsSocket ---------------------------
(***************************************************************************)
(* The stream socket on Windows: the same class over WinSock, a second     *)
(* implementation of ByteChannel.  It shares with StreamSocket the state,  *)
(* BufferedReader, the kernel and the peer; different are the calls that   *)
(* wait.  connect() waits in select() and does not look at the result of   *)
(* getsockopt().  receiveComplete() puts the handle into a set for         *)
(* select() on entry (pfd here), and repeats a select() that failed.       *)
(* rpc = "polling" means inside that loop.                                 *)
(*                                                                         *)
(* Builds is the socket of either build, for what both must fulfil.        *)
(***************************************************************************)
EXTENDS StreamSocket

VARIABLE build   \* the platform the library was built for

buildVars == <<vars, build>>

-----------------------------------------------------------------------------
(* connect()                                                               *)

(* A non-blocking connect fails or is under way; that it has succeeded at  *)
(* once counts as a failure but does not occur.                            *)
DialSelect ==
  /\ rpc = "dial"
  /\ \/ rpc' = "dialing" /\ Usable
     \/ rpc' = "idle"
  /\ UNCHANGED <<m_fd, pfd, readerVars, callVars, ended, spc, kernelVars,
                 peer, arrived, taken>>

(* select() for 5 s at most, then SO_ERROR.  When stop() closes the socket *)
(* between the two, value is read uninitialized: connect() may succeed.    *)
SelectConnects ==
  /\ rpc = "dialing"
  /\ \/ Established
     \/ rpc' = "ready" /\ ~Usable /\ UNCHANGED peer
     \/ rpc' = "idle" /\ UNCHANGED peer
  /\ UNCHANGED <<m_fd, pfd, readerVars, callVars, ended, spc, kernelVars,
                 arrived, taken>>

WinConnect ==
  CreateSocket \/ CreateSocketFails \/ Resolve \/ DialSelect \/ SelectConnects

-----------------------------------------------------------------------------
(* receiveComplete(pBlock, len) and BufferedReader::recv                   *)

WinReceive(n) ==
  /\ rpc = "ready"
  /\ rpc' = IF n = 0 THEN "ready" ELSE "recv"
  /\ size' = n /\ block' = <<>> /\ pfd' = m_fd
  /\ UNCHANGED <<m_fd, readerVars, handed, ended, spc, kernelVars, peerVars,
                 taken>>

(* After shutdown(SD_BOTH) nothing is received, not even what has arrived. *)
WSARecvBytes(n) == ~shut /\ ReadvBytes(n)

WSARecvDone == Usable => shut \/ EndOfStream

(* WSARecv() returns no byte or fails for good: -1 to the caller.          *)
WSARecvEnds ==
  /\ rpc = "recv" /\ Unread = 0 /\ WSARecvDone
  /\ Emptied
  /\ ComeBackShort
  /\ UNCHANGED <<m_fd, pfd, m_buffer, spc, kernelVars, peerVars, taken>>

WSARecvWouldBlock ==
  /\ rpc = "recv" /\ Unread = 0 /\ ~WSARecvDone
  /\ arrived = taken
  /\ Emptied
  /\ rpc' = "wait"
  /\ UNCHANGED <<m_fd, pfd, m_buffer, callVars, ended, spc, kernelVars,
                 peerVars, taken>>

EnterSelect ==
  /\ rpc = "wait"
  /\ rpc' = "polling"
  /\ UNCHANGED <<m_fd, pfd, readerVars, callVars, ended, spc, kernelVars,
                 peerVars, taken>>

(* select() finds the handle readable.                                     *)
SelectReturns ==
  /\ rpc = "polling" /\ pfd = conn /\ isOpen
  /\ arrived > taken \/ shut \/ EndOfStream
  /\ rpc' = "recv"
  /\ UNCHANGED <<m_fd, pfd, readerVars, callVars, ended, spc, kernelVars,
                 peerVars, taken>>

(* With a handle that has been closed select() fails.  The loop leaves     *)
(* when the reason is WSAEINTR and goes on for any other: with WSAENOTSOCK *)
(* nothing below changes any more, however often select() is called.       *)
SelectCancelled ==
  /\ rpc = "polling" /\ ~(pfd = conn /\ isOpen)
  /\ ComeBackShort
  /\ UNCHANGED <<m_fd, pfd, readerVars, spc, kernelVars, peerVars, taken>>

WinReceiveStep ==
  \/ \E n \in 0 .. MaxRequest : WinReceive(n)
  \/ RecvFromBuffer
  \/ \E n \in 1 .. MaxRequest + BufferSize : WSARecvBytes(n)
  \/ WSARecvEnds \/ WSARecvWouldBlock
  \/ EnterSelect \/ SelectReturns \/ SelectCancelled
  \/ Leave

-----------------------------------------------------------------------------
(* stop(): shutdown() of a socket that is not connected fails here with a  *)
(* connect() under way, too.                                               *)
ShutdownBoth ==
  /\ spc = "idle"
  /\ spc' = "close"
  /\ shut' = (shut \/ (Usable /\ peer # "none"))
  /\ UNCHANGED <<rpc, m_fd, pfd, readerVars, callVars, ended, conn, isOpen,
                 openSockets, peerVars, taken>>

WinStop == ShutdownBoth \/ StopClose \/ StopClear

WinNext ==
  \/ Start \/ WinConnect \/ WinReceiveStep \/ WinStop
  \/ PeerSends \/ PeerGoes \/ KeepAliveExpires

WinSpec == Init /\ [][WinNext]_vars

-----------------------------------------------------------------------------
(* Either build                                                            *)

BuildsInit == Init /\ build \in {"linux", "windows"}

BuildsNext ==
  /\ \/ build = "linux" /\ Next
     \/ build = "windows" /\ WinNext
  /\ UNCHANGED build

BuildsSpec == BuildsInit /\ [][BuildsNext]_buildVars
=============================================================================
