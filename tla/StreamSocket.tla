---------------------------- MODULE StreamSocket ----------------------------
(***************************************************************************)
(* The stream socket of the client on Linux: SocketNonblocking (connect,   *)
(* receiveComplete, stop) on top of BufferedReader::recv, at the           *)
(* granularity of system calls.                                            *)
(*                                                                         *)
(* Two threads share one object.  The receiving thread runs                *)
(* StreamClient::start: it connects and then calls receiveComplete until   *)
(* the read of a header fails.  Another thread (main of reconnect.cpp, a   *)
(* signal handler of the other programs) calls stop().  Nothing guards     *)
(* m_fd.  The kernel and the peer are modelled as far as the calls show    *)
(* them: which bytes have arrived, whether the stream has ended.           *)
(*                                                                         *)
(* A byte is its identity <<c, k>>: the k-th byte the peer sent over the   *)
(* c-th socket.  A file descriptor is the number of the socket: descriptor *)
(* numbers are not reused in the model.                                    *)
(***************************************************************************)
EXTENDS Integers, Sequences

CONSTANTS
  BufferSize,   \* sizeof(m_buffer)
  MaxRequest,   \* bound: largest size passed to receiveComplete
  MaxSockets,   \* bound: number of sockets created
  MaxBytes      \* bound: bytes sent by the peer over one socket

ASSUME SizesAssumption ==
  /\ BufferSize \in Nat \ {0}
  /\ MaxRequest \in Nat
  /\ MaxSockets \in Nat
  /\ MaxBytes \in Nat

VARIABLES
  rpc,            \* where the receiving thread is
  m_fd, pfd,      \* the shared descriptor; the one handed to poll()
  m_buffer, m_fillLevel, m_alreadyRead,
  size, block,    \* arguments of receiveComplete: bytes wanted, bytes stored
  ended,          \* a receiveComplete on this socket came back short
  spc,            \* where the stopping thread is inside stop()
  conn,           \* number of the latest socket
  isOpen, shut,   \* its descriptor is open; it was shut down
  peer,           \* what became of its peer
  arrived, taken, \* bytes that arrived, bytes readv() has returned
  handed,         \* history: bytes stored in blocks of the callers
  openSockets     \* descriptors this object has opened and not closed

readerVars == <<m_buffer, m_fillLevel, m_alreadyRead>>
callVars   == <<size, block, handed>>
kernelVars == <<conn, isOpen, shut, openSockets>>
peerVars   == <<peer, arrived>>
vars == <<rpc, m_fd, pfd, readerVars, callVars, ended, spc, kernelVars,
          peerVars, taken>>

NoFd == -1
Byte == Nat \X Nat

Connecting == {"init", "resolve", "dial", "dialing"}
Receiving  == {"ready", "recv", "wait", "polling"}

ThreadsOK ==
  /\ rpc \in {"idle"} \cup Connecting \cup Receiving
  /\ spc \in {"idle", "close", "clear"}
  /\ conn \in Nat /\ m_fd \in {NoFd, conn} /\ pfd \in {NoFd} \cup Nat

ReaderOK ==
  /\ m_buffer \in [0 .. BufferSize - 1 -> Byte]
  /\ m_fillLevel \in 0 .. BufferSize /\ m_alreadyRead \in 0 .. m_fillLevel
  /\ size \in Nat /\ block \in Seq(Byte) /\ Len(block) <= size
  /\ handed \in Nat

FlagsOK == ended \in BOOLEAN /\ isOpen \in BOOLEAN /\ shut \in BOOLEAN

NetworkOK ==
  /\ peer \in {"none", "up", "silent", "closed", "lost"}
  /\ arrived \in Nat /\ taken \in 0 .. arrived /\ openSockets \in Nat

TypeOK == ThreadsOK /\ ReaderOK /\ FlagsOK /\ NetworkOK

Init ==
  /\ rpc = "idle" /\ spc = "idle"
  /\ m_fd = NoFd /\ pfd = NoFd
  /\ m_buffer = [i \in 0 .. BufferSize - 1 |-> <<0, 0>>]
  /\ m_fillLevel = 0 /\ m_alreadyRead = 0
  /\ size = 0 /\ block = <<>> /\ ended = FALSE
  /\ conn = 0 /\ isOpen = FALSE /\ shut = FALSE /\ openSockets = 0
  /\ peer = "none" /\ arrived = 0 /\ taken = 0 /\ handed = 0

(* The descriptor in m_fd names an open socket. *)
Usable == m_fd # NoFd /\ isOpen

-----------------------------------------------------------------------------
(* connect(), called by start()                                            *)

Start ==
  /\ rpc = "idle" /\ conn < MaxSockets
  /\ rpc' = "init"
  /\ UNCHANGED <<m_fd, pfd, readerVars, callVars, ended, spc, kernelVars,
                 peerVars, taken>>

(* init(): a new descriptor overwrites m_fd, whatever it held. *)
CreateSocket ==
  /\ rpc = "init"
  /\ rpc' = "resolve"
  /\ conn' = conn + 1 /\ m_fd' = conn + 1
  /\ isOpen' = TRUE /\ shut' = FALSE /\ openSockets' = openSockets + 1
  /\ peer' = "none" /\ arrived' = 0 /\ taken' = 0 /\ handed' = 0
  /\ ended' = FALSE /\ size' = 0 /\ block' = <<>>
  /\ UNCHANGED <<pfd, readerVars, spc>>

CreateSocketFails ==
  /\ rpc = "init"
  /\ rpc' = "idle" /\ m_fd' = NoFd
  /\ UNCHANGED <<pfd, readerVars, callVars, ended, spc, kernelVars, peerVars,
                 taken>>

(* getaddrinfo(); when it fails the socket stays open. *)
Resolve ==
  /\ rpc = "resolve"
  /\ rpc' \in {"dial", "idle"}
  /\ UNCHANGED <<m_fd, pfd, readerVars, callVars, ended, spc, kernelVars,
                 peerVars, taken>>

(* ::connect() at once, or EINPROGRESS; poll() then waits 5 s at most and  *)
(* SO_ERROR decides.  No failure closes the socket.                        *)
Established ==
  /\ Usable /\ ~shut
  /\ rpc' = "ready" /\ peer' = "up"

Dial ==
  /\ rpc = "dial"
  /\ \/ Established
     \/ rpc' = "dialing" /\ Usable /\ UNCHANGED peer
     \/ rpc' = "idle" /\ UNCHANGED peer
  /\ UNCHANGED <<m_fd, pfd, readerVars, callVars, ended, spc, kernelVars,
                 arrived, taken>>

DialWait ==
  /\ rpc = "dialing"
  /\ \/ Established
     \/ rpc' = "idle" /\ UNCHANGED peer
  /\ UNCHANGED <<m_fd, pfd, readerVars, callVars, ended, spc, kernelVars,
                 arrived, taken>>

-----------------------------------------------------------------------------
(* receiveComplete(pBlock, n) and BufferedReader::recv                     *)

Unread   == m_fillLevel - m_alreadyRead
SizeLeft == size - Len(block)

Lesser(a, b) == IF a <= b THEN a ELSE b

(* n bytes of the stream, the first of which is its byte number k + 1. *)
Wire(k, n) == [i \in 1 .. n |-> <<conn, k + i>>]

Receive(n) ==
  /\ rpc = "ready"
  /\ rpc' = IF n = 0 THEN "ready" ELSE "recv"
  /\ size' = n /\ block' = <<>>
  /\ UNCHANGED <<m_fd, pfd, readerVars, handed, ended, spc, kernelVars,
                 peerVars, taken>>

(* Mutant of Deliver: the first bytes end the call, as with receive(). *)
DeliverOnce(bytes) ==
  /\ block' = block \o bytes
  /\ handed' = handed + Len(bytes)
  /\ rpc' = "ready"
  /\ UNCHANGED <<size, ended>>

(* Store bytes in the block; the loop ends when it is complete. *)
Deliver(bytes) ==
  /\ block' = block \o bytes
  /\ handed' = handed + Len(bytes)
  /\ rpc' = IF Len(bytes) = SizeLeft THEN "ready" ELSE "recv"
  /\ UNCHANGED <<size, ended>>

(* Mutants of ComeBackShort: a readv() that returns 0 is tried again, or   *)
(* waits for more like one that fails with EAGAIN.                         *)
TryAgain ==
  /\ rpc' = "recv" /\ ended' = TRUE
  /\ UNCHANGED callVars

WaitForMore ==
  /\ rpc' = "wait"
  /\ UNCHANGED <<callVars, ended>>

(* The loop gives up: end of the stream or an error. *)
ComeBackShort ==
  /\ rpc' = "ready" /\ ended' = TRUE
  /\ UNCHANGED callVars

(* Mutant of Buffered: from the beginning of the buffer. *)
BufferedFromBegin(n) == [i \in 1 .. n |-> m_buffer[i - 1]]

Buffered(n) == [i \in 1 .. n |-> m_buffer[m_alreadyRead + i - 1]]

(* recv() with something left in the buffer: all of it, or as much as      *)
(* wanted.  The descriptor is not used.                                    *)
RecvFromBuffer ==
  /\ rpc = "recv" /\ Unread > 0
  /\ LET n == Lesser(Unread, SizeLeft) IN
       /\ Deliver(Buffered(n))
       /\ m_alreadyRead' = m_alreadyRead + n
  /\ UNCHANGED <<m_fd, pfd, m_buffer, m_fillLevel, spc, kernelVars, peerVars,
                 taken>>

(* recv() with an empty buffer, readv() returns n bytes: the caller's      *)
(* block is filled first, the surplus goes into the buffer.                *)
ReadvBytes(n) ==
  /\ rpc = "recv" /\ Unread = 0 /\ Usable
  /\ n \in 1 .. Lesser(arrived - taken, SizeLeft + BufferSize)
  /\ taken' = taken + n
  /\ LET surplus == IF n > SizeLeft THEN n - SizeLeft ELSE 0 IN
       /\ Deliver(Wire(taken, n - surplus))
       /\ m_fillLevel' = surplus
       /\ m_buffer' = [i \in DOMAIN m_buffer |->
                         IF i < surplus THEN <<conn, taken + SizeLeft + i + 1>>
                                        ELSE m_buffer[i]]
  /\ m_alreadyRead' = 0
  /\ UNCHANGED <<m_fd, pfd, spc, kernelVars, peerVars>>

(* Mutant of Emptied: only the fill level is reset. *)
EmptiedByLevel == m_fillLevel' = 0 /\ UNCHANGED m_alreadyRead

(* recv() starts on an empty buffer and readv() gives it nothing. *)
Emptied == m_fillLevel' = 0 /\ m_alreadyRead' = 0

(* Mutant of EndOfStream: EAGAIN counts as an error like any other. *)
NothingThere == arrived = taken

EndOfStream == arrived = taken /\ (shut \/ peer \in {"closed", "lost", "none"})

(* readv() returns 0 or fails for good: receiveComplete returns. *)
ReadvEnds ==
  /\ rpc = "recv" /\ Unread = 0 /\ (Usable => EndOfStream)
  /\ Emptied
  /\ ComeBackShort
  /\ UNCHANGED <<m_fd, pfd, m_buffer, spc, kernelVars, peerVars, taken>>

(* readv() fails with EAGAIN. *)
ReadvWouldBlock ==
  /\ rpc = "recv" /\ Unread = 0 /\ Usable
  /\ arrived = taken /\ ~EndOfStream
  /\ Emptied
  /\ rpc' = "wait"
  /\ UNCHANGED <<m_fd, pfd, m_buffer, callVars, ended, spc, kernelVars,
                 peerVars, taken>>

(* pfd.fd = m_fd and poll() without a timeout.  A descriptor that is       *)
(* closed makes poll() return at once (POLLNVAL); one that is negative is  *)
(* ignored by poll(), which then waits for nothing.                        *)
EnterPoll ==
  /\ rpc = "wait"
  /\ pfd' = m_fd
  /\ rpc' = IF m_fd # NoFd /\ ~isOpen THEN "recv" ELSE "polling"
  /\ UNCHANGED <<m_fd, readerVars, callVars, ended, spc, kernelVars, peerVars,
                 taken>>

PollReturns ==
  /\ rpc = "polling" /\ pfd # NoFd
  /\ arrived > taken \/ EndOfStream
  /\ rpc' = "recv"
  /\ UNCHANGED <<m_fd, pfd, readerVars, callVars, ended, spc, kernelVars,
                 peerVars, taken>>

(* EINTR: poll() is entered again with the descriptor taken before, and    *)
(* finds that it has been closed meanwhile.                                *)
PollInterrupted ==
  /\ rpc = "polling" /\ pfd # NoFd /\ ~isOpen
  /\ rpc' = "recv"
  /\ UNCHANGED <<m_fd, pfd, readerVars, callVars, ended, spc, kernelVars,
                 peerVars, taken>>

(* Mutant of Leave: start() may return after any read. *)
LeaveEarly ==
  /\ rpc = "ready"
  /\ rpc' = "idle"
  /\ UNCHANGED <<m_fd, pfd, readerVars, callVars, ended, spc, kernelVars,
                 peerVars, taken>>

(* The read of a header came back short: start() returns and leaves the    *)
(* socket as it is.                                                        *)
Leave ==
  /\ rpc = "ready" /\ ended
  /\ rpc' = "idle"
  /\ UNCHANGED <<m_fd, pfd, readerVars, callVars, ended, spc, kernelVars,
                 peerVars, taken>>

-----------------------------------------------------------------------------
(* stop(), in the other thread: every statement reads m_fd again.          *)
(* shutdown() of a socket that is neither connected nor connecting fails   *)
(* with ENOTCONN and leaves it usable.  close() does not wake a poll().    *)

StopShutdown ==
  /\ spc = "idle"
  /\ spc' = "close"
  /\ shut' = (shut \/ (Usable /\ (peer # "none" \/ rpc = "dialing")))
  /\ UNCHANGED <<rpc, m_fd, pfd, readerVars, callVars, ended, conn, isOpen,
                 openSockets, peerVars, taken>>

StopClose ==
  /\ spc = "close"
  /\ spc' = "clear"
  /\ isOpen' = (isOpen /\ ~Usable)
  /\ openSockets' = IF Usable THEN openSockets - 1 ELSE openSockets
  /\ UNCHANGED <<rpc, m_fd, pfd, readerVars, callVars, ended, conn, shut,
                 peerVars, taken>>

StopClear ==
  /\ spc = "clear"
  /\ spc' = "idle"
  /\ m_fd' = NoFd
  /\ UNCHANGED <<rpc, pfd, readerVars, callVars, ended, kernelVars, peerVars,
                 taken>>

-----------------------------------------------------------------------------
(* The peer and the network                                                *)

PeerSends ==
  /\ peer = "up" /\ ~shut /\ arrived < MaxBytes
  /\ arrived' = arrived + 1
  /\ UNCHANGED <<rpc, m_fd, pfd, readerVars, callVars, ended, spc, kernelVars,
                 peer, taken>>

(* FIN, RST, or nothing at all any more. *)
PeerGoes ==
  /\ peer = "up"
  /\ peer' \in {"closed", "lost", "silent"}
  /\ UNCHANGED <<rpc, m_fd, pfd, readerVars, callVars, ended, spc, kernelVars,
                 arrived, taken>>

(* The keep alive probes that init() has configured go unanswered. *)
KeepAliveExpires ==
  /\ peer = "silent"
  /\ peer' = "lost"
  /\ UNCHANGED <<rpc, m_fd, pfd, readerVars, callVars, ended, spc, kernelVars,
                 arrived, taken>>

-----------------------------------------------------------------------------
Connect == CreateSocket \/ CreateSocketFails \/ Resolve \/ Dial \/ DialWait

ReceiveStep ==
  \/ \E n \in 0 .. MaxRequest : Receive(n)
  \/ RecvFromBuffer
  \/ \E n \in 1 .. MaxRequest + BufferSize : ReadvBytes(n)
  \/ ReadvEnds \/ ReadvWouldBlock \/ EnterPoll \/ PollReturns
  \/ Leave

Stop == StopShutdown \/ StopClose \/ StopClear

Environment == PeerSends \/ PeerGoes \/ KeepAliveExpires \/ PollInterrupted

Next == Start \/ Connect \/ ReceiveStep \/ Stop \/ Environment

(* The receiving thread runs, and start() reaches the header read that      *)
(* fails; stop(), once called, returns; the kernel's probes run out.  The  *)
(* peer, signals and the call of stop() are owed nothing.                  *)
Fairness ==
  /\ WF_vars(Connect) /\ WF_vars(ReceiveStep) /\ SF_vars(Leave)
  /\ WF_vars(StopClose \/ StopClear)
  /\ WF_vars(KeepAliveExpires)

Spec == Init /\ [][Next]_vars
FairSpec == Spec /\ Fairness

-----------------------------------------------------------------------------
(* Properties                                                              *)

(* What receiveComplete has stored for its caller are the next bytes of    *)
(* the connection in force, whatever was split by a short read, kept in    *)
(* m_buffer or left by an earlier connection: neither connect() nor stop() *)
(* resets the reader.                                                      *)
InOrder ==
  \A i \in DOMAIN block : block[i] = <<conn, handed - Len(block) + i>>

(* Everything readv() took from the kernel has been handed out or waits in *)
(* m_buffer, and whoever is not reading has left nothing there.            *)
NothingLost ==
  /\ handed + Unread = taken
  /\ ended \/ rpc \notin Receiving => Unread = 0

(* The socket is the channel the receive loop is written for: above all,   *)
(* receiveComplete does not return with less than was wanted unless the    *)
(* connection is over, and after a call that came back short nothing more  *)
(* of that connection is handed out, so that a torn message is never       *)
(* continued with later bytes.                                             *)
Channel == INSTANCE ByteChannel
             WITH connection <- conn, wanted <- size, call <- block, over <- ended

ImplementsChannel == Channel!ChannelSpec

(* streamclient.h: "Returns when stream is stopped by calling stop()".     *)
(* Here stop() has found the connection in force standing, shut it down    *)
(* and closed it; what is left of stop() is to forget the descriptor.      *)
StopHasClosed == spc = "clear" /\ m_fd = conn /\ shut /\ ~isOpen

StopEndsReceive == (StopHasClosed /\ rpc \in Receiving) ~> rpc = "idle"
=============================================================================
