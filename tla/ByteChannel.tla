---------------------------- MODULE ByteChannel ----------------------------
(***************************************************************************)
(* What SocketNonblocking promises to the receive loop: a channel for one  *)
(* connection at a time.  Every call of receiveComplete is answered with   *)
(* the next bytes of the connection, all that it wants and no more; when   *)
(* one comes back short the connection is over.  One thread reads: it      *)
(* makes no call before the last one is answered.  This is an abstract     *)
(* specification; StreamSocket implements it.                              *)
(***************************************************************************)
EXTENDS Naturals, Sequences

VARIABLES
  connection,  \* number of the connection
  arrived,     \* bytes of it that have arrived
  handed,      \* bytes of it handed to the callers
  wanted,      \* how many bytes the current call wants
  call,        \* the bytes handed to it
  over         \* a call came back short

channel == <<connection, arrived, handed, wanted, call, over>>

ChannelInit ==
  /\ connection = 0 /\ arrived = 0 /\ handed = 0
  /\ wanted = 0 /\ call = <<>> /\ over = FALSE

Answered == Len(call) = wanted \/ over

Open ==
  /\ Answered
  /\ connection' = connection + 1
  /\ arrived' = 0 /\ handed' = 0
  /\ wanted' = 0 /\ call' = <<>> /\ over' = FALSE

(* A byte arrives; one that nobody will ask for may do so, too. *)
Arrive ==
  /\ arrived' = arrived + 1
  /\ UNCHANGED <<connection, handed, wanted, call, over>>

Call ==
  /\ Answered
  /\ wanted' \in Nat /\ call' = <<>>
  /\ UNCHANGED <<connection, arrived, handed, over>>

(* Some of the bytes that have arrived, in order, not handed before and    *)
(* not more than are wanted.                                               *)
Hand ==
  /\ ~over
  /\ \E n \in 1 .. arrived - handed :
       /\ Len(call) + n <= wanted
       /\ handed' = handed + n
       /\ call' = call \o [i \in 1 .. n |-> <<connection, handed + i>>]
  /\ UNCHANGED <<connection, arrived, wanted, over>>

(* The call in progress is given up. *)
End ==
  /\ Len(call) < wanted
  /\ over' = TRUE
  /\ UNCHANGED <<connection, arrived, handed, wanted, call>>

ChannelNext == Open \/ Arrive \/ Call \/ Hand \/ End

ChannelSpec == ChannelInit /\ [][ChannelNext]_channel
=============================================================================
