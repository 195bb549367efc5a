-------------------------- MODULE ReconnectProofs --------------------------
(***************************************************************************)
(* Proofs about the program: main adds no step to the socket that          *)
(* StreamSocket does not allow, so that its invariant holds in every cycle *)
(* of main.                                                                *)
(***************************************************************************)
EXTENDS Reconnect, StreamSocketProofs

(* main is inside stop() exactly while the socket is. *)
Places ==
  /\ main \in {"spawn", "sleep", "stop", "join"}
  /\ main = "stop" <=> spc # "idle"

MainInv == IInv /\ Places

(* Every step of main and of its thread is one of the socket, or none. *)
LEMMA MainSteps == ASSUME MainNext PROVE Next \/ UNCHANGED vars
BY DEF MainNext, Spawn, WakeUp, FinishStop, Join, Streamer, Surroundings, Next,
       Stop

LEMMA PlacesKept == ASSUME IInv, Places, MainNext PROVE Places'
<1>1. CASE Spawn
  BY <1>1 DEF Places, Spawn, Start
<1>2. CASE WakeUp
  BY <1>2 DEF Places, WakeUp, StopShutdown
<1>3. CASE FinishStop
  BY <1>3 DEF Places, FinishStop, StopClose, StopClear
<1>4. CASE Join
  BY <1>4 DEF Places, Join, vars
<1>5. CASE Streamer
  <2>1. CASE Connect
    BY <1>5, <2>1 DEF Places, Streamer, Connect, CreateSocket,
       CreateSocketFails, Resolve, Dial, DialWait
  <2>2. CASE ReceiveStep
    BY <1>5, <2>2 DEF Places, Streamer, ReceiveStep, Receive, RecvFromBuffer,
       ReadvBytes, ReadvEnds, ReadvWouldBlock, EnterPoll, PollReturns, Leave
  <2> QED BY <1>5, <2>1, <2>2 DEF Streamer
<1>6. CASE Surroundings
  BY <1>6 DEF Places, Surroundings, Environment, PeerSends, PeerGoes,
     KeepAliveExpires, PollInterrupted
<1> QED BY <1>1, <1>2, <1>3, <1>4, <1>5, <1>6 DEF MainNext

LEMMA SocketStutter == ASSUME IInv, UNCHANGED vars PROVE IInv'
BY StutterInv
   DEF IInv, EndIsFinal, Usable, EndOfStream, vars, kernelVars, peerVars

THEOREM MainInvariance == MainSpec => []MainInv
<1>1. MainInit => MainInv
  BY InitInv DEF MainInit, Init, MainInv, Places
<1>2. MainInv /\ [MainNext]_mainVars => MainInv'
  <2> SUFFICES ASSUME MainInv, [MainNext]_mainVars PROVE MainInv'
    OBVIOUS
  <2>1. CASE MainNext
    BY <2>1, MainSteps, NextInv, SocketStutter, PlacesKept DEF MainInv
  <2>2. CASE UNCHANGED mainVars
    <3>1. UNCHANGED vars /\ UNCHANGED main
      BY <2>2 DEF mainVars
    <3>2. UNCHANGED spc
      BY <3>1 DEF vars
    <3> QED BY <3>1, <3>2, SocketStutter DEF MainInv, Places
  <2> QED BY <2>1, <2>2
<1> QED BY <1>1, <1>2, PTL DEF MainSpec

(* In every cycle the variables of main and its socket keep their types.   *)
THEOREM MainTypeCorrect == MainSpec => []MainTypeOK
<1>1. MainInv => MainTypeOK
  BY DEF MainInv, Places, IInv, SocketInv, MainTypeOK
<1> QED BY MainInvariance, <1>1, PTL

(* However main's sleep and the thread interleave, the program's socket is *)
(* a ByteChannel: a cycle never reads what an earlier one left behind.     *)
THEOREM ProgramRefines == MainSpec => ImplementsChannel
<1>1. MainInit => Channel!ChannelInit
  BY DEF MainInit, Init, Channel!ChannelInit
<1>2. MainInv /\ [MainNext]_mainVars
        => [Channel!ChannelNext]_(Channel!channel)
  <2>1. UNCHANGED vars => UNCHANGED Channel!channel
    BY DEF vars, callVars, kernelVars, peerVars, Channel!channel
  <2>2. UNCHANGED mainVars => UNCHANGED vars
    BY DEF mainVars
  <2> QED BY <2>1, <2>2, MainSteps, StepRefines DEF MainInv
<1> QED BY MainInvariance, <1>1, <1>2, PTL
        DEF MainSpec, ImplementsChannel, Channel!ChannelSpec
=============================================================================
