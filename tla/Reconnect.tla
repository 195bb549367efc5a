----------------------------- MODULE Reconnect -----------------------------
(***************************************************************************)
(* The program src/reconnect.cpp: main starts a thread that runs           *)
(* StreamClient::start, sleeps, calls stop(), joins the thread and begins  *)
(* again with the same StreamClient object.  It is the composition of main *)
(* with StreamSocket, whose stopping thread main becomes; how long main    *)
(* sleeps compared with the steps of the thread is left open.              *)
(***************************************************************************)
EXTENDS StreamSocket

VARIABLE main   \* where main() is in its loop

mainVars == <<vars, main>>

MainTypeOK == TypeOK /\ main \in {"spawn", "sleep", "stop", "join"}

MainInit == Init /\ main = "spawn"

-----------------------------------------------------------------------------
Spawn ==
  /\ main = "spawn" /\ Start
  /\ main' = "sleep"

WakeUp ==
  /\ main = "sleep" /\ StopShutdown
  /\ main' = "stop"

FinishStop ==
  /\ main = "stop"
  /\ \/ StopClose /\ UNCHANGED main
     \/ StopClear /\ main' = "join"

(* streamer.join(): the thread has returned from start(). *)
Join ==
  /\ main = "join" /\ rpc = "idle"
  /\ main' = "spawn"
  /\ UNCHANGED vars

Streamer == (Connect \/ ReceiveStep) /\ UNCHANGED main

Surroundings == Environment /\ UNCHANGED main

MainNext ==
  Spawn \/ WakeUp \/ FinishStop \/ Join \/ Streamer \/ Surroundings

(* Both threads are scheduled, and start() reaches the header read that    *)
(* fails.  How long main sleeps is left open, for ever included.           *)
MainFairness ==
  /\ WF_mainVars(FinishStop) /\ WF_mainVars(Join)
  /\ WF_mainVars(Connect /\ UNCHANGED main)
  /\ WF_mainVars(ReceiveStep /\ UNCHANGED main)
  /\ SF_mainVars(Leave /\ UNCHANGED main)
  /\ WF_mainVars(KeepAliveExpires /\ UNCHANGED main)

MainSpec == MainInit /\ [][MainNext]_mainVars
FairMainSpec == MainSpec /\ MainFairness

-----------------------------------------------------------------------------
(* Properties                                                              *)

(* When stop() shuts down a socket whose thread sleeps in poll(), the      *)
(* cycle of main is completed: the thread is joined.                       *)
CycleCompletes ==
  (main = "stop" /\ rpc = "polling" /\ pfd # NoFd /\ shut) ~> main = "spawn"

(* A receiver whose peer closed, failed or went silent returns from start *)
(* though main sleeps on and nobody calls stop(): streamclient.h promises  *)
(* it for a recognized loss.                                               *)
LossRecognized ==
  (main = "sleep" /\ rpc \in Receiving /\ peer \in {"silent", "closed", "lost"})
    ~> (rpc = "idle" \/ main # "sleep")

(* streamclient.h on stop(): "closes the stream socket": when a cycle is   *)
(* over no socket of it stays open.                                        *)
StoppedIsClosed == main = "spawn" => openSockets = 0
=============================================================================
