----------------------------- MODULE StartStop -----------------------------
(***************************************************************************)
(* The program src/startstop.cpp: a thread runs StreamClient::start() and  *)
(* keeps the set of available signals under a mutex; main copies the set,  *)
(* subscribes all of the copy, unsubscribes it and begins again, for ever. *)
(* Nothing is caught: the first exception ends the process.                *)
(*                                                                         *)
(* The program is composed with Session: main's calls, the steps of start()*)
(* and the server's answers are the ones there.  ControlSpec is a program  *)
(* of either kind: startstop, or one that subscribes from the callback.    *)
(***************************************************************************)
EXTENDS Session

CONSTANTS
  Signals,   \* signal references
  MaxNews    \* bound: announcements under way to the client

ASSUME NewsAssumption == MaxNews \in Nat

VARIABLES
  program,           \* which program runs
  phase,             \* where main is in its loop
  subscribed,        \* main's copy of the set
  aborted,           \* an exception has left main()
  signalReferences,  \* what the receiver has heard of
  todo,              \* rest of the announcement it is working on
  news,              \* announcements sent and not yet received
  available,         \* what the device has
  streamed,          \* what the server has been asked to send
  ignored            \* history: asked not to, it did not and gave no error

mainLoop    == <<phase, subscribed, aborted>>
heard       == <<signalReferences, todo, news>>
server      == <<available, streamed, ignored>>
programVars == <<program, mainLoop, heard, server>>
controlVars == <<vars, programVars>>

Announcements ==
  [method : {"available", "unavailable"}, params : SUBSET Signals]

Nothing == [method |-> "available", params |-> {}]

ControlTypeOK ==
  /\ TypeOK
  /\ program \in {"startstop", "callbacks"}
  /\ phase \in {"copy", "subscribe", "unsubscribe"}
  /\ subscribed \subseteq Signals /\ aborted \in BOOLEAN
  /\ signalReferences \subseteq Signals /\ todo \in Announcements
  /\ news \in Seq(Announcements) /\ Len(news) <= MaxNews
  /\ available \subseteq Signals /\ streamed \subseteq Signals
  /\ ignored \subseteq Signals

ControlInit ==
  /\ Init
  /\ program \in {"startstop", "callbacks"}
  /\ phase = "copy" /\ subscribed = {} /\ aborted = FALSE
  /\ signalReferences = {} /\ todo = Nothing /\ news = <<>>
  /\ available = {} /\ streamed = {} /\ ignored = {}

-----------------------------------------------------------------------------
(* The device: signals come and go, in a session it tells the client.      *)

Tell(method, S) ==
  /\ rpc \notin {"idle", "connecting"} /\ Len(news) < MaxNews
  /\ news' = Append(news, [method |-> method, params |-> S])
  /\ UNCHANGED <<vars, program, mainLoop, signalReferences, todo>>

Appear(S) ==
  /\ S # {} /\ S \cap available = {}
  /\ Tell("available", S)
  /\ available' = available \cup S /\ UNCHANGED <<streamed, ignored>>

Vanish(S) ==
  /\ S # {} /\ S \subseteq available
  /\ Tell("unavailable", S)
  /\ available' = available \ S /\ streamed' = streamed \ S
  /\ UNCHANGED ignored

-----------------------------------------------------------------------------
(* The receiver: start() is called once, without a control port.  If it    *)
(* does not connect, the set stays empty: as good as not having called it. *)

Start ==
  /\ conn = 0 /\ StartCalled
  /\ UNCHANGED programVars

StartStep ==
  /\ \/ \E d \in Devices : Connected(d, Empty)
     \/ RememberAddress \/ RememberPort
     \/ InitStreamId \/ InitPath \/ InitPort \/ InitDone
  /\ UNCHANGED programVars

(* What is still on its way is lost with the connection. *)
StartReturns ==
  /\ todo = Nothing /\ Return
  /\ news' = <<>>
  /\ UNCHANGED <<program, mainLoop, signalReferences, todo, server>>

(* The callback takes the mutex for each element of its own. *)
Hear ==
  /\ rpc = "loop" /\ open /\ next > Len(Interfaces[peer])
  /\ todo = Nothing /\ news # <<>>
  /\ todo' = Head(news) /\ news' = Tail(news)
  /\ UNCHANGED <<vars, program, mainLoop, signalReferences, server>>

(* Mutant of Noted: what is no longer available is kept. *)
NotedForEver(references, method, s) == references \cup {s}

Noted(references, method, s) ==
  IF method = "available" THEN references \cup {s} ELSE references \ {s}

Note(s) ==
  /\ s \in todo.params
  /\ signalReferences' = Noted(signalReferences, todo.method, s)
  /\ todo' = IF todo.params = {s} THEN Nothing
             ELSE [todo EXCEPT !.params = @ \ {s}]
  /\ UNCHANGED <<vars, program, mainLoop, news, server>>

-----------------------------------------------------------------------------
(* main                                                                    *)

CopyReferences ==
  /\ phase = "copy"
  /\ phase' = "subscribe" /\ subscribed' = signalReferences
  /\ UNCHANGED <<vars, program, aborted, heard, server>>

CallController ==
  /\ phase \in {"subscribe", "unsubscribe"}
  /\ MainCalls /\ call'["main"].none = (subscribed = {})
  /\ UNCHANGED programVars

ControllerStep ==
  /\ \/ \E f \in Fields : Copy("main", f)
     \/ Check("main") \/ Dial("main") \/ Send("main") \/ Answer("main")
  /\ UNCHANGED programVars

(* A request that is carried out: the server begins or ends to send the    *)
(* signals of the list that it has.  Another one can be answered without   *)
(* an error all the same.                                                  *)
Obey ==
  /\ streamed' = IF phase = "subscribe"
                 THEN streamed \cup (subscribed \cap available)
                 ELSE streamed \ subscribed
  /\ UNCHANGED ignored

Ignore ==
  /\ ignored' = IF phase = "unsubscribe" /\ call'["main"].body = "json"
                THEN ignored \cup subscribed ELSE ignored
  /\ UNCHANGED streamed

ServeMain ==
  /\ Serve("main")
  /\ IF call'["main"].done THEN Obey ELSE Ignore
  /\ UNCHANGED <<program, mainLoop, heard, available>>

(* Mutant of ListFor: unsubscribe() gets the set as it is by then. *)
ListAnew(list) == signalReferences

ListFor(list) == list

CallReturns ==
  /\ call["main"].pc = "returned" /\ Finish("main")
  /\ IF phase = "subscribe"
     THEN phase' = "unsubscribe" /\ subscribed' = ListFor(subscribed)
     ELSE phase' = "copy" /\ subscribed' = {}
  /\ UNCHANGED <<program, aborted, heard, server>>

CallThrows ==
  /\ call["main"].pc = "threw"
  /\ aborted' = TRUE
  /\ UNCHANGED <<vars, program, phase, subscribed, heard, server>>

StartStopMain ==
  \/ CopyReferences \/ CallController \/ ControllerStep \/ ServeMain
  \/ CallReturns \/ CallThrows

StartStopNext ==
  /\ ~killed /\ ~aborted
  /\ \/ \E S \in SUBSET Signals : Appear(S) \/ Vanish(S)
     \/ Start \/ StartStep \/ StartReturns \/ Hear
     \/ \E s \in Signals : Note(s)
     \/ StartStopMain

ControlNext ==
  \/ program = "startstop" /\ StartStopNext
  \/ program = "callbacks" /\ Next /\ UNCHANGED programVars

ControlSpec == ControlInit /\ [][ControlNext]_controlVars

-----------------------------------------------------------------------------
(* Properties                                                              *)

(* A cycle leaves nothing subscribed: whatever appears, vanishes or is     *)
(* heard of between main's copying and unsubscribing, and whatever becomes *)
(* of connections and answers, main does not begin again while a signal is *)
(* streamed, other than one the server was asked to end and gave no error. *)
CycleEndsSubscriptions == phase = "copy" => streamed \subseteq ignored

(* Once the receiver has worked off what was announced, main will copy     *)
(* what the device has, in whichever portions it came.                     *)
SetFollowsDevice ==
  rpc = "loop" /\ todo = Nothing /\ news = <<>> => signalReferences = available
=============================================================================
