-------------------------- MODULE StartStopProofs --------------------------
(***************************************************************************)
(* Proofs about both kinds of program: each is a use of StreamClient that  *)
(* Session allows, a cycle of startstop leaves nothing subscribed, and its *)
(* set of signals follows the device.                                      *)
(***************************************************************************)
EXTENDS StartStop, SessionProofs

(* Every step of a program is one of Session, or none of it. *)
LEMMA ControlSteps == [ControlNext]_controlVars => [Next]_vars
<1> SUFFICES ASSUME [ControlNext]_controlVars PROVE [Next]_vars
  OBVIOUS
<1> USE DEF Next, Threads
<1>1. CASE UNCHANGED controlVars
  BY <1>1, Zenon DEF controlVars
<1>2. CASE program = "callbacks" /\ Next /\ UNCHANGED programVars
  BY <1>2
<1>3. CASE StartStopNext
  <2>1. ~killed
    BY <1>3 DEF StartStopNext
  <2>2. CASE \E S \in SUBSET Signals : Appear(S) \/ Vanish(S)
    BY <2>2, Zenon DEF Appear, Vanish, Tell
  <2>3. CASE Start
    BY <2>1, <2>3, Zenon DEF Start, Receiver
  <2>4. CASE StartStep \/ StartReturns
    BY <2>1, <2>4, Zenon DEF StartStep, StartReturns, Receiver
  <2>5. CASE Hear \/ \E s \in Signals : Note(s)
    BY <2>5, Zenon DEF Hear, Note
  <2>6. CASE CopyReferences \/ CallThrows
    BY <2>6, Zenon DEF CopyReferences, CallThrows
  <2>7. CASE CallController
    BY <2>1, <2>7, Zenon DEF CallController, Main
  <2>8. CASE ControllerStep \/ ServeMain \/ CallReturns
    BY <2>1, <2>8 DEF ControllerStep, ServeMain, CallReturns, Request
  <2> QED BY <1>3, <2>2, <2>3, <2>4, <2>5, <2>6, <2>7, <2>8
          DEF StartStopNext, StartStopMain
<1> QED BY <1>1, <1>2, <1>3 DEF ControlNext

(* Whichever program runs, its use of StreamClient is one that Session     *)
(* describes: what holds there holds for it.                               *)
THEOREM ProgramsKeepSession == ControlSpec => Spec
BY ControlSteps, PTL DEF ControlSpec, ControlInit, Spec

-----------------------------------------------------------------------------
(* The invariant                                                           *)

(* What is streamed is on main's list, other than what the server was      *)
(* asked to end and gave no error; nothing else is, once it has ended it   *)
(* or said so; main goes on only when it said so or had nothing to ask.    *)
Cycle ==
  LET c == call["main"] IN
    /\ phase \in {"copy", "subscribe", "unsubscribe"}
    /\ streamed \subseteq subscribed \cup ignored
    /\ phase = "copy" => streamed \subseteq ignored /\ c = NoCall
    /\ c.none => subscribed = {}
    /\ c.pc = "returned" => c.none \/ c.body = "json"
    /\ phase = "unsubscribe" /\ (c.done \/ c.body = "json")
         => streamed \subseteq ignored

ControlInv ==
  /\ SessionInv
  /\ program \in {"startstop", "callbacks"}
  /\ program = "callbacks" => streamed = {}
  /\ program = "startstop" => Cycle

(* The loop's own variables and the signals are left alone. *)
LoopVars == <<phase, subscribed, streamed, ignored>>

(* What the call was for and what became of it.                            *)
Verdict(c) == <<c.done, c.none, c.body>>

LEMMA CycleKept ==
  ASSUME Cycle, UNCHANGED LoopVars,
         \/ UNCHANGED call["main"]
         \/ /\ UNCHANGED Verdict(call["main"]) /\ phase # "copy"
            /\ call'["main"].pc = "returned"
                 => call["main"].none \/ call["main"].body = "json"
  PROVE  Cycle'
BY Zenon DEF Cycle, LoopVars, Verdict

(* A step of the request before or after the server keeps what the server  *)
(* has done and what it was asked for; it returns to the program only with *)
(* JSON without an error, or nothing to ask for.                           *)
LEMMA ControllerKeeps ==
  ASSUME CallTypes, ControllerStep
  PROVE  /\ UNCHANGED Verdict(call["main"]) /\ UNCHANGED LoopVars
         /\ call["main"].pc # "idle"
         /\ call'["main"].pc = "returned"
              => call["main"].none \/ call["main"].body = "json"
<1>1. call["main"] \in Calls /\ call \in [Threads -> Calls]
  BY DEF CallTypes, Threads
<1>2. UNCHANGED LoopVars
  BY DEF ControllerStep, LoopVars, programVars, mainLoop, server
<1>3. call["main"].pc # "idle"
  BY DEF ControllerStep, Copy, Check, Dial, Send, Answer, Fields
<1>4. ASSUME NEW pc, Goes("main", pc)
      PROVE  UNCHANGED Verdict(call["main"]) /\ call'["main"].pc = pc
  <2> DEFINE c == [call["main"] EXCEPT !.pc = pc]
  <2>1. Verdict(c) = Verdict(call["main"]) /\ c.pc = pc
    BY <1>1 DEF Calls, Verdict
  <2>2. call'["main"] = c
    BY <1>1, <1>4 DEF Goes, Threads
  <2> QED BY <2>1, <2>2, Zenon DEF Verdict
<1>5. CASE \E f \in Fields : Copy("main", f)
  <2>1. PICK f \in Fields : Copy("main", f)
    BY <1>5
  <2> DEFINE c == [call["main"] EXCEPT !.copy[f] = session[f],
                                       !.pc = Following[f]]
  <2>2. Verdict(c) = Verdict(call["main"]) /\ c.pc # "returned"
    BY <1>1 DEF Calls, Following, Fields, Verdict
  <2>3. call'["main"] = c
    BY <1>1, <2>1 DEF Copy, Threads
  <2> QED BY <1>2, <1>3, <2>2, <2>3, Zenon DEF Verdict
<1>6. CASE Check("main")
  <2>1. \/ Goes("main", "threw") \/ Goes("main", "dial")
        \/ call["main"].none /\ Goes("main", "returned")
    BY <1>6, Zenon DEF Check
  <2> QED BY <1>2, <1>3, <1>4, <2>1
<1>7. CASE Dial("main")
  BY <1>2, <1>3, <1>4, <1>7 DEF Dial
<1>8. CASE Send("main")
  <2>1. CASE UNCHANGED call
    <3>1. call["main"].pc # "returned"
      BY <1>8 DEF Send
    <3> QED BY <1>2, <1>3, <2>1, <3>1, Zenon DEF Verdict
  <2>2. CASE \E pc \in {"await", "threw"} : Goes("main", pc)
    BY <1>2, <1>3, <1>4, <2>2
  <2> QED BY <1>8, <2>1, <2>2 DEF Send
<1>9. CASE Answer("main")
  <2>1. PICK body \in {call["main"].body, "other"} : Goes("main", Outcome(body))
    BY <1>9 DEF Answer
  <2>2. Outcome(body) = "returned" => call["main"].body = "json"
    BY DEF Outcome
  <2> QED BY <1>2, <1>3, <1>4, <2>1, <2>2
<1> QED BY <1>5, <1>6, <1>7, <1>8, <1>9 DEF ControllerStep

LEMMA CallControllerCycle ==
  ASSUME CallTypes, Cycle, CallController PROVE Cycle'
<1>1. PICK none \in BOOLEAN : Begin("main", none)
  BY DEF CallController, MainCalls
<1> DEFINE c == [NoCall EXCEPT !.pc = "address", !.none = none]
<1>2. c.done = FALSE /\ c.body = "other" /\ c.pc = "address"
  BY DEF NoCall
<1>3. call'["main"] = c
  BY <1>1 DEF Begin, CallTypes, Threads
<1>4. /\ UNCHANGED LoopVars /\ phase # "copy"
      /\ call'["main"].none <=> subscribed = {}
  BY Zenon DEF CallController, programVars, mainLoop, server, LoopVars
<1> HIDE DEF c
<1>5. /\ call'["main"].done = FALSE /\ call'["main"].body = "other"
      /\ call'["main"].pc = "address"
  BY <1>2, <1>3
<1> QED BY <1>4, <1>5 DEF Cycle, LoopVars

LEMMA ServeCycle == ASSUME CallTypes, Cycle, ServeMain PROVE Cycle'
<1>1. call["main"].pc = "await" /\ phase # "copy"
  BY DEF ServeMain, Serve, Cycle, NoCall
<1>2. PICK done \in {FALSE, Accepts(call["main"].copy)}, body \in Bodies :
        call' = [call EXCEPT !["main"].done = done, !["main"].body = body,
                             !["main"].pc = "answered"]
  BY DEF ServeMain, Serve
<1> DEFINE c == [call["main"] EXCEPT !.done = done, !.body = body,
                                     !.pc = "answered"]
<1>3. c.none = call["main"].none /\ c.pc # "returned"
  BY DEF CallTypes, Calls, Threads
<1>4. call'["main"] = c
  BY <1>2 DEF CallTypes, Threads
<1> HIDE DEF c
<1>5. call'["main"].none = call["main"].none /\ call'["main"].pc # "returned"
  BY <1>3, <1>4
<1>6. UNCHANGED <<phase, subscribed>>
  BY DEF ServeMain, mainLoop
<1>7. CASE call'["main"].done
  <2>1. Obey
    BY <1>7, Zenon DEF ServeMain
  <2>2. /\ streamed' \subseteq subscribed \cup ignored /\ ignored' = ignored
        /\ phase = "unsubscribe" => streamed' \subseteq ignored
    BY <2>1 DEF Obey, Cycle
  <2> QED BY <1>1, <1>5, <1>6, <2>2, Zenon DEF Cycle
<1>8. CASE ~call'["main"].done
  <2>1. Ignore
    BY <1>8, Zenon DEF ServeMain
  <2>2. /\ streamed' \subseteq subscribed \cup ignored'
        /\ phase = "unsubscribe" /\ call'["main"].body = "json"
             => streamed' \subseteq ignored'
    BY <2>1 DEF Ignore, Cycle
  <2> QED BY <1>1, <1>5, <1>6, <1>8, <2>2, Zenon DEF Cycle
<1> QED BY <1>7, <1>8

LEMMA ReturnsCycle == ASSUME CallTypes, Cycle, CallReturns PROVE Cycle'
<1>1. /\ call'["main"] = NoCall /\ NoCall.none = FALSE /\ NoCall.done = FALSE
      /\ NoCall.body = "other" /\ NoCall.pc = "idle"
  BY DEF CallReturns, Finish, CallTypes, Threads, NoCall
<1>2. UNCHANGED <<streamed, ignored>>
  BY DEF CallReturns, server
<1>3. /\ call'["main"].none = FALSE /\ call'["main"].done = FALSE
      /\ call'["main"].body = "other" /\ call'["main"].pc = "idle"
  BY <1>1
<1>4. CASE phase = "subscribe"
  <2>1. phase' = "unsubscribe" /\ subscribed' = subscribed
    BY <1>4 DEF CallReturns, ListFor
  <2> QED BY <1>2, <1>3, <2>1 DEF Cycle
<1>5. CASE phase # "subscribe"
  <2>1. phase' = "copy" /\ subscribed' = {}
    BY <1>5 DEF CallReturns
  <2>2. call["main"].none \/ call["main"].body = "json"
    BY Zenon DEF CallReturns, Cycle
  <2>3. streamed \subseteq ignored
    <3>1. CASE call["main"].none
      <4>1. subscribed = {}
        BY <3>1, Zenon DEF Cycle
      <4> QED BY <4>1 DEF Cycle
    <3>2. CASE call["main"].body = "json" /\ phase = "unsubscribe"
      BY <3>2, Zenon DEF Cycle
    <3>3. CASE phase = "copy"
      BY <3>3, Zenon DEF Cycle
    <3>4. phase = "unsubscribe" \/ phase = "copy"
      BY <1>5 DEF Cycle
    <3> QED BY <2>2, <3>1, <3>2, <3>3, <3>4, Zenon
  <2> QED BY <1>1, <1>2, <1>3, <2>1, <2>3 DEF Cycle
<1> QED BY <1>4, <1>5

LEMMA StartStopCycle ==
  ASSUME CallTypes, Cycle, StartStopNext PROVE Cycle'
<1>1. CASE \E S \in SUBSET Signals : Appear(S)
  BY <1>1, CycleKept, Zenon DEF Appear, Tell, vars, mainLoop, LoopVars
<1>2. CASE \E S \in SUBSET Signals : Vanish(S)
  <2>1. /\ streamed' \subseteq streamed
        /\ UNCHANGED <<phase, subscribed, ignored, call>>
    BY <1>2 DEF Vanish, Tell, vars, mainLoop
  <2>2. /\ phase = "copy" => streamed' \subseteq ignored
        /\ phase = "unsubscribe" /\ (call["main"].done \/ call["main"].body = "json")
             => streamed' \subseteq ignored
    BY <2>1 DEF Cycle
  <2>3. streamed' \subseteq subscribed \cup ignored
    BY <2>1 DEF Cycle
  <2> QED BY <2>1, <2>2, <2>3, Zenon DEF Cycle
<1>3. CASE Start \/ StartStep \/ StartReturns
  <2>1. UNCHANGED call /\ UNCHANGED LoopVars
    BY <1>3 DEF Start, StartStep, StartReturns, StartCalled, Connected,
       RememberAddress, RememberPort, Return, InitStreamId, InitPath, InitPort,
       InitDone, programVars, mainLoop, server, LoopVars
  <2> QED BY <2>1, CycleKept, Zenon
<1>4. CASE Hear \/ \E s \in Signals : Note(s)
  BY <1>4, CycleKept, Zenon DEF Hear, Note, vars, mainLoop, server, LoopVars
<1>5. CASE CopyReferences
  <2>1. /\ UNCHANGED <<streamed, ignored>> /\ phase' = "subscribe"
        /\ streamed \subseteq ignored /\ call'["main"] = NoCall
    BY <1>5 DEF CopyReferences, Cycle, server, vars
  <2>2. call'["main"].none = FALSE /\ call'["main"].pc = "idle"
    BY <2>1 DEF NoCall
  <2> QED BY <2>1, <2>2 DEF Cycle
<1>6. CASE CallThrows
  BY <1>6, CycleKept, Zenon DEF CallThrows, vars, server, LoopVars
<1>7. CASE ControllerStep
  <2>1. phase # "copy"
    BY <1>7, ControllerKeeps DEF Cycle, NoCall
  <2> QED BY <1>7, <2>1, ControllerKeeps, CycleKept, Zenon
<1> QED BY <1>1, <1>2, <1>3, <1>4, <1>5, <1>6, <1>7, CallControllerCycle,
           ServeCycle, ReturnsCycle
        DEF StartStopNext, StartStopMain

LEMMA ControlStepInv == ControlInv /\ [ControlNext]_controlVars => ControlInv'
<1> SUFFICES ASSUME ControlInv, [ControlNext]_controlVars PROVE ControlInv'
  OBVIOUS
<1>1. SessionInv'
  BY ControlSteps, StepInv DEF ControlInv
<1>2. UNCHANGED program
  BY Zenon DEF ControlNext, StartStopNext, StartStopMain, Appear, Vanish, Tell,
     Start, StartStep, StartReturns, Hear, Note, CopyReferences,
     CallController, ControllerStep, ServeMain, CallReturns, CallThrows,
     programVars, controlVars
<1>3. (program = "callbacks" => streamed = {})'
  BY <1>2 DEF ControlInv, ControlNext, controlVars, programVars, server
<1>4. (program = "startstop" => Cycle)'
  <2>1. CASE program = "startstop" /\ StartStopNext
    BY <1>2, <2>1, StartStopCycle, Whole DEF ControlInv
  <2>2. CASE program = "callbacks"
    BY <1>2, <2>2
  <2>3. CASE UNCHANGED controlVars
    BY <1>2, <2>3, CycleKept, Zenon
    DEF ControlInv, controlVars, vars, programVars, mainLoop, server, LoopVars
  <2> QED BY <2>1, <2>2, <2>3 DEF ControlNext
<1> QED BY <1>1, <1>2, <1>3, <1>4 DEF ControlInv

THEOREM ControlInvariance == ControlSpec => []ControlInv
<1>1. ControlInit => ControlInv
  <2> SUFFICES ASSUME ControlInit PROVE ControlInv
    OBVIOUS
  <2>1. SessionInv
    BY InitInv DEF ControlInit
  <2>2. call["main"] = NoCall
    BY DEF ControlInit, Init, Threads
  <2>3. Cycle /\ streamed = {}
    BY <2>2 DEF ControlInit, Cycle, NoCall
  <2> QED BY <2>1, <2>3 DEF ControlInv, ControlInit
<1> QED BY <1>1, ControlStepInv, PTL DEF ControlSpec

-----------------------------------------------------------------------------
(* Types of the program's own variables                                    *)

ProgramTypes ==
  /\ program \in {"startstop", "callbacks"}
  /\ phase \in {"copy", "subscribe", "unsubscribe"}
  /\ subscribed \subseteq Signals /\ aborted \in BOOLEAN
  /\ signalReferences \subseteq Signals /\ todo \in Announcements
  /\ news \in Seq(Announcements) /\ Len(news) <= MaxNews
  /\ available \subseteq Signals /\ streamed \subseteq Signals
  /\ ignored \subseteq Signals

LEMMA ProgramTypesInit == ControlInit => ProgramTypes
<1> SUFFICES ASSUME ControlInit PROVE ProgramTypes
  OBVIOUS
<1>1. Nothing \in Announcements
  BY DEF Nothing, Announcements
<1>2. <<>> \in Seq(Announcements) /\ Len(<<>>) <= MaxNews
  BY NewsAssumption
<1> QED BY <1>1, <1>2 DEF ControlInit, ProgramTypes

LEMMA ProgramTypesStep ==
  ASSUME ProgramTypes, [ControlNext]_controlVars PROVE ProgramTypes'
<1> USE DEF ProgramTypes
<1>1. CASE UNCHANGED programVars
  BY <1>1 DEF programVars, mainLoop, heard, server
<1>2. ASSUME NEW S \in SUBSET Signals, NEW method \in {"available", "unavailable"},
             Tell(method, S), available' \subseteq Signals,
             streamed' \subseteq Signals, UNCHANGED ignored
      PROVE  ProgramTypes'
  <2>1. [method |-> method, params |-> S] \in Announcements
    BY DEF Announcements
  <2>2. news' \in Seq(Announcements) /\ Len(news') = Len(news) + 1
    BY <1>2, <2>1 DEF Tell
  <2>3. Len(news) \in Nat /\ Len(news) < MaxNews
    BY <1>2 DEF Tell
  <2>4. Len(news') <= MaxNews
    BY <2>2, <2>3, NewsAssumption
  <2> QED BY <1>2, <2>2, <2>4 DEF Tell, mainLoop
<1>3. CASE \E S \in SUBSET Signals : Appear(S) \/ Vanish(S)
  BY <1>2, <1>3 DEF Appear, Vanish
<1>4. CASE StartReturns
  BY <1>4, NewsAssumption DEF StartReturns, mainLoop, server
<1>5. CASE Hear
  <2>1. /\ Head(news) \in Announcements /\ Tail(news) \in Seq(Announcements)
        /\ Len(Tail(news)) <= MaxNews
    BY <1>5, NewsAssumption DEF Hear
  <2> QED BY <1>5, <2>1 DEF Hear, mainLoop, server
<1>6. CASE \E s \in Signals : Note(s)
  <2>1. PICK s \in Signals : Note(s)
    BY <1>6
  <2>2. todo' \in Announcements
    BY <2>1 DEF Note, Nothing, Announcements
  <2>3. signalReferences' \subseteq Signals
    BY <2>1 DEF Note, Noted
  <2> QED BY <2>1, <2>2, <2>3 DEF Note, mainLoop, server
<1>7. CASE CopyReferences
  BY <1>7 DEF CopyReferences, heard, server
<1>8. CASE ServeMain
  <2>1. streamed' \subseteq Signals /\ ignored' \subseteq Signals
    <3>1. CASE Obey
      BY <3>1 DEF Obey
    <3>2. CASE Ignore
      BY <3>2 DEF Ignore
    <3> QED BY <1>8, <3>1, <3>2, Zenon DEF ServeMain
  <2> QED BY <1>8, <2>1 DEF ServeMain, mainLoop, heard
<1>9. CASE CallReturns
  BY <1>9 DEF CallReturns, ListFor, heard, server
<1>10. CASE CallThrows
  BY <1>10 DEF CallThrows, heard, server
<1>11. CASE Start \/ StartStep \/ CallController \/ ControllerStep
  BY <1>1, <1>11, Zenon DEF Start, StartStep, CallController, ControllerStep
<1>12. CASE UNCHANGED controlVars
  BY <1>1, <1>12, Zenon DEF controlVars
<1> QED BY <1>1, <1>3, <1>4, <1>5, <1>6, <1>7, <1>8, <1>9, <1>10, <1>11, <1>12
        DEF ControlNext, StartStopNext, StartStopMain

(* The types of Session and of the program, whichever it is.               *)
THEOREM ControlTypeCorrect == ControlSpec => []ControlTypeOK
<1>1. TypeOK /\ ProgramTypes => ControlTypeOK
  BY DEF ProgramTypes, ControlTypeOK
<1>2. ControlSpec => []ProgramTypes
  BY ProgramTypesInit, ProgramTypesStep, PTL DEF ControlSpec
<1>3. ControlSpec => []TypeOK
  BY ProgramsKeepSession, TypeCorrect, PTL
<1> QED BY <1>1, <1>2, <1>3, PTL

-----------------------------------------------------------------------------
(* What follows for the programs                                           *)

(* When main of startstop copies the set again, the server streams nothing *)
(* any more that it was not asked to end and did not, without an error:    *)
(* whatever the device and the receiver did since the last copy, and       *)
(* whichever requests and answers were lost, a cycle that ended has asked  *)
(* for the end of what it began.                                           *)
THEOREM CyclesEnd == ControlSpec => []CycleEndsSubscriptions
<1>1. ControlInv => CycleEndsSubscriptions
  <2> SUFFICES ASSUME ControlInv, phase = "copy" PROVE streamed \subseteq ignored
    BY DEF CycleEndsSubscriptions
  <2>1. program \in {"startstop", "callbacks"}
    BY DEF ControlInv
  <2> QED BY <2>1 DEF ControlInv, Cycle
<1> QED BY <1>1, ControlInvariance, PTL

-----------------------------------------------------------------------------
(* The set and the device                                                  *)

Mentioned(s) == \E i \in DOMAIN news : s \in news[i].params

IsLastWord(i, s) ==
  /\ s \in news[i].params
  /\ \A j \in DOMAIN news : j > i => s \notin news[j].params

(* What is under way about a signal, the last word of it, is what the      *)
(* device has; if nothing is, what the receiver is working on; if nothing  *)
(* is there either, the set.                                               *)
Told ==
  \A s \in Signals :
    /\ \A i \in DOMAIN news :
         IsLastWord(i, s) => (news[i].method = "available" <=> s \in available)
    /\ ~Mentioned(s) /\ s \in todo.params
         => (todo.method = "available" <=> s \in available)
    /\ ~Mentioned(s) /\ s \notin todo.params
         => (s \in signalReferences <=> s \in available)

(* startstop connects once, and what was on its way is lost at the end. *)
ToldInSession ==
  /\ conn \in Nat
  /\ rpc = "connecting" => conn = 0
  /\ rpc \notin {"idle", "connecting"} => conn # 0
  /\ (rpc = "idle" /\ conn # 0) \/ Told

FollowInv ==
  /\ ProgramTypes
  /\ program = "startstop" => ToldInSession
  /\ program = "callbacks" => Told

LEMMA ToldKept == ASSUME Told, UNCHANGED <<heard, available>> PROVE Told'
BY DEF Told, heard, Mentioned, IsLastWord

LEMMA TellTold ==
  ASSUME ProgramTypes, Told, NEW S \in SUBSET Signals, Appear(S) \/ Vanish(S)
  PROVE  Told'
<1>1. PICK method \in {"available", "unavailable"} :
        /\ Tell(method, S)
        /\ \A s \in S : method = "available" <=> s \in available'
        /\ \A s \in Signals \ S : s \in available' <=> s \in available
  <2>1. CASE Appear(S)
    BY <2>1 DEF Appear
  <2>2. CASE Vanish(S)
    BY <2>2 DEF Vanish
  <2> QED BY <2>1, <2>2
<1> DEFINE n == Len(news)
           word == [method |-> method, params |-> S]
<1>2. /\ news \in Seq(Announcements) /\ word \in Announcements /\ n \in Nat
      /\ news' = Append(news, word)
      /\ UNCHANGED <<todo, signalReferences>>
  BY <1>1 DEF ProgramTypes, Announcements, Tell
<1>3. /\ DOMAIN news = 1 .. n /\ DOMAIN news' = 1 .. n + 1
      /\ \A i \in 1 .. n : news'[i] = news[i]
      /\ news'[n + 1] = word
  BY <1>2
<1> SUFFICES ASSUME NEW s \in Signals
    PROVE  /\ \A i \in DOMAIN news' :
                IsLastWord(i, s)'
                  => (news'[i].method = "available" <=> s \in available')
           /\ ~Mentioned(s)' /\ s \in todo'.params
                => (todo'.method = "available" <=> s \in available')
           /\ ~Mentioned(s)' /\ s \notin todo'.params
                => (s \in signalReferences' <=> s \in available')
  BY DEF Told
<1>4. CASE s \in S
  <2>1. Mentioned(s)'
    BY <1>2, <1>3, <1>4 DEF Mentioned
  <2>2. ASSUME NEW i \in DOMAIN news', IsLastWord(i, s)' PROVE i = n + 1
    <3>1. s \in news'[n + 1].params
      BY <1>3, <1>4
    <3>2. ~(n + 1 > i)
      BY <1>2, <1>3, <2>2, <3>1 DEF IsLastWord
    <3> QED BY <1>2, <1>3, <3>2
  <2>3. news'[n + 1].method = "available" <=> s \in available'
    BY <1>1, <1>3, <1>4
  <2> QED BY <2>1, <2>2, <2>3
<1>5. CASE s \notin S
  <2>1. s \in available' <=> s \in available
    BY <1>1, <1>5
  <2>2. Mentioned(s) => Mentioned(s)'
    BY <1>2, <1>3 DEF Mentioned
  <2>3. ASSUME NEW i \in DOMAIN news', IsLastWord(i, s)'
        PROVE  i \in DOMAIN news /\ news'[i] = news[i] /\ IsLastWord(i, s)
    <3>1. i # n + 1
      BY <1>3, <1>5, <2>3 DEF IsLastWord
    <3>2. i \in 1 .. n
      BY <1>2, <1>3, <3>1
    <3> QED BY <1>2, <1>3, <2>3, <3>2 DEF IsLastWord
  <2>4. \A i \in DOMAIN news' :
          IsLastWord(i, s)'
            => (news'[i].method = "available" <=> s \in available')
    BY <2>1, <2>3 DEF Told
  <2> QED BY <1>2, <2>1, <2>2, <2>4 DEF Told
<1> QED BY <1>4, <1>5

LEMMA HearTold == ASSUME ProgramTypes, Told, Hear PROVE Told'
<1> DEFINE n == Len(news)
<1>1. /\ news \in Seq(Announcements) /\ n \in Nat \ {0} /\ todo.params = {}
      /\ todo' = news[1] /\ news' = Tail(news)
      /\ UNCHANGED <<signalReferences, available>>
  BY DEF ProgramTypes, Hear, Nothing, server
<1>2. /\ DOMAIN news = 1 .. n /\ DOMAIN news' = 1 .. n - 1
      /\ \A i \in 1 .. n - 1 : i + 1 \in 1 .. n /\ news'[i] = news[i + 1]
  BY <1>1
<1> HIDE DEF n
<1>3. \A j \in 1 .. n : j = 1 \/ (j - 1 \in 1 .. n - 1 /\ news[j] = news'[j - 1])
  BY <1>1, <1>2
<1> SUFFICES ASSUME NEW s \in Signals
    PROVE  /\ \A i \in DOMAIN news' :
                IsLastWord(i, s)'
                  => (news'[i].method = "available" <=> s \in available')
           /\ ~Mentioned(s)' /\ s \in todo'.params
                => (todo'.method = "available" <=> s \in available')
           /\ ~Mentioned(s)' /\ s \notin todo'.params
                => (s \in signalReferences' <=> s \in available')
  BY DEF Told
<1>4. ASSUME NEW i \in DOMAIN news', IsLastWord(i, s)'
      PROVE  news'[i].method = "available" <=> s \in available'
  <2>1. i + 1 \in DOMAIN news /\ news'[i] = news[i + 1] /\ i \in Nat
    BY <1>1, <1>2
  <2>2. ASSUME NEW j \in DOMAIN news, j > i + 1 PROVE s \notin news[j].params
    <3>1. j - 1 \in DOMAIN news' /\ news[j] = news'[j - 1] /\ j - 1 > i
      BY <1>1, <1>2, <1>3, <2>1, <2>2
    <3> QED BY <1>4, <3>1 DEF IsLastWord
  <2>3. IsLastWord(i + 1, s)
    BY <1>4, <2>1, <2>2 DEF IsLastWord
  <2> QED BY <1>1, <2>1, <2>3 DEF Told
<1>5. ASSUME ~Mentioned(s)', NEW j \in DOMAIN news, s \in news[j].params
      PROVE  j = 1
  BY <1>2, <1>3, <1>5 DEF Mentioned
<1>6. ASSUME ~Mentioned(s)', s \in todo'.params
      PROVE  todo'.method = "available" <=> s \in available'
  <2>1. 1 \in DOMAIN news
    BY <1>1, <1>2
  <2>2. IsLastWord(1, s)
    BY <1>1, <1>2, <1>5, <1>6 DEF IsLastWord
  <2> QED BY <1>1, <2>1, <2>2 DEF Told
<1>7. ASSUME ~Mentioned(s)', s \notin todo'.params
      PROVE  s \in signalReferences' <=> s \in available'
  <2>1. ~Mentioned(s)
    BY <1>1, <1>5, <1>7 DEF Mentioned
  <2> QED BY <1>1, <2>1 DEF Told
<1> QED BY <1>4, <1>6, <1>7

LEMMA NoteTold ==
  ASSUME ProgramTypes, Told, NEW s \in Signals, Note(s) PROVE Told'
<1>1. /\ s \in todo.params /\ UNCHANGED <<news, available>>
      /\ signalReferences' = Noted(signalReferences, todo.method, s)
      /\ todo \in Announcements
  BY DEF Note, server, ProgramTypes
<1>2. \A r \in Signals : r \in todo'.params <=> r \in todo.params /\ r # s
  BY <1>1 DEF Note, Nothing, Announcements
<1>3. todo'.params # {} => todo'.method = todo.method
  BY <1>1 DEF Note, Nothing, Announcements
<1>4. \A r \in Signals :
        /\ Mentioned(r)' <=> Mentioned(r)
        /\ \A i \in DOMAIN news : IsLastWord(i, r)' <=> IsLastWord(i, r)
  BY <1>1 DEF Mentioned, IsLastWord
<1>5. s \in signalReferences' <=> todo.method = "available"
  BY <1>1 DEF Noted, Announcements
<1>6. \A r \in Signals \ {s} : r \in signalReferences' <=> r \in signalReferences
  BY <1>1 DEF Noted
<1> QED BY <1>1, <1>2, <1>3, <1>4, <1>5, <1>6 DEF Told

LEMMA SessionTold ==
  ASSUME ProgramTypes, ToldInSession, StartStopNext PROVE ToldInSession'
<1>1. CASE \E S \in SUBSET Signals : Appear(S) \/ Vanish(S)
  <2>1. rpc \notin {"idle", "connecting"} /\ UNCHANGED <<rpc, conn>>
    BY <1>1 DEF Appear, Vanish, Tell, vars, receiverVars
  <2>2. Told'
    BY <1>1, <2>1, TellTold DEF ToldInSession
  <2> QED BY <2>1, <2>2 DEF ToldInSession
<1>2. CASE Start
  <2>1. conn = 0 /\ conn' = 0 /\ rpc' = "connecting"
    BY <1>2 DEF Start, StartCalled
  <2>2. Told'
    BY <1>2, <2>1, ToldKept DEF Start, programVars, heard, server, ToldInSession
  <2> QED BY <2>1, <2>2 DEF ToldInSession
<1>3. CASE StartStep
  <2>1. rpc # "idle" /\ rpc' \notin {"idle", "connecting"}
        /\ \/ rpc = "connecting" /\ conn' = conn + 1
           \/ rpc # "connecting" /\ conn' = conn
    BY <1>3 DEF StartStep, Connected, RememberAddress, RememberPort,
       InitStreamId, InitPath, InitPort, InitDone
  <2>2. Told'
    BY <1>3, <2>1, ToldKept
    DEF StartStep, programVars, heard, server, ToldInSession
  <2> QED BY <2>1, <2>2 DEF ToldInSession
<1>4. CASE StartReturns
  BY <1>4 DEF StartReturns, Return, ToldInSession
<1>5. CASE Hear
  <2>1. rpc = "loop" /\ UNCHANGED <<rpc, conn>>
    BY <1>5 DEF Hear, vars, receiverVars
  <2>2. Told'
    BY <1>5, <2>1, HearTold DEF ToldInSession
  <2> QED BY <2>1, <2>2 DEF ToldInSession
<1>6. CASE \E s \in Signals : Note(s)
  <2>1. UNCHANGED <<rpc, conn>>
    BY <1>6 DEF Note, vars, receiverVars
  <2> QED BY <1>6, <2>1, NoteTold DEF ToldInSession
<1>7. CASE StartStopMain
  <2>1. UNCHANGED <<rpc, conn>>
    BY <1>7 DEF StartStopMain, CopyReferences, CallController, ControllerStep,
       ServeMain, CallReturns, CallThrows, MainCalls, Copy, Check, Dial, Send,
       Answer, Serve, Finish, OnlyRequest, vars, receiverVars
  <2>2. UNCHANGED <<heard, available>>
    BY <1>7 DEF StartStopMain, CopyReferences, CallController, ControllerStep,
       ServeMain, CallReturns, CallThrows, programVars, server
  <2> QED BY <2>1, <2>2, ToldKept DEF ToldInSession
<1> QED BY <1>1, <1>2, <1>3, <1>4, <1>5, <1>6, <1>7 DEF StartStopNext

LEMMA FollowStep == FollowInv /\ [ControlNext]_controlVars => FollowInv'
<1> SUFFICES ASSUME FollowInv, [ControlNext]_controlVars PROVE FollowInv'
  OBVIOUS
<1>1. ProgramTypes'
  BY ProgramTypesStep DEF FollowInv
<1>2. UNCHANGED program
  BY Zenon DEF ControlNext, StartStopNext, StartStopMain, Appear, Vanish, Tell,
     Start, StartStep, StartReturns, Hear, Note, CopyReferences,
     CallController, ControllerStep, ServeMain, CallReturns, CallThrows,
     programVars, controlVars
<1>3. CASE program = "startstop" /\ StartStopNext
  BY <1>1, <1>2, <1>3, SessionTold DEF FollowInv
<1>4. CASE program = "callbacks" /\ UNCHANGED programVars
  <2>1. Told'
    BY <1>4, ToldKept DEF FollowInv, programVars, heard, server
  <2> QED BY <1>1, <1>2, <1>4, <2>1 DEF FollowInv
<1>5. CASE UNCHANGED controlVars
  <2>1. UNCHANGED <<rpc, conn, heard, available>>
    BY <1>5 DEF controlVars, vars, receiverVars, programVars, server
  <2>2. Told => Told'
    BY <2>1, ToldKept
  <2>3. ToldInSession => ToldInSession'
    BY <2>1, <2>2 DEF ToldInSession
  <2> QED BY <1>1, <1>2, <2>2, <2>3 DEF FollowInv
<1> QED BY <1>3, <1>4, <1>5 DEF ControlNext

(* Whatever appears and vanishes while announcements are on their way and  *)
(* the receiver works them off element by element: when nothing is under   *)
(* way any more, the set that main copies is what the device has.          *)
THEOREM SetIsCurrent == ControlSpec => []SetFollowsDevice
<1>1. ControlInit => FollowInv
  <2> SUFFICES ASSUME ControlInit PROVE FollowInv
    OBVIOUS
  <2>1. DOMAIN news = {} /\ todo.params = {}
    BY DEF ControlInit, Nothing
  <2>2. Told
    BY <2>1 DEF ControlInit, Told, Mentioned
  <2>3. conn = 0 /\ rpc = "idle"
    BY DEF ControlInit, Init
  <2> QED BY <2>2, <2>3, ProgramTypesInit DEF FollowInv, ToldInSession
<1>2. FollowInv => SetFollowsDevice
  <2> SUFFICES ASSUME FollowInv, rpc = "loop", todo = Nothing, news = <<>>
               PROVE  signalReferences = available
    BY DEF SetFollowsDevice
  <2>1. Told
    BY DEF FollowInv, ToldInSession, ProgramTypes
  <2>2. DOMAIN news = {} /\ todo.params = {}
    BY DEF Nothing
  <2>3. \A s \in Signals : s \in signalReferences <=> s \in available
    BY <2>1, <2>2 DEF Told, Mentioned
  <2> QED BY <2>3 DEF FollowInv, ProgramTypes
<1> QED BY <1>1, <1>2, FollowStep, PTL DEF ControlSpec
=============================================================================
