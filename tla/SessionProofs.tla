--------------------------- MODULE SessionProofs ---------------------------
(***************************************************************************)
(* Proofs about Session, for every set of devices and lists of interfaces  *)
(* and any number of sessions: what the receiver sends from its callback,  *)
(* and when stop() and the end of start() together silence the client.     *)
(***************************************************************************)
EXTENDS Session, TLAPS

-----------------------------------------------------------------------------
(* The invariant                                                           *)

(* A stop() that was called while no connection was being made, and since  *)
(* no start(): it has returned, or has cleared k strings.                  *)
Stopping(k) == stopped /\ (mpc = "stop" => cleared >= k)

(* The receiver has a call in its callback, after "init", and only what    *)
(* comes after "init" depends on it; main has none while it calls stop(). *)
PlacesOK ==
  /\ rpc \notin {"idle", "connecting"} => conn >= 1
  /\ rpc = "connecting" => conn < MaxSessions /\ ~stopped
  /\ rpc \in {"connected", "addressed"} => next = 0
  /\ rpc \in {"init", "port"} => open /\ next >= 1
  /\ rpc = "port" => next <= Len(Interfaces[peer])
  /\ rpc = "callback" => open /\ next > Len(Interfaces[peer])
  /\ rpc = "callback" <=> call["receiver"].pc # "idle"
  /\ mpc = "call" <=> call["main"].pc # "idle"

(* From the moment stop() has cleared the address, either the address      *)
(* stays empty or nothing is received that could set the stream id again.  *)
Silent ==
  /\ Stopping(0) /\ rpc = "connected" => ~open
  /\ Stopping(1) => session.address = Empty \/ ~open
  /\ Stopping(2) /\ rpc = "connected" => session.id = Empty
  /\ Stopping(2) => session.address = Empty \/ (~open /\ session.id = Empty)

InSession == {"addressed", "loop", "init", "port", "callback"}

(* A stop() clears the port of a session in force only when it has cleared *)
(* the address before, or had done so when start() stored it (raced).      *)
Overtaken ==
  mpc = "stop" /\ cleared >= 1 /\ rpc \in InSession
    => session.address = Empty \/ ~open \/ raced

(* The interfaces of "init" whose path has been looked at, and the path    *)
(* that n of them leave.                                                   *)
Looked == IF rpc = "port" THEN next ELSE next - 1

PathOf(n, path) == \A i \in 1 .. n : LastPost(n, i) => path = <<peer, i>>

(* The port the session ends up with, and before: the one given.           *)
Ports == {RightPort} \cup (IF raced THEN OwnInterfaces ELSE {})

PortsHeld ==
  {IF next < 2 THEN given ELSE RightPort}
    \cup (IF raced THEN {Empty} \cup OwnInterfaces ELSE {})

(* What the strings hold of this session. *)
Remembered ==
  /\ rpc \in InSession => session.address \in {Empty, <<peer>>}
  /\ next >= 1 => session.id \in {Empty, <<conn>>}
  /\ next >= 1 => PathOf(Looked, session.path)
  /\ rpc \in InSession \ {"addressed"} /\ open /\ session.address # Empty
       => session.port \in PortsHeld

(* What the callback has copied of them, string after string. *)
Copied ==
  LET c == call["receiver"] IN
    /\ c.pc \in {"id", "port", "path", "check"} \cup Asking
         => c.copy.address \in {Empty, <<peer>>}
    /\ c.pc \in {"port", "path", "check"} \cup Asking
         => c.copy.id \in {Empty, <<conn>>}
    /\ c.pc \in {"id", "port"} /\ c.copy.address # Empty
         => session.port \in {Empty} \cup Ports
    /\ c.pc \in {"path", "check"} \cup Asking /\ c.copy.address # Empty
         => c.copy.port \in {Empty} \cup Ports
    /\ c.pc \in {"check"} \cup Asking
         => PathOf(Len(Interfaces[peer]), c.copy.path)

SessionInv ==
  TypeOK /\ PlacesOK /\ Silent /\ Overtaken /\ Remembered /\ Copied

-----------------------------------------------------------------------------
(* Type correctness, step by step                                          *)

ReceiverTypes ==
  /\ rpc \in {"idle", "connecting", "connected", "addressed", "loop", "init",
              "port", "callback"}
  /\ conn \in 0 .. MaxSessions /\ peer \in Devices
  /\ given \in {Empty, <<peer>>} /\ open \in BOOLEAN
  /\ next \in 0 .. Len(Interfaces[peer]) + 1

MainTypes ==
  /\ mpc \in {"idle", "call", "stop"} /\ cleared \in 0 .. 3
  /\ stopped \in BOOLEAN /\ raced \in BOOLEAN /\ killed \in BOOLEAN

CallTypes ==
  /\ call \in [Threads -> Calls]
  /\ \A t \in Threads : call[t].pc \in Asking =>
       \A f \in Fields : call[t].copy[f] # Empty

LEMMA TypeParts ==
  TypeOK <=> ReceiverTypes /\ MainTypes /\ session \in Strings /\ CallTypes
BY DEF TypeOK, ReceiverTypes, MainTypes, CallTypes

(* A string that fits its place can be assigned. *)
LEMMA Assigning ==
  ASSUME session \in Strings, NEW s
  PROVE  /\ s \in {Empty} \cup DeviceNames
              => [session EXCEPT !["address"] = s] \in Strings
         /\ s \in {Empty} \cup StreamIds
              => [session EXCEPT !["id"] = s] \in Strings
         /\ s \in {Empty} \cup DeviceNames \cup InterfaceNames
              => [session EXCEPT !["port"] = s] \in Strings
         /\ s \in {Empty} \cup InterfaceNames
              => [session EXCEPT !["path"] = s] \in Strings
BY DEF Strings

LEMMA InitType == Init => TypeOK
<1> SUFFICES ASSUME Init PROVE TypeOK
  OBVIOUS
<1>1. ReceiverTypes
  <2>1. Interfaces[peer] \in Seq(BOOLEAN) /\ 0 \in 0 .. MaxSessions
    BY InterfacesAssumption DEF Init
  <2>2. 0 \in 0 .. Len(Interfaces[peer]) + 1
    BY <2>1
  <2> QED BY <2>1, <2>2, Zenon DEF Init, ReceiverTypes
<1>2. MainTypes
  <2>1. 0 \in 0 .. 3
    OBVIOUS
  <2> QED BY <2>1, Zenon DEF Init, MainTypes
<1>3. NoStrings \in Strings
  BY DEF NoStrings, Strings
<1>4. NoCall \in Calls
  BY <1>3 DEF NoCall, Calls, Bodies
<1>5. CallTypes
  <2>1. call \in [Threads -> Calls]
    BY <1>4 DEF Init
  <2>2. \A t \in Threads : call[t].pc = "idle"
    BY DEF Init, NoCall
  <2> QED BY <2>1, <2>2 DEF CallTypes, Asking
<1> QED BY <1>1, <1>2, <1>3, <1>5, TypeParts DEF Init

-----------------------------------------------------------------------------
(* Facts about strings, ports and paths                                    *)

LEMMA NotEmpty ==
  /\ \A x : <<x>> # Empty
  /\ \A x, y : <<x, y>> # Empty
BY DEF Empty

LEMMA OwnStrings ==
  ASSUME ReceiverTypes
  PROVE  /\ <<peer>> \in DeviceNames
         /\ conn >= 1 => <<conn>> \in StreamIds
         /\ \A i \in 1 .. Len(Interfaces[peer]) :
              <<peer, i>> \in InterfaceNames /\ <<peer, i>> \in OwnInterfaces
         /\ Len(Interfaces[peer]) \in Nat
<1>1. Interfaces[peer] \in Seq(BOOLEAN) /\ peer \in Devices
  BY InterfacesAssumption DEF ReceiverTypes
<1>2. Len(Interfaces[peer]) \in Nat
  BY <1>1
<1>3. DOMAIN Interfaces[peer] = 1 .. Len(Interfaces[peer])
  BY <1>1
<1>4. <<peer>> \in DeviceNames
  BY <1>1 DEF DeviceNames
<1>5. conn >= 1 => <<conn>> \in StreamIds
  <2>1. conn >= 1 => conn \in 1 .. MaxSessions
    BY InterfacesAssumption DEF ReceiverTypes
  <2> QED BY <2>1 DEF StreamIds
<1>6. OwnInterfaces \subseteq InterfaceNames
  BY <1>1 DEF OwnInterfaces, InterfaceNames
<1>7. \A i \in 1 .. Len(Interfaces[peer]) : <<peer, i>> \in OwnInterfaces
  BY <1>3 DEF OwnInterfaces
<1> QED BY <1>2, <1>4, <1>5, <1>6, <1>7

(* A port that is given is the right one, and the right one is none that   *)
(* InitPort would replace.                                                 *)
LEMMA RightPortHeld ==
  ASSUME ReceiverTypes
  PROVE  /\ RightPort # Empty
         /\ given = Empty => RightPort = <<peer, 1>>
         /\ given # Empty => RightPort = given
BY NotEmpty DEF RightPort, ReceiverTypes

LEMMA PortsFit == ASSUME ReceiverTypes PROVE PortsHeld \subseteq {Empty} \cup Ports
BY RightPortHeld DEF PortsHeld, Ports

(* The path of one more interface. *)
LEMMA PathAdded ==
  ASSUME NEW n \in Nat \ {0}, NEW path, PathOf(n - 1, path)
  PROVE  PathOf(n, IF Interfaces[peer][n] THEN <<peer, n>> ELSE path)
<1> SUFFICES ASSUME NEW i \in 1 .. n, LastPost(n, i)
             PROVE  (IF Interfaces[peer][n] THEN <<peer, n>> ELSE path)
                      = <<peer, i>>
  BY DEF PathOf
<1>1. CASE i = n
  BY <1>1 DEF LastPost
<1>2. CASE i # n
  <2>1. n \in i + 1 .. n /\ i \in 1 .. n - 1
    BY <1>2
  <2>2. ~Interfaces[peer][n]
    BY <2>1 DEF LastPost
  <2>3. \A j \in i + 1 .. n - 1 : j \in i + 1 .. n
    OBVIOUS
  <2>4. LastPost(n - 1, i)
    BY <2>1, <2>3 DEF LastPost
  <2> QED BY <2>1, <2>2, <2>4 DEF PathOf
<1> QED BY <1>1, <1>2

(* One call of many is replaced by a well-formed one. *)
LEMMA Replaced ==
  ASSUME CallTypes, NEW t \in Threads, NEW c \in Calls,
         c.pc \in Asking => \A f \in Fields : c.copy[f] # Empty,
         call' = [call EXCEPT ![t] = c]
  PROVE  CallTypes' /\ call'[t] = c
         /\ \A u \in Threads \ {t} : call'[u] = call[u]
BY DEF CallTypes

-----------------------------------------------------------------------------
(* Which variables the parts of the invariant speak of                     *)

PlacesVars == <<rpc, conn, peer, open, next, mpc, stopped, call>>
SilentVars == <<rpc, open, session, mpc, cleared, stopped, raced>>
CopiedVars == <<conn, peer, given, raced, session, call["receiver"]>>

(* What the session's strings are compared with.                           *)
LEMMA Compared ==
  /\ UNCHANGED <<peer, given>> => RightPort' = RightPort
  /\ UNCHANGED peer =>
       /\ OwnInterfaces' = OwnInterfaces
       /\ \A n, i : LastPost(n, i)' <=> LastPost(n, i)
       /\ \A n, path : PathOf(n, path)' <=> PathOf(n, path)
  /\ UNCHANGED <<peer, given, raced>> => Ports' = Ports
  /\ UNCHANGED <<peer, given, raced, next>> => PortsHeld' = PortsHeld
<1>1. UNCHANGED <<peer, given>> => RightPort' = RightPort
  BY Zenon DEF RightPort
<1>2. UNCHANGED peer => OwnInterfaces' = OwnInterfaces
  BY Zenon DEF OwnInterfaces
<1>3. UNCHANGED peer => \A n, i : LastPost(n, i)' <=> LastPost(n, i)
  BY Zenon DEF LastPost
<1>4. UNCHANGED peer => \A n, path : PathOf(n, path)' <=> PathOf(n, path)
  BY <1>3, Zenon DEF PathOf
<1>5. UNCHANGED <<peer, given, raced>> => Ports' = Ports
  BY <1>1, <1>2 DEF Ports
<1>6. UNCHANGED <<peer, given, raced, next>> => PortsHeld' = PortsHeld
  BY <1>1, <1>2 DEF PortsHeld
<1> QED BY <1>1, <1>2, <1>3, <1>4, <1>5, <1>6, Zenon

LEMMA Framed ==
  /\ ReceiverTypes /\ UNCHANGED receiverVars => ReceiverTypes'
  /\ MainTypes /\ UNCHANGED <<mainVars, killed>> => MainTypes'
  /\ CallTypes /\ UNCHANGED call => CallTypes'
  /\ PlacesOK /\ UNCHANGED PlacesVars => PlacesOK'
  /\ Silent /\ UNCHANGED SilentVars => Silent'
  /\ Overtaken /\ UNCHANGED SilentVars => Overtaken'
  /\ Remembered /\ UNCHANGED <<receiverVars, session, raced>> => Remembered'
  /\ Copied /\ UNCHANGED CopiedVars => Copied'
<1>1. ReceiverTypes /\ UNCHANGED receiverVars => ReceiverTypes'
  BY Zenon DEF ReceiverTypes, receiverVars
<1>2. MainTypes /\ UNCHANGED <<mainVars, killed>> => MainTypes'
  BY Zenon DEF MainTypes, mainVars
<1>3. CallTypes /\ UNCHANGED call => CallTypes'
  BY Zenon DEF CallTypes
<1>4. PlacesOK /\ UNCHANGED PlacesVars => PlacesOK'
  BY DEF PlacesOK, PlacesVars
<1>5. Silent /\ UNCHANGED SilentVars => Silent'
  BY DEF Silent, SilentVars, Stopping
<1>6. Overtaken /\ UNCHANGED SilentVars => Overtaken'
  BY DEF Overtaken, SilentVars
<1>7. Remembered /\ UNCHANGED <<receiverVars, session, raced>> => Remembered'
  <2> SUFFICES ASSUME Remembered, UNCHANGED <<receiverVars, session, raced>>
               PROVE  Remembered'
    OBVIOUS
  <2>1. /\ UNCHANGED <<rpc, conn, peer, open, next, session>>
        /\ PortsHeld' = PortsHeld /\ Looked' = Looked
        /\ \A n, path : PathOf(n, path)' <=> PathOf(n, path)
    BY Compared, Zenon DEF receiverVars, Looked
  <2> QED BY <2>1, Zenon DEF Remembered
<1>8. Copied /\ UNCHANGED CopiedVars => Copied'
  <2> SUFFICES ASSUME Copied, UNCHANGED CopiedVars PROVE Copied'
    OBVIOUS
  <2>1. /\ UNCHANGED <<conn, peer, session, call["receiver"]>>
        /\ Ports' = Ports
        /\ \A n, path : PathOf(n, path)' <=> PathOf(n, path)
    BY Compared, Zenon DEF CopiedVars
  <2> QED BY <2>1, Zenon DEF Copied
<1> QED BY <1>1, <1>2, <1>3, <1>4, <1>5, <1>6, <1>7, <1>8, Zenon

(* The parts make up the invariant. *)
LEMMA Whole ==
  SessionInv <=> /\ ReceiverTypes /\ MainTypes /\ session \in Strings
                 /\ CallTypes /\ PlacesOK /\ Silent /\ Overtaken
                 /\ Remembered /\ Copied
BY TypeParts DEF SessionInv

(* While the receiver has no call, nothing is copied. *)
LEMMA NothingCopied ==
  /\ call["receiver"].pc = "idle" => Copied
  /\ call'["receiver"].pc = "idle" => Copied'
BY DEF Copied, Asking

LEMMA InitInv == Init => SessionInv
<1> SUFFICES ASSUME Init PROVE SessionInv
  OBVIOUS
<1>1. /\ rpc = "idle" /\ next = 0 /\ mpc = "idle" /\ stopped = FALSE
      /\ call["receiver"].pc = "idle" /\ call["main"].pc = "idle"
  BY DEF Init, NoCall, Threads
<1>2. PlacesOK
  BY <1>1 DEF PlacesOK
<1>3. Silent /\ Overtaken
  BY <1>1 DEF Silent, Stopping, Overtaken
<1>4. Remembered
  BY <1>1 DEF Remembered, InSession
<1> QED BY <1>1, <1>2, <1>3, <1>4, NothingCopied, InitType DEF SessionInv

-----------------------------------------------------------------------------
(* Steps of the receiver                                                   *)

(* Nothing that stop() has done is undone by a step that assigns no        *)
(* address, and a stream id only while messages are received.              *)
LEMMA SilentKept ==
  ASSUME Silent, Overtaken, UNCHANGED mainVars, open' => open,
         session'.address = session.address,
         session'.id = session.id \/ (open /\ rpc' # "connected"),
         rpc' = "connected" => rpc = "connected",
         rpc' \in InSession => rpc \in InSession
  PROVE  Silent' /\ Overtaken'
<1>1. UNCHANGED <<mpc, cleared, stopped, raced>>
  BY Zenon DEF mainVars
<1>2. \A k \in {0, 1, 2} : Stopping(k)' <=> Stopping(k)
  BY <1>1, Zenon DEF Stopping
<1>3. Silent'
  BY <1>2 DEF Silent
<1>4. Overtaken'
  BY <1>1 DEF Overtaken
<1> QED BY <1>3, <1>4

(* What is remembered stays as long as neither the strings nor what they   *)
(* are compared with changes.                                              *)
LEMMA RememberedKept ==
  ASSUME Remembered, UNCHANGED <<conn, peer, given, raced, next, session>>,
         open' => open, rpc' \in InSession => rpc \in InSession,
         rpc' \in InSession \ {"addressed"} => rpc # "addressed",
         rpc # "port" /\ rpc' # "port"
  PROVE  Remembered'
<1>1. PortsHeld' = PortsHeld /\ \A n, path : PathOf(n, path)' <=> PathOf(n, path)
  BY Compared
<1>2. Looked' = Looked
  BY DEF Looked
<1> QED BY <1>1, <1>2 DEF Remembered

LEMMA StartCalledStep ==
  ASSUME SessionInv, StartCalled
  PROVE  SessionInv'
<1> USE DEF StartCalled
<1>1. ReceiverTypes' /\ CallTypes' /\ (session \in Strings)'
  BY Whole, Zenon DEF ReceiverTypes, CallTypes
<1>2. MainTypes'
  BY Whole, Zenon DEF MainTypes
<1>3. call["receiver"].pc = "idle"
  BY Whole DEF PlacesOK
<1>4. PlacesOK'
  BY <1>3, Whole DEF PlacesOK
<1>5. Silent' /\ Overtaken'
  BY DEF Silent, Overtaken, Stopping, InSession
<1>6. Remembered' /\ Copied'
  BY <1>3, Whole, RememberedKept, NothingCopied DEF InSession
<1> QED BY <1>1, <1>2, <1>4, <1>5, <1>6, Whole, PTL

LEMMA ConnectFailsStep ==
  ASSUME SessionInv, ConnectFails
  PROVE  SessionInv'
<1> USE DEF ConnectFails
<1>1. ReceiverTypes' /\ CallTypes' /\ MainTypes' /\ (session \in Strings)'
  BY Whole, Framed, Zenon DEF ReceiverTypes
<1>2. call["receiver"].pc = "idle"
  BY Whole DEF PlacesOK
<1>3. PlacesOK'
  BY <1>2, Whole DEF PlacesOK, mainVars
<1>4. Silent' /\ Overtaken'
  BY Whole, SilentKept DEF InSession
<1>5. Remembered' /\ Copied'
  BY <1>2, Whole, RememberedKept, NothingCopied DEF InSession, mainVars
<1> QED BY <1>1, <1>3, <1>4, <1>5, Whole, PTL

LEMMA ConnectedStep ==
  ASSUME SessionInv, NEW d \in Devices, NEW port \in {Empty, <<d>>},
         Connected(d, port)
  PROVE  SessionInv'
<1> USE DEF Connected
<1>1. conn < MaxSessions /\ ~stopped /\ call["receiver"].pc = "idle"
  BY Whole DEF PlacesOK
<1>2. ReceiverTypes'
  <2>1. conn' \in 0 .. MaxSessions
    BY <1>1, InterfacesAssumption, Whole DEF ReceiverTypes
  <2>2. Len(Interfaces[d]) \in Nat
    BY InterfacesAssumption
  <2>3. next' \in 0 .. Len(Interfaces[peer']) + 1
    BY <2>2
  <2> QED BY <2>1, <2>3, Zenon DEF ReceiverTypes
<1>3. MainTypes' /\ CallTypes' /\ (session \in Strings)'
  BY Whole, Framed, Zenon
<1>4. conn' >= 1
  BY Whole, InterfacesAssumption DEF ReceiverTypes
<1>5. PlacesOK'
  BY <1>1, <1>4, Whole DEF PlacesOK, mainVars
<1>6. Silent' /\ Overtaken'
  BY <1>1 DEF Silent, Overtaken, Stopping, InSession, mainVars
<1>7. Remembered' /\ Copied'
  BY <1>1, NothingCopied DEF Remembered, InSession
<1> QED BY <1>2, <1>3, <1>5, <1>6, <1>7, Whole, PTL

LEMMA RememberAddressStep ==
  ASSUME SessionInv, RememberAddress
  PROVE  SessionInv'
<1> USE DEF RememberAddress, Assign
<1>1. ReceiverTypes' /\ CallTypes'
  BY Whole, Framed, Zenon DEF ReceiverTypes
<1>2. (session \in Strings)'
  BY Whole, OwnStrings, Assigning
<1>3. MainTypes'
  <2>1. raced' \in BOOLEAN /\ UNCHANGED <<mpc, cleared, stopped, killed>>
    OBVIOUS
  <2> QED BY <2>1, Whole, Zenon DEF MainTypes
<1>4. session'.address = <<peer>> /\ session'.id = session.id
  BY Whole DEF Strings
<1>5. call["receiver"].pc = "idle" /\ next = 0 /\ conn >= 1
  BY Whole DEF PlacesOK
<1>6. PlacesOK'
  BY <1>5, Whole DEF PlacesOK
<1>7. Silent'
  <2>1. (Stopping(1) => Stopping(0)) /\ (Stopping(2) => Stopping(1))
    BY Whole DEF Stopping, MainTypes
  <2>2. \A k \in {0, 1, 2} : Stopping(k)' <=> Stopping(k)
    BY Zenon DEF Stopping
  <2> QED BY <1>4, <2>1, <2>2, Whole DEF Silent
<1>8. Overtaken'
  <2>1. cleared >= 1 => cleared > 0
    BY Whole DEF MainTypes
  <2>2. raced' <=> mpc = "stop" /\ cleared > 0
    OBVIOUS
  <2> QED BY <2>1, <2>2, Zenon DEF Overtaken
<1>9. Remembered' /\ Copied'
  BY <1>4, <1>5, NothingCopied DEF Remembered, InSession
<1> QED BY <1>1, <1>2, <1>3, <1>6, <1>7, <1>8, <1>9, Whole, PTL

LEMMA RememberPortStep ==
  ASSUME SessionInv, RememberPort
  PROVE  SessionInv'
<1> USE DEF RememberPort, Assign
<1>1. ReceiverTypes' /\ CallTypes' /\ MainTypes'
  BY Whole, Framed, Zenon DEF ReceiverTypes
<1>2. (session \in Strings)'
  BY Whole, OwnStrings, Assigning DEF ReceiverTypes
<1>3. /\ session'.port = given /\ session'.address = session.address
      /\ session'.id = session.id
  BY Whole DEF Strings
<1>4. call["receiver"].pc = "idle" /\ next = 0 /\ conn >= 1
  BY Whole DEF PlacesOK
<1>5. PlacesOK'
  BY <1>4, Whole DEF PlacesOK, mainVars
<1>6. Silent' /\ Overtaken'
  BY <1>3, Whole, SilentKept DEF InSession
<1>7. Remembered' /\ Copied'
  <2>1. session'.port \in PortsHeld'
    BY <1>3, <1>4 DEF PortsHeld
  <2> QED BY <1>3, <1>4, <2>1, Whole, NothingCopied DEF Remembered, InSession
<1> QED BY <1>1, <1>2, <1>5, <1>6, <1>7, Whole, PTL

LEMMA ReturnStep ==
  ASSUME SessionInv, Return
  PROVE  SessionInv'
<1> USE DEF Return
<1>1. ReceiverTypes' /\ CallTypes' /\ MainTypes' /\ (session \in Strings)'
  BY Whole, Framed, Zenon DEF ReceiverTypes
<1>2. call["receiver"].pc = "idle"
  BY Whole DEF PlacesOK
<1>3. PlacesOK'
  BY <1>2, Whole DEF PlacesOK, mainVars
<1>4. Silent' /\ Overtaken'
  BY Whole, SilentKept DEF InSession
<1>5. Remembered' /\ Copied'
  BY <1>2, Whole, RememberedKept, NothingCopied DEF InSession, mainVars
<1> QED BY <1>1, <1>3, <1>4, <1>5, Whole, PTL

LEMMA InitStreamIdStep ==
  ASSUME SessionInv, InitStreamId
  PROVE  SessionInv'
<1> USE DEF InitStreamId, Assign
<1>1. call["receiver"].pc = "idle" /\ conn >= 1
  BY Whole DEF PlacesOK
<1>2. ReceiverTypes'
  <2>1. next' \in 0 .. Len(Interfaces[peer]) + 1
    BY Whole, OwnStrings
  <2> QED BY <2>1, Whole, Zenon DEF ReceiverTypes
<1>3. CallTypes' /\ MainTypes' /\ (session \in Strings)'
  BY <1>1, Whole, OwnStrings, Assigning, Framed
<1>4. /\ session'.id = <<conn>> /\ session'.address = session.address
      /\ session'.port = session.port
  BY Whole DEF Strings
<1>5. PlacesOK'
  BY <1>1, Whole DEF PlacesOK, mainVars
<1>6. Silent' /\ Overtaken'
  BY <1>4, Whole, SilentKept DEF InSession
<1>7. Remembered' /\ Copied'
  <2>1. PathOf(Looked, session.path)'
    BY DEF Looked, PathOf
  <2>2. PortsHeld' = PortsHeld
    <3>1. RightPort' = RightPort /\ OwnInterfaces' = OwnInterfaces
      BY Compared
    <3> QED BY <3>1 DEF PortsHeld, mainVars
  <2> QED BY <1>1, <1>4, <2>1, <2>2, Whole, NothingCopied
      DEF Remembered, InSession
<1> QED BY <1>2, <1>3, <1>5, <1>6, <1>7, Whole, PTL

LEMMA InitPathStep ==
  ASSUME SessionInv, InitPath
  PROVE  SessionInv'
<1> USE DEF InitPath, Assign
<1>1. /\ call["receiver"].pc = "idle" /\ open /\ conn >= 1
      /\ next \in 1 .. Len(Interfaces[peer])
  BY Whole, OwnStrings DEF PlacesOK, ReceiverTypes
<1>2. ReceiverTypes' /\ CallTypes' /\ MainTypes'
  BY Whole, Framed, Zenon DEF ReceiverTypes
<1>3. /\ (session \in Strings)'
      /\ session'.id = session.id /\ session'.address = session.address
      /\ session'.port = session.port
      /\ session'.path = IF Interfaces[peer][next] THEN <<peer, next>>
                                                   ELSE session.path
  <2>1. <<peer, next>> \in InterfaceNames
    BY <1>1, Whole, OwnStrings
  <2> QED BY <2>1, Whole DEF Strings
<1>4. PlacesOK'
  BY <1>1, Whole DEF PlacesOK, mainVars
<1>5. Silent' /\ Overtaken'
  BY <1>3, Whole, SilentKept DEF InSession
<1>6. Remembered' /\ Copied'
  <2>1. /\ Looked' = next /\ Looked = next - 1 /\ PortsHeld' = PortsHeld
        /\ \A n, path : PathOf(n, path)' <=> PathOf(n, path)
    BY Compared DEF Looked, mainVars
  <2>2. PathOf(next, session'.path)
    <3>1. next \in Nat \ {0} /\ PathOf(next - 1, session.path)
      BY <1>1, <2>1, Whole DEF Remembered
    <3> QED BY <1>3, <3>1, PathAdded
  <2>3. PathOf(Looked, session.path)'
    BY <2>1, <2>2 DEF PathOf, LastPost
  <2> QED BY <1>1, <1>3, <2>1, <2>3, Whole, NothingCopied
      DEF Remembered, InSession
<1> QED BY <1>2, <1>3, <1>4, <1>5, <1>6, Whole, PTL

LEMMA InitPortStep ==
  ASSUME SessionInv, InitPort
  PROVE  SessionInv'
<1> USE DEF InitPort, Assign
<1>1. /\ call["receiver"].pc = "idle" /\ open /\ conn >= 1
      /\ next \in 1 .. Len(Interfaces[peer])
  BY Whole, OwnStrings DEF PlacesOK, ReceiverTypes
<1>2. ReceiverTypes'
  <2>1. next' \in 0 .. Len(Interfaces[peer]) + 1
    BY <1>1, Whole, OwnStrings
  <2> QED BY <2>1, Whole, Zenon DEF ReceiverTypes
<1>3. CallTypes' /\ MainTypes'
  BY Whole, Framed, Zenon
<1>4. <<peer, next>> \in InterfaceNames /\ <<peer, next>> \in OwnInterfaces
  BY <1>1, Whole, OwnStrings
<1>5. /\ (session \in Strings)'
      /\ session'.id = session.id /\ session'.address = session.address
      /\ session'.path = session.path
      /\ session'.port = IF session.port = Empty THEN <<peer, next>>
                                                 ELSE session.port
  BY <1>4, Whole DEF Strings
<1>6. PlacesOK'
  BY <1>1, Whole DEF PlacesOK, mainVars
<1>7. Silent' /\ Overtaken'
  BY <1>5, Whole, SilentKept DEF InSession
<1>8. Remembered' /\ Copied'
  <2>1. /\ Looked' = Looked /\ \A n, path : PathOf(n, path)' <=> PathOf(n, path)
    BY <1>1, Compared DEF Looked
  <2>2. PathOf(Looked, session.path)
    BY <1>1, Whole DEF Remembered
  <2>5. PathOf(Looked, session.path)'
    BY <1>5, <2>1, <2>2 DEF PathOf, LastPost
  <2>3. PortsHeld' = {RightPort}
                      \cup (IF raced THEN {Empty} \cup OwnInterfaces ELSE {})
    <3>1. RightPort' = RightPort /\ OwnInterfaces' = OwnInterfaces
      BY Compared
    <3>2. ~(next' < 2) /\ raced' = raced
      BY <1>1 DEF mainVars
    <3> QED BY <3>1, <3>2 DEF PortsHeld
  <2>4. session.address # Empty => session'.port \in PortsHeld'
    <3> SUFFICES ASSUME session.address # Empty
                 PROVE  session'.port \in PortsHeld'
      OBVIOUS
    <3>1. session.port \in PortsHeld
      BY <1>1, Whole DEF Remembered, InSession
    <3>2. next < 2 => next = 1
      BY <1>1
    <3>3. CASE session.port = Empty /\ raced
      BY <1>4, <1>5, <2>3, <3>3
    <3>4. CASE session.port = Empty /\ ~raced
      <4>1. next = 1 /\ given = Empty
        BY <3>1, <3>2, <3>4, Whole, RightPortHeld DEF PortsHeld
      <4> QED BY <1>5, <2>3, <3>4, <4>1, Whole, RightPortHeld
    <3>5. CASE session.port # Empty
      BY <1>5, <2>3, <3>1, <3>5, Whole, RightPortHeld DEF PortsHeld
    <3> QED BY <3>3, <3>4, <3>5
  <2> QED BY <1>1, <1>5, <2>4, <2>5, Whole, NothingCopied
      DEF Remembered, InSession
<1> QED BY <1>2, <1>3, <1>5, <1>6, <1>7, <1>8, Whole, PTL

LEMMA InitDoneStep ==
  ASSUME SessionInv, InitDone
  PROVE  SessionInv'
<1> USE DEF InitDone
<1>1. call["receiver"].pc = "idle" /\ open /\ conn >= 1 /\ next >= 1
  BY Whole DEF PlacesOK
<1>2. ReceiverTypes' /\ CallTypes' /\ MainTypes' /\ (session \in Strings)'
  BY Whole, Framed, Zenon DEF ReceiverTypes
<1>3. PlacesOK'
  BY <1>1, Whole DEF PlacesOK, mainVars
<1>4. Silent' /\ Overtaken'
  BY Whole, SilentKept DEF InSession
<1>5. Remembered' /\ Copied'
  BY <1>1, Whole, RememberedKept, NothingCopied DEF InSession, mainVars
<1> QED BY <1>2, <1>3, <1>4, <1>5, Whole, PTL

-----------------------------------------------------------------------------
(* Steps of a call                                                         *)

(* A call begins with nothing copied. *)
LEMMA NoCallOK ==
  ASSUME NEW none \in BOOLEAN
  PROVE  /\ NoCall \in Calls /\ NoCall.pc = "idle"
         /\ [NoCall EXCEPT !.pc = "address", !.none = none] \in Calls
         /\ [NoCall EXCEPT !.pc = "address", !.none = none].pc = "address"
BY DEF NoCall, Calls, NoStrings, Strings, Reading, Fields, Bodies

LEMMA AvailableStep ==
  ASSUME SessionInv, Available
  PROVE  SessionInv'
<1> USE DEF Available
<1>1. PICK none \in BOOLEAN : Begin("receiver", none)
  BY Zenon
<1> DEFINE c == [NoCall EXCEPT !.pc = "address", !.none = none]
<1>2. c \in Calls /\ c.pc = "address"
  BY NoCallOK
<1>3. call' = [call EXCEPT !["receiver"] = c]
  BY <1>1 DEF Begin
<1> HIDE DEF c
<1>4. /\ CallTypes' /\ call'["receiver"] = c
      /\ call'["main"] = call["main"]
  BY <1>2, <1>3, Whole, Replaced DEF Threads, Asking
<1>5. ReceiverTypes' /\ MainTypes' /\ (session \in Strings)'
  BY Whole, Framed, Zenon DEF ReceiverTypes
<1>6. PlacesOK'
  BY <1>2, <1>4, Whole DEF PlacesOK, mainVars
<1>7. Silent' /\ Overtaken'
  BY Whole, SilentKept DEF InSession
<1>8. Remembered'
  BY Whole, RememberedKept DEF InSession, mainVars
<1>9. Copied'
  BY <1>2, <1>4 DEF Copied, Asking
<1> QED BY <1>4, <1>5, <1>6, <1>7, <1>8, <1>9, Whole, PTL

LEMMA MainCallsStep ==
  ASSUME SessionInv, MainCalls
  PROVE  SessionInv'
<1> USE DEF MainCalls
<1>1. PICK none \in BOOLEAN : Begin("main", none)
  BY Zenon
<1> DEFINE c == [NoCall EXCEPT !.pc = "address", !.none = none]
<1>2. c \in Calls /\ c.pc = "address"
  BY NoCallOK
<1>3. call' = [call EXCEPT !["main"] = c]
  BY <1>1 DEF Begin
<1> HIDE DEF c
<1>4. /\ CallTypes' /\ call'["main"] = c
      /\ call'["receiver"] = call["receiver"]
  BY <1>2, <1>3, Whole, Replaced DEF Threads, Asking
<1>5. MainTypes'
  BY Whole, Zenon DEF MainTypes
<1>6. PlacesOK'
  BY <1>2, <1>4, Whole DEF PlacesOK, receiverVars
<1>7. Silent' /\ Overtaken'
  <2>1. \A k \in {0, 1, 2} : Stopping(k)' <=> Stopping(k)
    BY Zenon DEF Stopping
  <2> QED BY <2>1, Whole DEF Silent, Overtaken, receiverVars
<1>8. ReceiverTypes' /\ Remembered' /\ Copied' /\ (session \in Strings)'
  BY <1>4, Whole, Framed, Zenon DEF receiverVars, CopiedVars
<1> QED BY <1>4, <1>5, <1>6, <1>7, <1>8, Whole, PTL

(* A call that goes on is still a call. *)
LEMMA PlacesKept ==
  ASSUME PlacesOK, NEW t \in Threads,
         UNCHANGED <<rpc, conn, peer, open, next, mpc, stopped>>,
         call[t].pc # "idle", call'[t].pc # "idle",
         \A u \in Threads \ {t} : call'[u] = call[u]
  PROVE  PlacesOK'
<1>1. \A u \in Threads : call'[u].pc = "idle" <=> call[u].pc = "idle"
  BY Zenon
<1>2. /\ call'["receiver"].pc = "idle" <=> call["receiver"].pc = "idle"
      /\ call'["main"].pc = "idle" <=> call["main"].pc = "idle"
  BY <1>1 DEF Threads
<1> QED BY <1>2 DEF PlacesOK

(* What a call in the callback can find in the strings. *)
LEMMA ToBeCopied ==
  ASSUME SessionInv, call["receiver"].pc # "idle"
  PROVE  /\ session.address \in {Empty, <<peer>>}
         /\ session.id \in {Empty, <<conn>>}
         /\ PathOf(Len(Interfaces[peer]), session.path)
         /\ session.address # Empty => session.port \in {Empty} \cup Ports
<1>1. rpc = "callback" /\ open /\ next > Len(Interfaces[peer])
  BY Whole DEF PlacesOK
<1>2. next >= 1 /\ Looked = Len(Interfaces[peer])
  BY <1>1, Whole, OwnStrings DEF ReceiverTypes, Looked
<1> QED BY <1>1, <1>2, Whole, PortsFit DEF Remembered, InSession

(* One string more is copied. *)
LEMMA CopyStep ==
  ASSUME SessionInv, NEW t \in Threads, NEW f \in Fields, Copy(t, f)
  PROVE  SessionInv'
<1> USE DEF Copy, OnlyRequest
<1> DEFINE c == [call[t] EXCEPT !.copy[f] = session[f], !.pc = Following[f]]
<1>1. call[t] \in Calls /\ session \in Strings
  BY Whole DEF CallTypes
<1>2. /\ Following[f] \in Reading \ {"address"}
      /\ Following[f] \notin Asking /\ f # "idle" /\ Following[f] # "idle"
  BY DEF Following, Fields, Reading, Asking
<1>3. \/ f = "address" /\ session[f] = session.address
      \/ f = "id" /\ session[f] = session.id
      \/ f = "port" /\ session[f] = session.port
      \/ f = "path" /\ session[f] = session.path
  BY DEF Fields
<1>4. [call[t].copy EXCEPT ![f] = session[f]] \in Strings
  BY <1>1, <1>3 DEF Calls, Strings
<1>5. /\ c \in Calls /\ c.pc = Following[f]
      /\ c.copy = [call[t].copy EXCEPT ![f] = session[f]]
  BY <1>1, <1>2, <1>4 DEF Calls
<1>6. call' = [call EXCEPT ![t] = c]
  BY <1>1 DEF Calls
<1> HIDE DEF c
<1>7. /\ CallTypes' /\ call'[t] = c
      /\ \A u \in Threads \ {t} : call'[u] = call[u]
  BY <1>2, <1>5, <1>6, Whole, Replaced
<1>8. UNCHANGED <<receiverVars, session, mainVars, killed>>
  OBVIOUS
<1>9. /\ ReceiverTypes' /\ MainTypes' /\ Silent' /\ Overtaken' /\ Remembered'
      /\ (session \in Strings)'
  BY <1>8, Whole, Framed, Zenon DEF SilentVars, receiverVars, mainVars
<1>10. PlacesOK'
  BY <1>2, <1>5, <1>7, <1>8, Whole, PlacesKept DEF receiverVars, mainVars
<1>11. Copied'
  <2>1. CASE t # "receiver"
    <3>1. call'["receiver"] = call["receiver"]
      BY <1>7, <2>1 DEF Threads
    <3> QED BY <1>8, <3>1, Whole, Framed, Zenon
            DEF CopiedVars, receiverVars, mainVars
  <2>2. CASE t = "receiver"
    <3>1. /\ UNCHANGED <<conn, peer, session>> /\ Ports' = Ports
          /\ \A n, path : PathOf(n, path)' <=> PathOf(n, path)
      BY <1>8, Compared DEF receiverVars, mainVars
    <3>2. /\ session.address \in {Empty, <<peer>>}
          /\ session.id \in {Empty, <<conn>>}
          /\ PathOf(Len(Interfaces[peer]), session.path)
          /\ session.address # Empty => session.port \in {Empty} \cup Ports
      BY <1>2, <2>2, ToBeCopied
    <3>3. call[t].copy \in Strings /\ call'["receiver"] = c
      BY <1>1, <1>7, <2>2 DEF Calls
    <3>4. CASE f = "address"
      <4>1. c.pc = "id" /\ c.copy.address = session.address
        BY <1>5, <3>3, <3>4 DEF Following, Strings
      <4> QED BY <3>1, <3>2, <3>3, <4>1 DEF Copied, Asking
    <3>5. CASE f = "id"
      <4>1. /\ c.pc = "port" /\ c.copy.id = session.id
            /\ c.copy.address = call["receiver"].copy.address
            /\ call["receiver"].pc = "id"
        BY <1>5, <2>2, <3>3, <3>5 DEF Following, Strings
      <4> QED BY <3>1, <3>2, <3>3, <4>1, Whole DEF Copied, Asking
    <3>6. CASE f = "port"
      <4>1. /\ c.pc = "path" /\ c.copy.port = session.port
            /\ c.copy.address = call["receiver"].copy.address
            /\ c.copy.id = call["receiver"].copy.id
            /\ call["receiver"].pc = "port"
        BY <1>5, <2>2, <3>3, <3>6 DEF Following, Strings
      <4> QED BY <3>1, <3>2, <3>3, <4>1, Whole DEF Copied, Asking
    <3>7. CASE f = "path"
      <4>1. /\ c.pc = "check" /\ c.copy.path = session.path
            /\ c.copy.address = call["receiver"].copy.address
            /\ c.copy.id = call["receiver"].copy.id
            /\ c.copy.port = call["receiver"].copy.port
            /\ call["receiver"].pc = "path"
        BY <1>5, <2>2, <3>3, <3>7 DEF Following, Strings
      <4>2. /\ c.copy.address \in {Empty, <<peer>>}
            /\ c.copy.id \in {Empty, <<conn>>}
            /\ c.copy.address # Empty => c.copy.port \in {Empty} \cup Ports
        BY <4>1, Whole DEF Copied
      <4>3. PathOf(Len(Interfaces[peer]), c.copy.path)
        BY <3>2, <4>1
      <4> QED BY <3>1, <3>3, <4>1, <4>2, <4>3 DEF Copied, Asking
    <3> QED BY <3>4, <3>5, <3>6, <3>7 DEF Fields
  <2> QED BY <2>1, <2>2
<1> QED BY <1>7, <1>9, <1>10, <1>11, Whole, PTL

(* A call that has copied its strings goes on with them, or ends. *)
LEMMA Going ==
  ASSUME SessionInv, NEW t \in Threads, NEW c \in Calls,
         call' = [call EXCEPT ![t] = c], OnlyRequest, killed' \in BOOLEAN,
         c.copy = call[t].copy, c.pc \in {"returned", "threw"} \cup Asking,
         c.pc \in Asking => /\ call[t].pc \in {"check"} \cup Asking
                            /\ \A f \in Fields : c.copy[f] # Empty,
         call[t].pc # "idle"
  PROVE  SessionInv'
<1> USE DEF OnlyRequest
<1>1. /\ CallTypes' /\ call'[t] = c
      /\ \A u \in Threads \ {t} : call'[u] = call[u]
  BY Whole, Replaced
<1>2. ReceiverTypes' /\ Silent' /\ Overtaken' /\ Remembered'
      /\ (session \in Strings)'
  BY Whole, Framed, Zenon DEF SilentVars, receiverVars, mainVars
<1>3. MainTypes'
  BY Whole, Zenon DEF MainTypes, mainVars
<1>4. c.pc # "idle" /\ c.pc \notin {"id", "port", "path", "check"}
  BY DEF Asking
<1>5. PlacesOK'
  BY <1>1, <1>4, Whole, PlacesKept DEF receiverVars, mainVars
<1>6. Copied'
  <2>1. CASE t # "receiver"
    <3>1. call'["receiver"] = call["receiver"]
      BY <1>1, <2>1 DEF Threads
    <3> QED BY <3>1, Whole, Framed, Zenon DEF CopiedVars, receiverVars, mainVars
  <2>2. CASE t = "receiver"
    <3>1. call'["receiver"] = c
      BY <1>1, <2>2
    <3>2. /\ UNCHANGED <<conn, peer>> /\ Ports' = Ports
          /\ \A n, path : PathOf(n, path)' <=> PathOf(n, path)
      BY Compared DEF receiverVars, mainVars
    <3>3. c.pc \in Asking =>
            /\ c.copy.address \in {Empty, <<peer>>}
            /\ c.copy.id \in {Empty, <<conn>>}
            /\ c.copy.address # Empty => c.copy.port \in {Empty} \cup Ports
            /\ PathOf(Len(Interfaces[peer]), c.copy.path)
      BY <2>2, Whole DEF Copied
    <3> QED BY <1>4, <3>1, <3>2, <3>3 DEF Copied
  <2> QED BY <2>1, <2>2
<1> QED BY <1>1, <1>2, <1>3, <1>5, <1>6, Whole, PTL

(* Going on is what a call does when only its place changes. *)
LEMMA PlaceChanged ==
  ASSUME SessionInv, NEW t \in Threads, NEW pc,
         pc \in {"returned", "threw"} \cup Asking, Goes(t, pc),
         OnlyRequest, killed' \in BOOLEAN, call[t].pc # "idle",
         pc \in Asking => \/ call[t].pc \in Asking
                          \/ call[t].pc = "check" /\ ~Missing(call[t].copy)
  PROVE  SessionInv'
<1> DEFINE c == [call[t] EXCEPT !.pc = pc]
<1>1. call[t] \in Calls
  BY Whole DEF CallTypes
<1>2. c \in Calls /\ c.copy = call[t].copy /\ c.pc = pc
  BY <1>1 DEF Calls
<1>3. call' = [call EXCEPT ![t] = c]
  BY DEF Goes
<1>4. pc \in Asking => \A f \in Fields : call[t].copy[f] # Empty
  BY Whole DEF CallTypes, Missing
<1> HIDE DEF c
<1> QED BY <1>2, <1>3, <1>4, Going

LEMMA RequestStep ==
  ASSUME SessionInv, NEW t \in Threads,
         Check(t) \/ Dial(t) \/ Send(t) \/ Serve(t) \/ Answer(t)
  PROVE  SessionInv'
<1>1. killed \in BOOLEAN
  BY Whole DEF MainTypes
<1>2. CASE Check(t)
  BY <1>1, <1>2, PlaceChanged DEF Check, Asking
<1>3. CASE Dial(t)
  BY <1>1, <1>3, PlaceChanged DEF Dial, Asking
<1>4. CASE Send(t)
  <2>1. CASE call[t].pc = "closed" /\ killed' = TRUE /\ UNCHANGED call
    <3>1. UNCHANGED <<receiverVars, session, mainVars, call>>
      BY <1>4, <2>1 DEF Send, OnlyRequest
    <3>2. MainTypes'
      BY <2>1, <3>1, Whole, Zenon DEF MainTypes, mainVars
    <3>3. /\ ReceiverTypes' /\ (session \in Strings)' /\ CallTypes'
          /\ PlacesOK' /\ Silent' /\ Overtaken' /\ Remembered' /\ Copied'
      BY <3>1, Whole, Framed, Zenon
      DEF SilentVars, PlacesVars, CopiedVars, receiverVars, mainVars
    <3> QED BY <3>2, <3>3, Whole, PTL
  <2> QED BY <1>1, <1>4, <2>1, PlaceChanged DEF Send, Asking
<1>5. CASE Serve(t)
  <2> DEFINE c(done, body) == [call[t] EXCEPT !.done = done, !.body = body,
                                              !.pc = "answered"]
  <2>1. PICK done \in {FALSE, Accepts(call[t].copy)}, body \in Bodies :
          call' = [call EXCEPT ![t].done = done, ![t].body = body,
                               ![t].pc = "answered"]
    BY <1>5 DEF Serve
  <2>2. done \in BOOLEAN
    BY DEF Accepts
  <2>3. call[t] \in Calls /\ call[t].pc = "await"
    BY <1>5, Whole DEF Serve, CallTypes
  <2>4. call' = [call EXCEPT ![t] = c(done, body)]
    BY <2>1, Whole DEF CallTypes
  <2>5. /\ c(done, body) \in Calls /\ c(done, body).copy = call[t].copy
        /\ c(done, body).pc = "answered"
    BY <2>2, <2>3 DEF Calls, Asking
  <2>6. \A f \in Fields : call[t].copy[f] # Empty
    BY <2>3, Whole DEF CallTypes, Asking
  <2>7. OnlyRequest /\ killed' \in BOOLEAN
    BY <1>1, <1>5 DEF Serve
  <2> HIDE DEF c
  <2> QED BY <2>3, <2>4, <2>5, <2>6, <2>7, Going DEF Asking
<1>6. CASE Answer(t)
  <2>1. call[t].pc \in {"await", "answered"} /\ UNCHANGED killed /\ OnlyRequest
    BY <1>6 DEF Answer
  <2>2. PICK body : Goes(t, Outcome(body))
    BY <1>6 DEF Answer
  <2>3. Outcome(body) \in {"returned", "threw"}
    BY DEF Outcome
  <2>4. CASE Goes(t, "returned") \/ Goes(t, "threw")
    BY <1>1, <2>1, <2>4, PlaceChanged DEF Asking
  <2> QED BY <2>2, <2>3, <2>4
<1> QED BY <1>2, <1>3, <1>4, <1>5, <1>6

LEMMA FinishStep ==
  ASSUME SessionInv, NEW t \in Threads, Finish(t)
  PROVE  SessionInv'
<1> USE DEF Finish
<1>1. /\ CallTypes' /\ call'[t] = NoCall
      /\ \A u \in Threads \ {t} : call'[u] = call[u]
  BY NoCallOK, Whole, Replaced DEF Asking
<1>2. (session \in Strings)' /\ call[t].pc # "idle" /\ NoCall.pc = "idle"
  BY Whole, NoCallOK
<1>3. CASE t # "receiver"
  <2>1. /\ t = "main" /\ call'["receiver"] = call["receiver"]
        /\ call'["main"].pc = "idle"
    BY <1>1, <1>2, <1>3 DEF Threads
  <2>2. /\ mpc' = "idle" /\ UNCHANGED <<receiverVars, session>>
        /\ UNCHANGED <<cleared, stopped, raced, killed>>
    BY <1>3 DEF receiverVars
  <2>3. mpc # "stop"
    BY <1>2, <2>1, Whole DEF PlacesOK
  <2>4. MainTypes'
    BY <2>2, Whole, Zenon DEF MainTypes
  <2>5. Silent' /\ Overtaken'
    <3>1. \A k \in {0, 1, 2} : Stopping(k)' <=> Stopping(k)
      BY ONLY <2>2, <2>3, Zenon DEF Stopping
    <3> QED BY <2>2, <3>1, Whole DEF Silent, Overtaken, receiverVars
  <2>6. PlacesOK'
    BY <2>1, <2>2, Whole DEF PlacesOK, receiverVars
  <2>7. ReceiverTypes' /\ Remembered' /\ Copied'
    BY <2>1, <2>2, Whole, Framed, Zenon DEF receiverVars, CopiedVars
  <2> QED BY <1>1, <1>2, <2>4, <2>5, <2>6, <2>7, Whole, PTL
<1>4. CASE t = "receiver"
  <2>1. /\ rpc' = "loop" /\ call'["receiver"].pc = "idle"
        /\ call'["main"] = call["main"]
        /\ UNCHANGED <<conn, peer, given, open, next, session>>
        /\ UNCHANGED <<mpc, cleared, stopped, raced, killed>>
    BY <1>1, <1>2, <1>4 DEF Threads
  <2>2. rpc = "callback" /\ conn >= 1
    BY <1>2, <1>4, Whole DEF PlacesOK
  <2>3. ReceiverTypes' /\ MainTypes'
    BY <2>1, Whole, Zenon DEF ReceiverTypes, MainTypes
  <2>4. PlacesOK'
    BY <2>1, <2>2, Whole DEF PlacesOK
  <2>5. Silent' /\ Overtaken'
    BY <2>1, <2>2, Whole, SilentKept DEF InSession, mainVars
  <2>6. Remembered' /\ Copied'
    BY <2>1, <2>2, Whole, RememberedKept, NothingCopied DEF InSession
  <2> QED BY <1>1, <1>2, <2>3, <2>4, <2>5, <2>6, Whole, PTL
<1> QED BY <1>3, <1>4

-----------------------------------------------------------------------------
(* Steps of stop()                                                         *)

LEMMA StopSocketStep ==
  ASSUME SessionInv, StopSocket
  PROVE  SessionInv'
<1> USE DEF StopSocket
<1>1. MainTypes'
  <2>1. 0 \in 0 .. 3 /\ stopped' \in BOOLEAN
    OBVIOUS
  <2> QED BY <2>1, Whole, Zenon DEF MainTypes
<1>2. CallTypes' /\ (session \in Strings)'
  BY Whole, Framed, Zenon
<1>3. open' \in BOOLEAN /\ (open' => open)
  BY Whole DEF ReceiverTypes
<1>4. ReceiverTypes'
  BY <1>3, Whole, Zenon DEF ReceiverTypes
<1>5. PlacesOK'
  <2>1. rpc \in {"init", "port", "callback"} /\ open => open'
    <3>1. open' <=> open /\ rpc \notin {"connected", "addressed"}
      OBVIOUS
    <3> QED BY <3>1
  <2>2. rpc = "connecting" => ~stopped'
    OBVIOUS
  <2>3. call["main"].pc = "idle"
    BY Whole DEF PlacesOK
  <2> QED BY <2>1, <2>2, <2>3, Whole DEF PlacesOK
<1>6. Silent' /\ Overtaken'
  <2>1. ~Stopping(1)' /\ ~Stopping(2)'
    BY DEF Stopping
  <2>2. rpc' = "connected" => ~open'
    OBVIOUS
  <2> QED BY <2>1, <2>2 DEF Silent, Overtaken
<1>7. Remembered'
  <2>1. /\ UNCHANGED <<rpc, conn, peer, given, raced, next, session>>
        /\ PortsHeld' = PortsHeld /\ Looked' = Looked
        /\ \A n, path : PathOf(n, path)' <=> PathOf(n, path)
    BY Compared DEF Looked
  <2> QED BY <1>3, <2>1, Whole DEF Remembered
<1>8. Copied'
  BY Whole, Framed, Zenon DEF CopiedVars
<1> QED BY <1>1, <1>2, <1>4, <1>5, <1>6, <1>7, <1>8, Whole, PTL

LEMMA StopClearsStep ==
  ASSUME SessionInv, StopClears
  PROVE  SessionInv'
<1> USE DEF StopClears, Assign
<1>1. cleared \in 0 .. 2 /\ cleared' = cleared + 1 /\ Len(StopOrder) = 3
  BY Whole DEF MainTypes, StopOrder
<1>2. MainTypes'
  <2>1. cleared' \in 0 .. 3
    BY <1>1
  <2> QED BY <2>1, Whole, Zenon DEF MainTypes
<1>3. session \in Strings
  BY Whole
<1>4. \/ /\ cleared = 0 /\ session' = [session EXCEPT !.address = Empty]
      \/ /\ cleared = 1 /\ session' = [session EXCEPT !.id = Empty]
      \/ /\ cleared = 2 /\ session' = [session EXCEPT !.port = Empty]
  <2>1. StopOrder[1] = "address" /\ StopOrder[2] = "id"
        /\ StopOrder[3] = "port"
    BY DEF StopOrder
  <2>2. session' = [session EXCEPT ![StopOrder[cleared + 1]] = Empty]
    OBVIOUS
  <2>3. CASE cleared = 0
    <3>1. cleared + 1 = 1
      BY <2>3
    <3>2. session' = [session EXCEPT !["address"] = Empty]
      BY <2>1, <2>2, <3>1, Zenon
    <3> QED BY ONLY <2>3, <3>2
  <2>4. CASE cleared = 1
    <3>1. cleared + 1 = 2
      BY <2>4
    <3>2. session' = [session EXCEPT !["id"] = Empty]
      BY <2>1, <2>2, <3>1, Zenon
    <3> QED BY ONLY <2>4, <3>2
  <2>5. CASE cleared = 2
    <3>1. cleared + 1 = 3
      BY <2>5
    <3>2. session' = [session EXCEPT !["port"] = Empty]
      BY <2>1, <2>2, <3>1, Zenon
    <3> QED BY ONLY <2>5, <3>2
  <2> QED BY <1>1, <2>3, <2>4, <2>5
<1>5. (session \in Strings)'
  BY <1>3, <1>4 DEF Strings
<1>6. /\ session'.address \in {Empty, session.address}
      /\ session'.id \in {Empty, session.id}
      /\ session'.port \in {Empty, session.port}
      /\ session'.path = session.path
  BY <1>3, <1>4 DEF Strings
<1>7. /\ cleared = 0 => session'.address = Empty
      /\ cleared = 1 => session'.id = Empty
      /\ cleared = 2 => session'.address = session.address
                        /\ session'.port = Empty
      /\ cleared # 2 => session'.port = session.port
  BY <1>3, <1>4 DEF Strings
<1>8. ReceiverTypes' /\ PlacesOK' /\ CallTypes'
  BY Whole, Framed, Zenon DEF PlacesVars, receiverVars
<1>9. Silent'
  <2>1. /\ Stopping(1)' => Stopping(1) \/ cleared = 0
        /\ Stopping(2)' => Stopping(2) \/ cleared = 1
        /\ Stopping(0)' => Stopping(0)
    BY <1>1 DEF Stopping
  <2>2. Stopping(2)' /\ cleared = 1 => Stopping(1)
    BY <1>1 DEF Stopping
  <2>3. Stopping(1)' => Stopping(0)
    BY <1>1 DEF Stopping
  <2>4. UNCHANGED <<rpc, open>>
    BY DEF receiverVars
  <2>5. Stopping(2)' => Stopping(0)
    BY <1>1 DEF Stopping
  <2> QED BY <1>6, <1>7, <2>1, <2>2, <2>3, <2>4, <2>5, Whole DEF Silent
<1>10. Overtaken'
  <2>1. cleared = 0 \/ cleared >= 1
    BY <1>1
  <2>2. cleared >= 1 /\ rpc \in InSession
          => session.address = Empty \/ ~open \/ raced
    BY Whole DEF Overtaken
  <2> QED BY <1>6, <1>7, <2>1, <2>2 DEF Overtaken, receiverVars
<1>11. Remembered'
  <2>1. /\ UNCHANGED <<rpc, conn, peer, given, raced, open, next>>
        /\ PortsHeld' = PortsHeld /\ Looked' = Looked
        /\ \A n, path : PathOf(n, path)' <=> PathOf(n, path)
    BY Compared DEF Looked, receiverVars
  <2>2. cleared = 2 /\ rpc \in InSession
          => session.address = Empty \/ ~open \/ raced
    BY <1>1, Whole DEF Overtaken
  <2>3. raced => Empty \in PortsHeld
    BY DEF PortsHeld
  <2> QED BY <1>6, <1>7, <2>1, <2>2, <2>3, Whole DEF Remembered
<1>12. Copied'
  <2>1. /\ UNCHANGED <<conn, peer, call>> /\ Ports' = Ports
        /\ \A n, path : PathOf(n, path)' <=> PathOf(n, path)
    BY Compared DEF receiverVars
  <2> QED BY <1>6, <2>1, Whole DEF Copied
<1> QED BY <1>2, <1>5, <1>8, <1>9, <1>10, <1>11, <1>12, Whole, PTL

LEMMA StopReturnsStep ==
  ASSUME SessionInv, StopReturns
  PROVE  SessionInv'
<1> USE DEF StopReturns
<1>1. MainTypes'
  BY Whole, Zenon DEF MainTypes
<1>2. ReceiverTypes' /\ CallTypes' /\ (session \in Strings)'
      /\ Remembered' /\ Copied'
  BY Whole, Framed, Zenon DEF receiverVars, CopiedVars
<1>3. PlacesOK'
  BY Whole DEF PlacesOK, receiverVars
<1>4. Silent' /\ Overtaken'
  <2>1. \A k \in {0, 1, 2} : Stopping(k)' => Stopping(k)
    BY DEF Stopping, StopOrder
  <2> QED BY <2>1, Whole DEF Silent, Overtaken, receiverVars
<1> QED BY <1>1, <1>2, <1>3, <1>4, Whole, PTL

-----------------------------------------------------------------------------
(* The theorems                                                            *)

LEMMA StutterStep ==
  ASSUME SessionInv, UNCHANGED vars
  PROVE  SessionInv'
<1>1. UNCHANGED <<receiverVars, session, mainVars, call, killed>>
  BY Zenon DEF vars
<1>2. /\ ReceiverTypes' /\ MainTypes' /\ (session \in Strings)' /\ CallTypes'
      /\ PlacesOK' /\ Silent' /\ Overtaken' /\ Remembered' /\ Copied'
  BY <1>1, Whole, Framed, Zenon
  DEF SilentVars, PlacesVars, CopiedVars, receiverVars, mainVars
<1> QED BY <1>2, Whole, PTL

LEMMA StepInv == SessionInv /\ [Next]_vars => SessionInv'
<1> SUFFICES ASSUME SessionInv, Next PROVE SessionInv'
  BY StutterStep
<1>1. CASE Receiver
  <2>1. CASE \E d \in Devices : \E port \in {Empty, <<d>>} : Connected(d, port)
    BY <2>1, ConnectedStep
  <2>2. CASE StartCalled \/ ConnectFails
    BY <2>2, StartCalledStep, ConnectFailsStep
  <2>3. CASE RememberAddress \/ RememberPort \/ Return
    BY <2>3, RememberAddressStep, RememberPortStep, ReturnStep
  <2>4. CASE InitStreamId \/ InitPath \/ InitPort \/ InitDone
    BY <2>4, InitStreamIdStep, InitPathStep, InitPortStep, InitDoneStep
  <2> QED BY <1>1, <2>1, <2>2, <2>3, <2>4, AvailableStep DEF Receiver
<1>2. CASE Main
  BY <1>2, MainCallsStep, StopSocketStep, StopClearsStep, StopReturnsStep
  DEF Main
<1>3. CASE \E t \in Threads : Request(t)
  BY <1>3, CopyStep, RequestStep, FinishStep DEF Request
<1> QED BY <1>1, <1>2, <1>3 DEF Next

LEMMA Invariance == Spec => []SessionInv
BY InitInv, StepInv, PTL DEF Spec

(* The strings always are what their place in StreamClient can hold, and a *)
(* request that is being sent has all four of them: Controller throws      *)
(* before it sends with one missing.                                       *)
THEOREM TypeCorrect == Spec => []TypeOK
<1>1. SessionInv => TypeOK
  BY DEF SessionInv
<1> QED BY <1>1, Invariance, PTL

(* Whatever interfaces devices list, and wherever main is meanwhile in     *)
(* subscribe(), unsubscribe() or stop(): a request sent from the callback  *)
(* for "available" names the device, the stream and the last POST path of  *)
(* the session in force, and its control port too, unless a stop() that    *)
(* was called before the connection was made has cleared it.               *)
THEOREM CallbackNames == Spec => []CallbackNamesSession
<1>1. SessionInv => CallbackNamesSession
  <2> DEFINE copy == call["receiver"].copy
  <2> SUFFICES ASSUME SessionInv, call["receiver"].pc \in Asking
               PROVE  /\ copy.address = <<peer>> /\ copy.id = <<conn>>
                      /\ \/ copy.port = RightPort
                         \/ raced /\ copy.port \in OwnInterfaces
                      /\ \A i \in DOMAIN Interfaces[peer] :
                           LastPost(Len(Interfaces[peer]), i)
                             => copy.path = <<peer, i>>
    BY DEF CallbackNamesSession
  <2>1. \A f \in Fields : copy[f] # Empty
    BY Whole DEF CallTypes, Threads
  <2>2. copy.address # Empty /\ copy.id # Empty /\ copy.port # Empty
    BY <2>1 DEF Fields
  <2>3. /\ copy.address = <<peer>> /\ copy.id = <<conn>>
        /\ copy.port \in Ports
        /\ PathOf(Len(Interfaces[peer]), copy.path)
    BY <2>2, Whole DEF Copied
  <2>4. DOMAIN Interfaces[peer] = 1 .. Len(Interfaces[peer])
    BY Whole, InterfacesAssumption DEF ReceiverTypes
  <2> QED BY <2>3, <2>4 DEF PathOf, Ports
<1> QED BY <1>1, Invariance, PTL

(* When stop() and start() have both returned, no request can be sent,     *)
(* wherever in "init", in the callback or behind connect() the receiver    *)
(* was at each step of stop(): the order in which it closes the socket and *)
(* clears the strings suffices without any lock.  This is not said of a    *)
(* stop() that was called before the connection was made.                  *)
THEOREM Silenced == Spec => []StoppedIsSilent
<1>1. SessionInv => StoppedIsSilent
  BY Whole DEF Silent, Stopping, StoppedIsSilent
<1> QED BY <1>1, Invariance, PTL
=============================================================================
