------------------------------ MODULE Session ------------------------------
(***************************************************************************)
(* What StreamClient remembers of the session it is in, and the control    *)
(* requests built from it: address, stream id, control port and HTTP path  *)
(* are set by start() and by "init", cleared by stop(), and copied by      *)
(* subscribe() and unsubscribe() into a Controller, which sends an HTTP    *)
(* request over a socket of its own.                                       *)
(*                                                                         *)
(* Two threads use one StreamClient, and nothing guards the strings.  The  *)
(* receiver runs start() and subscribes from the callback for "available"  *)
(* (savestream, reconnect, multiclient); main subscribes, unsubscribes     *)
(* (startstop) or stops (reconnect; the signal handlers), at any time.     *)
(* Reading and assigning one string is a step.                             *)
(*                                                                         *)
(* A string is empty or tells where it comes from: <<d>> is the address of *)
(* device d or the control port provided for it, <<d, i>> port or path of  *)
(* its command interface i, <<c>> the id of the stream of connection c.    *)
(***************************************************************************)
EXTENDS Integers, Sequences

CONSTANTS
  Devices,     \* stream servers
  Interfaces,  \* command interfaces of each: is its httpMethod POST?
  MaxSessions  \* bound: connections made

ASSUME InterfacesAssumption ==
  /\ Interfaces \in [Devices -> Seq(BOOLEAN)]
  /\ MaxSessions \in Nat

VARIABLES
  rpc,             \* where the receiver is in start()
  conn,            \* number of the latest connection
  peer, given,     \* its device; the control port start() was called with
  open,            \* messages of it can still reach the receiver
  next,            \* interface of "init" to look at; 0 before "init"
  session,         \* m_address, m_streamId, m_controlPort, m_httpPath
  mpc, cleared,    \* where main is; how many strings stop() has cleared
  stopped, raced,  \* history of stop(), see StopSocket and RememberAddress
  call,            \* control request of each thread
  killed           \* a signal has ended the process

receiverVars == <<rpc, conn, peer, given, open, next>>
mainVars     == <<mpc, cleared, stopped, raced>>
vars == <<receiverVars, session, mainVars, call, killed>>

Threads == {"receiver", "main"}
Fields  == {"address", "id", "port", "path"}

Empty == <<>>

DeviceNames    == {<<d>> : d \in Devices}
StreamIds      == {<<c>> : c \in 1 .. MaxSessions}
InterfaceNames ==
  UNION {{<<d, i>> : i \in DOMAIN Interfaces[d]} : d \in Devices}

Strings ==
  [address : {Empty} \cup DeviceNames,
   id      : {Empty} \cup StreamIds,
   port    : {Empty} \cup DeviceNames \cup InterfaceNames,
   path    : {Empty} \cup InterfaceNames]

NoStrings == [address |-> Empty, id |-> Empty, port |-> Empty, path |-> Empty]

(* What HttpPost::execute returns: JSON without a member "error", with one, *)
(* or what is no JSON: nothing, the page of a web server, a part of either. *)
Bodies == {"json", "error", "other"}

NoCall == [pc |-> "idle", none |-> FALSE, done |-> FALSE, body |-> "other",
           copy |-> NoStrings]

Reading == Fields \cup {"check"}
Asking  == {"dial", "linked", "pending", "closed", "nofd", "await", "answered"}

Calls ==
  [pc : {"idle", "returned", "threw"} \cup Reading \cup Asking,
   none : BOOLEAN, done : BOOLEAN, body : Bodies, copy : Strings]

TypeOK ==
  /\ rpc \in {"idle", "connecting", "connected", "addressed", "loop", "init",
              "port", "callback"}
  /\ conn \in 0 .. MaxSessions /\ peer \in Devices
  /\ given \in {Empty, <<peer>>} /\ open \in BOOLEAN
  /\ next \in 0 .. Len(Interfaces[peer]) + 1
  /\ session \in Strings
  /\ mpc \in {"idle", "call", "stop"} /\ cleared \in 0 .. 3
  /\ stopped \in BOOLEAN /\ raced \in BOOLEAN /\ killed \in BOOLEAN
  /\ call \in [Threads -> Calls]
  /\ \A t \in Threads : call[t].pc \in Asking =>
       \A f \in Fields : call[t].copy[f] # Empty

Init ==
  /\ rpc = "idle" /\ conn = 0 /\ peer \in Devices /\ given = Empty
  /\ open = FALSE /\ next = 0
  /\ session = NoStrings
  /\ mpc = "idle" /\ cleared = 0 /\ stopped = FALSE /\ raced = FALSE
  /\ call = [t \in Threads |-> NoCall] /\ killed = FALSE

Assign(f, s) == session' = [session EXCEPT ![f] = s]

-----------------------------------------------------------------------------
(* start()                                                                 *)

StartCalled ==
  /\ rpc = "idle" /\ conn < MaxSessions
  /\ rpc' = "connecting" /\ stopped' = FALSE
  /\ UNCHANGED <<conn, peer, given, open, next, session, mpc, cleared, raced,
                 call, killed>>

ConnectFails ==
  /\ rpc = "connecting"
  /\ rpc' = "idle"
  /\ UNCHANGED <<conn, peer, given, open, next, session, mainVars, call, killed>>

(* Which device start() was called for makes a difference from here on.  A *)
(* stop() called before, however far it is, leaves the connection alone.   *)
Connected(d, port) ==
  /\ rpc = "connecting"
  /\ rpc' = "connected" /\ conn' = conn + 1 /\ peer' = d /\ given' = port
  /\ open' = TRUE /\ next' = 0
  /\ UNCHANGED <<session, mainVars, call, killed>>

(* raced: a stop() called before has still to clear what follows.          *)
RememberAddress ==
  /\ rpc = "connected"
  /\ rpc' = "addressed" /\ Assign("address", <<peer>>)
  /\ raced' = (mpc = "stop" /\ cleared > 0)
  /\ UNCHANGED <<conn, peer, given, open, next, mpc, cleared, stopped, call,
                 killed>>

RememberPort ==
  /\ rpc = "addressed"
  /\ rpc' = "loop" /\ Assign("port", given)
  /\ UNCHANGED <<conn, peer, given, open, next, mainVars, call, killed>>

(* The receive loop ends with the connection, whoever ended it. *)
Return ==
  /\ rpc = "loop"
  /\ rpc' = "idle" /\ open' = FALSE
  /\ UNCHANGED <<conn, peer, given, next, session, mainVars, call, killed>>

-----------------------------------------------------------------------------
(* "init", which the server sends first: the stream id, then interface by  *)
(* interface the path of the last POST one and, if the control port is not *)
(* yet set, the port of the first one.                                     *)

InitStreamId ==
  /\ rpc = "loop" /\ open /\ next = 0
  /\ rpc' = "init" /\ next' = 1 /\ Assign("id", <<conn>>)
  /\ UNCHANGED <<conn, peer, given, open, mainVars, call, killed>>

InitPath ==
  /\ rpc = "init" /\ next <= Len(Interfaces[peer])
  /\ rpc' = "port"
  /\ IF Interfaces[peer][next] THEN Assign("path", <<peer, next>>)
                               ELSE UNCHANGED session
  /\ UNCHANGED <<conn, peer, given, open, next, mainVars, call, killed>>

InitPort ==
  /\ rpc = "port"
  /\ rpc' = "init" /\ next' = next + 1
  /\ IF session.port = Empty THEN Assign("port", <<peer, next>>)
                             ELSE UNCHANGED session
  /\ UNCHANGED <<conn, peer, given, open, mainVars, call, killed>>

InitDone ==
  /\ rpc = "init" /\ next > Len(Interfaces[peer])
  /\ rpc' = "loop"
  /\ UNCHANGED <<conn, peer, given, open, next, session, mainVars, call, killed>>

-----------------------------------------------------------------------------
(* subscribe() and unsubscribe(), with no signals or with some             *)

Begin(t, none) ==
  call' = [call EXCEPT ![t] = [NoCall EXCEPT !.pc = "address", !.none = none]]

(* The callback for "available" subscribes what is listed. *)
Available ==
  /\ rpc = "loop" /\ open /\ next > Len(Interfaces[peer])
  /\ rpc' = "callback"
  /\ \E none \in BOOLEAN : Begin("receiver", none)
  /\ UNCHANGED <<conn, peer, given, open, next, session, mainVars, killed>>

MainCalls ==
  /\ mpc = "idle"
  /\ mpc' = "call"
  /\ \E none \in BOOLEAN : Begin("main", none)
  /\ UNCHANGED <<receiverVars, session, cleared, stopped, raced, killed>>

Goes(t, pc) == call' = [call EXCEPT ![t].pc = pc]

OnlyRequest == UNCHANGED <<receiverVars, session, mainVars>>

(* The constructors of Controller and HttpPost copy one string after the   *)
(* other; address.c_str() is made a temporary first.                       *)
Following ==
  [address |-> "id", id |-> "port", port |-> "path", path |-> "check"]

Copy(t, f) ==
  /\ call[t].pc = f
  /\ call' = [call EXCEPT ![t].copy[f] = session[f], ![t].pc = Following[f]]
  /\ OnlyRequest /\ UNCHANGED killed

(* Mutant of Missing: the stream id is not checked. *)
MissingButId(copy) == \E f \in Fields \ {"id"} : copy[f] = Empty

Missing(copy) == \E f \in Fields : copy[f] = Empty

(* A string that is missing throws; a request for no signals is not sent. *)
Check(t) ==
  /\ call[t].pc = "check"
  /\ Goes(t, IF Missing(call[t].copy) THEN "threw"
             ELSE IF call[t].none THEN "returned" ELSE "dial")
  /\ OnlyRequest /\ UNCHANGED killed

(* connect(), whose result is ignored: the connection stands, is not       *)
(* decided after 5 s, was refused or never tried, or there is no socket.   *)
Dial(t) ==
  /\ call[t].pc = "dial"
  /\ \E pc \in {"linked", "pending", "closed", "nofd"} : Goes(t, pc)
  /\ OnlyRequest /\ UNCHANGED killed

(* sendBlock(): on a connection that is not decided it waits until it is;  *)
(* send() on a socket that is not connected raises SIGPIPE.                *)
Send(t) ==
  /\ \/ /\ call[t].pc \in {"linked", "pending"}
        /\ \E pc \in {"await", "threw"} : Goes(t, pc)
        /\ UNCHANGED killed
     \/ /\ call[t].pc = "nofd"
        /\ Goes(t, "threw")
        /\ UNCHANGED killed
     \/ /\ call[t].pc = "closed"
        /\ killed' = TRUE
        /\ UNCHANGED call
  /\ OnlyRequest

(* What the device has to find in a request to carry it out.               *)
Accepts(copy) ==
  /\ copy.address = <<peer>> /\ copy.id = <<conn>>
  /\ \E i \in DOMAIN Interfaces[peer] :
       /\ Interfaces[peer][i] /\ copy.path = <<peer, i>>
       /\ copy.port \in {<<peer>>, <<peer, i>>}

(* Whether it has done so is not to be seen from what it answers, which    *)
(* comes with an HTTP status nobody looks at.                              *)
Serve(t) ==
  /\ call[t].pc = "await"
  /\ \E done \in {FALSE, Accepts(call[t].copy)}, body \in Bodies :
       call' = [call EXCEPT ![t].done = done, ![t].body = body,
                            ![t].pc = "answered"]
  /\ OnlyRequest /\ UNCHANGED killed

(* Mutant of Outcome: what is no JSON passes for an answer without error.  *)
SilenceIsConsent(body) == IF body = "error" THEN "threw" ELSE "returned"

(* Controller::execute: the answer is parsed and searched for "error".     *)
Outcome(body) == IF body = "json" THEN "returned" ELSE "threw"

(* An answer can be lost, exceed 1024 bytes or be followed by a reset.     *)
Answer(t) ==
  /\ \/ /\ call[t].pc = "answered"
        /\ \E body \in {call[t].body, "other"} : Goes(t, Outcome(body))
     \/ call[t].pc = "await" /\ Goes(t, Outcome("other"))
  /\ OnlyRequest /\ UNCHANGED killed

(* Back in the program, which catches what was thrown. *)
Finish(t) ==
  /\ call[t].pc \in {"returned", "threw"}
  /\ call' = [call EXCEPT ![t] = NoCall]
  /\ IF t = "receiver" THEN rpc' = "loop" /\ UNCHANGED mpc
                       ELSE mpc' = "idle" /\ UNCHANGED rpc
  /\ UNCHANGED <<conn, peer, given, open, next, session, cleared, stopped,
                 raced, killed>>

-----------------------------------------------------------------------------
(* stop()                                                                  *)

(* A connection that is only being made is not closed by this (stopped: it *)
(* need not be); what the receiver has already read it can still process.  *)
StopSocket ==
  /\ mpc = "idle"
  /\ mpc' = "stop" /\ cleared' = 0 /\ stopped' = (rpc # "connecting")
  /\ open' = (open /\ rpc \notin {"connected", "addressed"})
  /\ UNCHANGED <<rpc, conn, peer, given, next, session, raced, call, killed>>

(* Mutants of StopOrder: the address is cleared last; not at all. *)
AddressLast == <<"id", "port", "address">>
AddressKept == <<"id", "port">>

StopOrder == <<"address", "id", "port">>

StopClears ==
  /\ mpc = "stop" /\ cleared < Len(StopOrder)
  /\ cleared' = cleared + 1 /\ Assign(StopOrder[cleared + 1], Empty)
  /\ UNCHANGED <<receiverVars, mpc, stopped, raced, call, killed>>

StopReturns ==
  /\ mpc = "stop" /\ cleared = Len(StopOrder)
  /\ mpc' = "idle"
  /\ UNCHANGED <<receiverVars, session, cleared, stopped, raced, call, killed>>

-----------------------------------------------------------------------------
Receiver ==
  \/ StartCalled \/ ConnectFails
  \/ \E d \in Devices : \E port \in {Empty, <<d>>} : Connected(d, port)
  \/ RememberAddress \/ RememberPort \/ Return
  \/ InitStreamId \/ InitPath \/ InitPort \/ InitDone \/ Available

Request(t) ==
  \/ \E f \in Fields : Copy(t, f)
  \/ Check(t) \/ Dial(t) \/ Send(t) \/ Serve(t) \/ Answer(t) \/ Finish(t)

Main == MainCalls \/ StopSocket \/ StopClears \/ StopReturns

Next == ~killed /\ (Receiver \/ Main \/ \E t \in Threads : Request(t))

Spec == Init /\ [][Next]_vars

-----------------------------------------------------------------------------
(* Properties                                                              *)

(* A request that the callback sends goes to the device and names the      *)
(* stream of the connection the receiver is in, with the path of the last  *)
(* POST interface of its "init", though m_httpPath is never cleared.  The  *)
(* control port is the one provided for a device behind a router, else     *)
(* that of the first interface, though stop() clears it in the middle of   *)
(* that; unless a stop() called before the connection was made clears it,  *)
(* when it can become the port of any interface.                           *)
RightPort == IF given = Empty THEN <<peer, 1>> ELSE given

OwnInterfaces == {<<peer, i>> : i \in DOMAIN Interfaces[peer]}

LastPost(n, i) ==
  /\ i \in 1 .. n /\ Interfaces[peer][i]
  /\ \A j \in i + 1 .. n : ~Interfaces[peer][j]

CallbackNamesSession ==
  call["receiver"].pc \in Asking =>
    LET copy == call["receiver"].copy IN
      /\ copy.address = <<peer>> /\ copy.id = <<conn>>
      /\ copy.port = RightPort \/ (raced /\ copy.port \in OwnInterfaces)
      /\ \A i \in DOMAIN Interfaces[peer] :
           LastPost(Len(Interfaces[peer]), i) => copy.path = <<peer, i>>

(* When stop() and start() have returned, no request can be sent, although *)
(* an "init" that was processed meanwhile sets stream id and control port  *)
(* again, or start() had not yet stored the address.  Left out is a stop() *)
(* called before the connection was made, which closes and clears for      *)
(* nothing when it is made all the same.                                   *)
StoppedIsSilent ==
  stopped /\ mpc # "stop" /\ rpc = "idle"
    => session.address = Empty \/ session.id = Empty

(* httppost.h on execute(): "the response or an empty string on error";    *)
(* streamclient.h on subscribe: "\throws std::runtime_error": a control    *)
(* port nobody listens on does not end the process.                        *)
FailureThrows == ~killed
=============================================================================
