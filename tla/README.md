# Verification of the HBM streaming client (cppstream)

This directory holds TLA+ models of the C++ library in `lib/` and `include/`
and of the example programs in `src/`, TLC configurations that check them, and
proofs that TLAPS checks. Paths below are relative to the repository's root.

## 1. The system

`StreamClient::start()` runs in one thread: it connects a TCP socket to a data
acquisition server and then takes one transport message after the other from
it: measured data of a signal, or JSON meta information of the stream or of a
signal. A `SignalContainer` keeps a `SubscribedSignal` per signal number and
hands values to callbacks. Signals are subscribed by an HTTP request over a
second connection, from a callback or from another thread. `stop()` is called
by another thread or by a signal handler. There is not a single lock in the
library.

| Component | State | Operations | Talks to |
|---|---|---|---|
| Stream socket, `lib/linux/socketnonblocking.cpp`, `bufferedreader.cpp` | `m_fd`; `m_buffer`, `m_fillLevel`, `m_alreadyRead` | `connect`, `receiveComplete`, `sendBlock`, `stop` | kernel (non-blocking calls and `poll`), receive loop, `HttpPost` |
| Receive loop, `StreamClient::start`, `TransportHeader`, `MetaInformation` | local buffer of 8192 bytes, `bytesToProcess`, `bytesInBuffer` | header, data loop, meta information | socket (calls), container (calls) |
| Subscribed signals, `SignalContainer`, `SubscribedSignal` | map number → signal; pattern, type, sizes, time | `processMeasuredData`, `processMetaInformation`, `clear` | callbacks of the program |
| Time of a signal, `deltaTimeInfo`, `timeInfo` | era, NTP stamp, delta, sub fractions | `increment`, `setTime`, `setDelta`, `clear` | `SubscribedSignal` |
| Session and control, `StreamClient`, `Controller`, `HttpPost` | address, stream id, control port, HTTP path | `start`, "init", `subscribe`, `unsubscribe`, `stop` | server's control port |
| `reconnect` | thread, one `StreamClient` used again and again | start, sleep, stop, join | `StreamClient` |
| `savestream`, `ramp`, `startstop`, `multiclient`, `exampleclient`, `hbmstream_rawclient` | files per signal; last value of a ramp; set of available signals under a mutex; list of clients; none | callbacks | `StreamClient` |
| Stream socket on Windows, `lib/windows/` | the same | the same, with WinSock and `select` | kernel |

What is hard here, and what makes each component right:

- **Socket.** Short reads, bytes read ahead, end of stream, a silent peer, a
  `stop()` between any two system calls, an object that is connected again.
  Right means: the caller gets the bytes of the connection in force, in order,
  none twice, none of an earlier connection and nothing after a read that came
  back short; a lost peer and a `stop()` end `start()`; no socket is leaked.
- **Receive loop and signals.** Messages longer than the buffer, chunks that
  end inside a value, data before, without or after meta information, a
  container that outlives the session. Right means: the loop stays in step with
  the messages whatever the payload, every value reaches the callback once, in
  order, from its own bytes, with its own stamp, in the format of this session.
- **Time.** Divisions that truncate, carries between words, batches of any
  size. Right means: no drift.
- **Session and control.** Strings shared by two threads, a `connect()` that
  succeeds and an "init" processed while or after `stop()` runs, lost answers.
  Right means: a request goes to the session its sender is in, one that fails
  throws, nothing is sent after `stop()`, and what a program subscribes it
  unsubscribes.

## 2. Modules

| Module | Models | Uses |
|---|---|---|
| `ByteChannel` | what the socket promises to its reader (abstract) | |
| `StreamSocket` | Linux socket and `BufferedReader`, system call by system call | refines `ByteChannel` |
| `WindowsSocket` | the socket of the Windows build | a second implementation of `ByteChannel` on the state of `StreamSocket` |
| `Reconnect` | `src/reconnect.cpp` | composed with `StreamSocket` |
| `ReceiveLoop` | `start()`, header, meta information, container, `processMeasuredData`, a message at a time | the socket by its promise |
| `StreamReader` | the same, call by call of `receiveComplete` | composition of `ReceiveLoop` and `ByteChannel`; refines `ReceiveLoop` |
| `SaveStream` | `src/savestream.cpp` and which meta information reaches it | the container |
| `DeltaTime` | `deltaTimeInfo`, `timeInfo` | |
| `Ramp` | `dataCb` of `src/ramp.cpp` | composed with `DeltaTime` |
| `Session` | session strings, `Controller`, `HttpPost`, `sendBlock`, `stop()` | |
| `StartStop` | `src/startstop.cpp` and a device whose signals come and go | composed with `Session` |
| `StreamSocketProofs`, `WindowsSocketProofs`, `ReconnectProofs`, `ReceiveLoopProofs`, `StreamReaderProofs`, `RampProofs`, `SessionProofs`, `StartStopProofs` | theorems | each extends the module it is named after and the proofs that one builds on; `RampProofs` holds the ones about `DeltaTime`, too |
| `MCReceiveLoop`, `MCStreamReader`, `MCDeltaTime`, `MCRamp`, `MCSession`, `MCStartStop` | instances for TLC | |

`Reconnect`, `Ramp` and `StartStop` are compositions: the module of a program
EXTENDS the one of the component, conjoins its own actions with the component's
and leaves the rest of the component's steps as they are. So a program's module
contains every behaviour of the component that the program can cause, and the
component's theorems carry over (section 5). `StreamReader` joins two
components: `StreamSocket` and `WindowsSocket` implement `ByteChannel`, and
`StreamReader`, which reads from a `ByteChannel`, implements `ReceiveLoop`. So
what holds of `ReceiveLoop` holds of the code from the system call to the
callback. What they agree on is the contract of `receiveComplete`: it returns
when all that was wanted is there, or the connection is over.

Definitions marked "Mutant of D" in the modules are no part of the model: each
is D with a plausible bug, and shows that the property named with it in
`PROJECT.json` would notice.

### StreamSocket

Two threads share one `SocketNonblocking`. `rpc` is the receiver's place in
`connect()` (`init`, `resolve`, `dial`, `dialing`) or `receiveComplete()`
(`ready`: between two calls, `recv`: about to call `BufferedReader::recv`,
`wait`: `EAGAIN` seen, `polling`); `spc` is the other thread's place between
`shutdown`, `close` and `m_fd = -1`. Every system call is an action, so that
`stop()` falls between any two of them. `m_buffer`, `m_fillLevel` and
`m_alreadyRead` are the reader's. `block` is what the call in progress has
stored, `handed` counts what all calls of this connection have. The kernel is
what the calls show of it: is the descriptor open, shut down, what has
arrived, what became of the peer. `close()` does not wake a `poll()` that
sleeps, `shutdown()` does; `poll()` ignores a negative descriptor. Descriptor
numbers are not reused, so that a reader that uses an old number finds it
closed; with reuse by another thread it would read from a stranger's file.

A byte is `<<c, k>>`, the k-th byte of connection c. `InOrder`, `NothingLost`
and the refinement of `ByteChannel` compare these identities, so that a byte
of an earlier connection, a gap or a repetition shows.

### WindowsSocket

The same class over WinSock. State, `BufferedReader`, kernel and peer are
those of `StreamSocket`; what differs is what waits. `connect()` waits in
`select()` and reads the outcome with a `getsockopt()` whose own result it
ignores, so that after a `stop()` in between it takes an uninitialized value
for the outcome and may succeed (`SelectConnects`). `receiveComplete()` puts
the handle into the set for `select()` when it is called, not when it is about
to wait (`WinReceive` sets `pfd`), reports an orderly end as -1, and discards
what has arrived once the socket is shut down (`WSARecvEnds`).
`SelectCancelled` is the way out of the loop around `select()`. `build` says
which platform the library was built for; `BuildsSpec` is either.

### Reconnect

`main` of `reconnect.cpp` takes the place of the stopping thread: `Spawn`
(thread and `start()`), `WakeUp` and `FinishStop` (`stop()`), `Join`. How long
it sleeps is left open.

### ReceiveLoop

`pc` is where `start()` is: at a `header`, in the `data` loop before
`receiveComplete`, in `process` after it, in `meta`, or `stopped`. `buf` is the
first `bytesInBuffer` bytes of `dataRecvBuffer`; a byte is its offset in the
payload, so that the callbacks' values name the bytes they were made of.
`known`, `format` and `clock` are the container: which numbers are in the map,
the format and the synchronous time of each. `srv` and `sent` are what the
server has announced and sent, which the client must agree with. A chunk that
is shorter than asked for means that the connection has ended, as `ByteChannel`
promises. A signal number that the container does not know gives -1, which as
`size_t` makes both counters grow by one and moves the buffer's content up by
a byte (`ProcessUnknown`); when the buffer is full that leads out of it
(`Overrun`), and the model ends there. `Inform` is what a
piece of meta information may change, in the container and in what the server
has announced; of one that is torn by the end of the connection, what the
parser got counts, since nothing looks at its result (`TornMeta`).

### StreamReader

`step` is the call of `receiveComplete` in progress: for the four bytes of a
`header`, for the four of a `size` that does not fit into it, for a `chunk` of
data, for the `type` and the `content` of meta information. `AskX` makes the
call, `Hand` and `GiveUp` are the channel's, `TakeX` and the like what `start()`
does with the result. `Full` is a call that got all it wanted, `Short` one that
returned less or -1; a call may return -1 although it has stored something
(`TakeNothing`). `TransportHeader::receive` looks at the result, the data loop
takes what is there, `MetaInformation` does not look: after a short `type` it
asks for the `content` (`AskContent`). A byte's identity is its place in the
stream, and `payload` remembers where the payload of the message begins, so that
a byte of another message, or one stored at the wrong place, would show as
another offset than the one `ReceiveLoop` expects. Where a payload ends is not
given to the loop: `unread` is computed from what the channel has handed out.

### SaveStream

`streamed` is the server's side, `m_subscribedsignals` the container's,
`signalFiles` the program's: all three by signal number. `lines` are the data
files, which are named after the signal reference instead. "unsubscribe" ends
in the container, "subscribe" opens the files of a new entry before `insert()`
decides whether the entry is kept. `note` remembers the line number written in
front of the meta information written last, and the number it should be.

### DeltaTime

Words have `W` values; the code's `uint64_t` counts modulo `W * W`. `start`,
`exact`, `wraps`, `rate` and `n` are histories.

### Ramp

`entry` and `stamp` are the signal's entry in `m_lastRampValues`, `thrown` is
what has ended the process. A block comes with one `Increment` of `DeltaTime`
and is stamped by it. `broken` says that the next value does not continue the
ramp: values are doubles, of which only this matters. `since` remembers where
the time was when the entry was made.

### Session

`session` holds the four strings, each empty or marked with the device,
interface or connection it comes from; a step assigns or copies one of them.
The receiver goes through `start()`: it is called (`StartCalled`), `connect()`
fails or succeeds at any later time (`ConnectFails`, `Connected`), whatever
`stop()` does meanwhile, address and control port are stored one after the
other, and "init" takes two steps per interface, one for the path and one for
the port. `main` subscribes, unsubscribes or stops. What `stop()` does to the
socket is one step here, `StopSocket` (its three are in `StreamSocket`); it
leaves a connection alone that is only being made. `call[t]` is the request of
thread t: the strings are copied one by one as the constructors do, then follow
`connect()`, `send()` and the answer, each with every outcome. Connecting or
sending to a port that has refused is followed by `SIGPIPE`, as Linux does for a
socket that is not connected.

The verdict on a request is the code's (`Outcome`): the body of what has
arrived is JSON without a member "error", or the call throws. A body is one of
three (`Bodies`); the HTTP status is not looked at, and an answer that has been
cut off is no JSON. JSON that is no object makes the parser throw another
exception, which is a call that threw likewise. What the server has done with
the request, `done`, is independent of what it answers.

`stopped` and `raced` are histories: `stop()` was called when no connection was
being made, and a `stop()` called before the connection was made was still
clearing when the address was stored.

### StartStop

`main` copies the set under the mutex (`CopyReferences`), calls `subscribe()`
with the copy, then `unsubscribe()`, and begins again; the calls are the ones
of `Session`, whose `Serve` also changes what the server streams. `ignored`
remembers the signals that the server was asked to end and did not, although it
gave no error, which no client can notice. The
receiver's thread works off announcements of "available" and "unavailable",
one signal at a time, since the callback takes the mutex for each. The device
lets signals appear and vanish at any time. An exception that leaves `main`
ends the process (`aborted`). `program` tells this program from the ones that
subscribe from the callback, which take the steps of `Session` unchanged.

## 3. Runs

| Run | Instance | Shows |
|---|---|---|
| `StreamSocket` | either build, buffer of 2 bytes, requests up to 2, 2 connections of up to 4 bytes, `stop()` at any time | `TypeOK`, `InOrder`, `NothingLost`, `ImplementsChannel` |
| `Reconnect` | the Linux build with 2 bytes per connection | `MainTypeOK`, `CycleCompletes`, `LossRecognized` |
| `ReceiveLoop` | `StreamReader`: buffer of 6 bytes, 2 values per call, 2 signals, patterns V, TV, TB, 2 sessions of up to 26 bytes | `ReaderTypeOK`, `Framed`, `InBounds`, `FormatCurrent`, `DeliveredInOrder`, `AllDelivered`, `RawMatches`, `ClockInStep`, `HeaderFollows`, `MessageEnds`, `ReadsMessages` |
| `DeltaTime` | one signal checked by `ramp`, words of 8 values, up to 3 values per batch | `RampTypeOK`, `NoDrift`, `AlarmIsDue` |
| `Session` | either kind of program, 2 devices, one with a second interface behind the one for POST, one with another one in front of it, 2 sessions, 2 signals, 2 announcements under way | `ControlTypeOK`, `CallbackNamesSession`, `StoppedIsSilent`, `CycleEndsSubscriptions`, `SetFollowsDevice` |
| `StreamSocketStop` | Linux build, 1 connection | violation of `StopEndsReceive` |
| `ReconnectLeaks` | as `Reconnect` | violation of `StoppedIsClosed` |
| `ReceiveLoopLong` | `ReceiveLoop`, pattern V, messages with more values than one call takes | violation of `AllDelivered` |
| `ReceiveLoopRaw` | `ReceiveLoop`, 1 signal | violation of `RawBlockIsValues` |
| `SaveStream` | 2 numbers, 2 references, files of up to 3 lines | violation of `NextLine` |
| `DeltaTimeRate` | as `DeltaTime`, without the program | violation of `RateKept` |
| `SessionPipe` | callback programs only | violation of `FailureThrows` |

Why the bounds are enough:

- *StreamSocket*: a buffer of 2 and requests of 0 to 2 bytes give every
  relation of request, buffer and what has arrived (less, equal, more, with
  surplus that fills the buffer, with surplus consumed in two calls); two
  connections let the second one meet what the first left behind. The proofs
  remove all four bounds.
- *ReceiveLoop*: 6 bytes and tuples of 4 make a rest of 2 bytes in a full
  buffer, messages of 12 take three chunks, 5 and 3 bytes end inside a tuple,
  data of unknown signals are one byte shorter than the buffer and as long,
  meta information has one byte behind its type. 26 bytes of stream are a format
  (9), a time (9) and 4 bytes of data of pattern V (8), or a format and a message
  of 12 (16); headers with the size behind them take four bytes more, and the
  connection may end at every byte. One byte at a time (`MaxAhead`) cuts the
  stream everywhere; that bytes arrive in bulk adds nothing to what a call
  returns. `MaxSent` bounds the clock only. The proofs remove these bounds, the
  ones on what may be cut included. Data sizes of the passing run stay within
  what one call takes for V and TB; beyond it the code drops values of V, which
  is `ReceiveLoopLong`, and begins a TB block anew (section 4). The second
  signal shows that one signal's meta information does not touch the other's,
  the second session what the container keeps.
- *DeltaTime*: stamps 0, 13 and 62 of 64 and deltas with a remainder overflow
  each word within four values; four blocks are enough for a first, a later
  and an overflowing one.
- *Session*: the second device and session show what is left of the first; the
  devices' interfaces come in either order. Requests and calls of `stop()` are
  not bounded. Two signals let an announcement be heard by half;
  with two announcements under way one can take back what the other gave.
- *SaveStream*: one number suffices for the finding; the second reference
  shows an entry that goes on writing into the file of another signal.

`CHECK_DEADLOCK FALSE` is used where the system may stop: when the bound on
connections or sessions is reached and `start()` has returned, and when the
process has ended, killed by a signal (`Session`) or by an exception (`Session`,
`DeltaTime`), in `ReceiveLoop` at an `Overrun`, or in `SaveStream` at the bound
on lines. `DeltaTimeRate` has no
program that ends, so deadlock is checked there.

### Fairness

`FairSpec` of `StreamSocket` and `FairMainSpec` of `Reconnect` assume that the
receiving thread is scheduled (weak fairness of its steps, which include the
reads it is due), that `stop()` returns once called, that `Join` happens, and
that the keep-alive probes configured in `init()` run out (12 s, then 2 probes
of 3 s). Strong fairness of `Leave` says that `start()`, which calls
`receiveComplete` for the parts of a message, comes to a header read again and
again and leaves when it fails; a data loop that could prevent that is excluded
by `MessageEnds`. The peer, the interrupting signal, the call of `stop()` and
the end of `main`'s sleep are owed nothing. `FairReaderSpec` of
`StreamReader` assumes that the thread runs between two calls (`ReadData`,
`ReadMeta`, `Work`) and that a call under way is answered in the end (`Serve`):
a peer completes a message it has begun, or its loss is recognized, which is
`LossRecognized` of `Reconnect`. The wait for a header is owed nothing.

## 4. Where the code departs from what it says

Shown by a run:

- `StreamSocketStop`: a `stop()` that shuts down and closes the connection in
  force between the `readv()` that fails with `EAGAIN` and `pfd.fd = m_fd` sets
  the descriptor to -1; `poll()` ignores it and has no timeout, `start()` never
  returns. `CycleCompletes` shows the case that works: the receiver already
  sleeps in `poll()`.
- `ReconnectLeaks`: `init()` overwrites `m_fd`, a failed `connect()` closes
  nothing, and `start()` that returns after a loss leaves the socket open. The
  trace begins with a `stop()` before `init()`, which closes nothing.
- `ReceiveLoopLong`: more than 128 values of pattern V in the buffer: the rest
  is dropped, because a read of 0 bytes ends the data loop.
- `ReceiveLoopRaw`: with TB the raw block begins with the time stamp
  (`timeStamp += m_dataTimeSize` in place of `data`).
- `SaveStream`: the container keeps "unsubscribe" to itself, so that the entry
  of a signal survives it. A new subscription truncates the files, `insert()`
  keeps the old entry, and meta information is preceded by the line number of a
  file that exists no more; if the number now belongs to another signal, data
  go into the wrong file.
- `DeltaTimeRate`: the remainder is taken of the quotient.
- `SessionPipe`: `HttpPost::execute` ignores that `connect()` failed; `send()`
  then raises `SIGPIPE`, `subscribe()` does not throw, the process ends.

Seen while modelling, contained in the models, and not the subject of a run:

- An unknown signal's -1 in a `size_t` makes both counters of the data loop
  grow by one. That does no harm as long as the message is shorter than the
  buffer; with one as long or longer the loop writes behind the buffer and the
  next size to read wraps around (`Overrun`). `InBounds` says that this is the
  only way out of the buffer, `StraySizes` of the run contains it.
- A `stop()` that is called before `init()` has made the socket, or while
  `connect()` is under way, may be lost: the connection is made all the same,
  `start()` stores address and port behind `stop()`, requests can be sent and
  `main` of `reconnect` waits in `join()`. If such a `stop()` is still clearing
  when the connection has been made, it can also remove the control port that
  was provided, and "init" puts one in of its own. `StoppedIsSilent` excludes
  such a `stop()`, `CallbackNamesSession` admits the port.
- The control port is the first command interface's, the path the last POST
  one's (`lib/streamclient.cpp:162-170`): for a device that lists another
  interface first they do not belong together. `CallbackNamesSession` says what
  the code does, `Accepts` that such a request is not carried out.
- A TB block with more values than one call takes is continued as if a new block
  began, values being taken for its time stamp.
- `include/streamclient/deltatimeinfo.h:35` says of `increment` that it will
  "increase era, seconds, fraction and sub fraction"; `timeInfo::add`
  (`lib/timeinfo.cpp:92`) leaves the era, so that it does not count the overflow
  of the seconds in 2036. `NoDrift` counts the overflows itself (`wraps`) and so
  does not fail for it.
- Windows: the loop around `select()` is left on `WSAEINTR` only and repeated
  on any other error, so that it turns for ever on a handle that was closed
  before `select()` was called. `sendBlock` returns 0 for success, which
  `HttpPost` takes for a failure: `subscribe()` throws although it was sent.
- `ramp` never updates the time stamp of an entry: a step back in time that
  stays after the first block is not noticed, and the overflow of the NTP
  seconds in 2036 is taken for one. Its entry, too, outlives "unsubscribe".
- `startstop` catches nothing: the exception of a request that fails ends the
  process with the signals subscribed.
- The answer to a control request is awaited without a timeout on a socket
  that `stop()` does not know.
- With pattern V the callback gets the time after the increment for the block
  (`lib/subscribedsignal.cpp:156`); `subscribedsignal.h:62` calls the stamp the
  one of the first value.
- `src/multiclient.cpp:124` names the arguments in the order stream port, http
  port; the code takes the control port first.

## 5. Proofs

| Theorem | States, for all values of the constants |
|---|---|
| `TypeCorrect`, `StoresInOrder`, `LosesNothing` | `Spec => []TypeOK`, `[]InOrder`, `[]NothingLost` of `StreamSocket` |
| `Refinement` | `Spec => ImplementsChannel`: initial states map to initial states, every step to a step of `ByteChannel` or a stutter |
| `BuildsInOrder`, `BuildsLoseNothing`, `BuildsRefine` | the same of `BuildsSpec`, the socket of either build |
| `MainTypeCorrect`, `ProgramRefines` | `[]MainTypeOK` and `ImplementsChannel` of `MainSpec` in `Reconnect` |
| `StaysFramed`, `StaysInBounds`, `FormatIsCurrent`, `LoopTypeCorrect` | `[]Framed`, `[]InBounds`, `[]FormatCurrent`, `[]TypeOK` of `ReceiveLoop` |
| `ClockKeepsStep` | `[]ClockInStep`, if no message of pattern V holds more values than one call takes (`ValuesFit`) |
| `DeliversInOrder` | `[]DeliveredInOrder`, if blocks of pattern TB fit into the buffer (`BlocksFit`) |
| `DeliversAll` | `[]AllDelivered`, if moreover no block holds more values than one call takes (`BlockValuesFit`) |
| `RawIsValues` | `[]RawMatches`, if a message holds no more values than one call takes and values of pattern V are sent whole and fill the buffer (`ValuesFit`, `ValuesWhole`) |
| `CallsReadMessages` | `ReaderSpec => ReadsMessages`: `start()` call by call over `ByteChannel` implements `ReceiveLoop` |
| `HeadersFollow`, `ReaderTypeCorrect` | `[]HeaderFollows`, `[]ReaderTypeOK` of `StreamReader` |
| `CallsStayFramed`, `CallsDeliver` | what the theorems about `ReceiveLoop` state, of `StreamReader`, under the same hypotheses |
| `KeepsWidth`, `NeverDrifts` | `[]TypeOK`, `[]NoDrift` of `DeltaTime` |
| `RampTypeCorrect`, `RampNeverDrifts`, `AlarmsAreDue` | `[]RampTypeOK`, `[]NoDrift`, `[]AlarmIsDue` of `RampSpec` |
| `TypeCorrect`, `CallbackNames`, `Silenced` | `[]TypeOK`, `[]CallbackNamesSession`, `[]StoppedIsSilent` of `Session` |
| `ProgramsKeepSession` | `ControlSpec => Spec`: either program uses `StreamClient` as `Session` says, so that the theorems about it are about both |
| `ControlTypeCorrect`, `CyclesEnd`, `SetIsCurrent` | `[]ControlTypeOK`, `[]CycleEndsSubscriptions`, `[]SetFollowsDevice` of `ControlSpec` |

**StreamSocket** (assumption `SizesAssumption`: the sizes are naturals, the
buffer is not empty). `InOrder` is not inductive: what `RecvFromBuffer` stores
comes from `m_buffer`, so the invariant `IInv` also says that the unread part
of the buffer holds the bytes that follow the ones handed out, that bytes taken
are bytes handed plus bytes unread (`BufferIsNext`, `NothingLost`), that a call
under way still wants bytes and one that has returned got them all unless the
connection is over (`CallWants`), and that after a read that came back
short the descriptor is unusable or the stream at its end (`EndIsFinal`). The
last part is what makes `ended` and `Hand` of `ByteChannel` exclude each other.
It rests on facts about the two threads: a reader whose socket has been closed
finds its descriptor unusable for good, because only `CreateSocket`, in the
reader's own thread, makes it usable. `OpenCounted` is there for the type of
`openSockets`.

**WindowsSocket**. The part of `IInv` that is about the buffer (`SocketInv`)
holds for both builds; about the end of a stream the builds differ. `WinInv`
says for Windows that a stream that has ended is shut down or at its end,
that whoever waits has emptied the buffer (`WaitsEmpty`: the end may then be
reported), and that the handle put into the set on entry is the one in force
or has been taken away by `stop()` (`HandleTaken`), although it is used as late
as in `select()`.

**Reconnect**. `main` adds no step to the socket that `StreamSocket` does not
allow (`MainSteps`); `Places` keeps `main` inside `stop()` exactly while the
socket is.

**ReceiveLoop** (`FormatsAssumption`: patterns are V, TV or TB with positive
value size, a tuple fits into the buffer, meta information holds more than its
type or nothing). Messages may have any size, data of unknown signals included.
`Framed` says that nothing is unread when the loop looks for a header, and the
loop leaves a message in several ways; `LoopInv` makes each of them harmless.
What is to be processed is what is buffered plus what is unread (`Counted`); a
chunk fills the buffer as far as wanted unless the connection ended (`Filled`);
a full buffer is never left full, because a tuple fits into it and at least one
is taken (`Room`): so a read of 0 bytes, which breaks off the message, happens
only when nothing is unread. `FormatsAgree` ties the container to what the
server has announced, `StrayFits` bounds the data of an unknown signal
that are to be processed by the message's size, and by one more once there is
nothing left to read, and `OverrunOnly` says that a full buffer is given to an unknown
signal only when its message is that long; `MetaWhole` says that meta information
is read as a whole. The arithmetic is isolated in the lemmas `Products`, `Quotients` and
`TakenFits`.

The types of what is delivered depend on `LoopInv` (values are cut out of the
buffer), so `TypeInv` carries both. On top of it, `ClockInv` relates a signal's
clock to what the server has sent plus what of the message in progress is still
to be counted (`ClockAgrees`), and needs that one call takes all whole values
(`OneCallTakesAll`), which is where `ValuesFit` enters; without it the dropped
values of `ReceiveLoopLong` are missing on the clock, too. `OrderInv` says which
byte of the payload stands where in the buffer (`Offsets`), and that the first
of them is the one behind the values delivered (`Position`). For V and TV this
holds even where values are dropped: they are then the last ones. A TB block
that takes several chunks is begun anew with each, so `DeliversInOrder` has
`BlocksFit` as a hypothesis, and V and TV have none. `AllInv` adds that less
than one value is left in the buffer whenever the loop is back at its head, and
that a block is either begun or done (`Consumed`). The hypotheses of
`DeliversAll` rule out what `ReceiveLoopLong` shows.

`RawIsValues` is about the bytes of a block. With V the raw callback gets all
that the buffer holds, with the bytes of a value cut off at its end included:
they agree with the values only if every chunk ends where a value ends, which
`WholeLeft` of `RawInv` says and which needs `ValuesWhole` (8192 is divided by
1, 2, 4 and 8, the sizes of every value type). With TV the stamps are left out,
byte by byte. Both come down to lemmas on quotients and remainders (`Division`,
`DivisionUnique`, `DivisionMoves`, `DivisionBelow`), with which `BytesJoin`
says that the bytes of two blocks, one after the other, are those of the joined
block.

**StreamReader** closes the gap between what the socket promises and what
`ReceiveLoop` takes for granted: that a chunk shorter than asked for means the
end, that meta information is read as a whole unless the connection ends inside,
and that the next message begins where this one ends. `ReaderInv` is needed
because a step of `ReceiveLoop` happens when a call has been answered, while the
bytes come one after the other before. It says that a call is made only at its
place in `start()` (`StepFits`), that it has no more bytes than it wants
(`CallFits`), that the last one has been answered before the next (`Settled`)
and that the bytes are the ones last handed out (`BytesFollow`), and
where in the stream the loop is during each call (`InStream`). The end is the
difficult part, since some calls look at it and others do not: the loop knows of
it as soon as the call that noticed it is done (`EndKnown`), which for a short
`type` is one call later; no byte comes after it, and a call that got all it
wanted has not noticed it (`BytesBeforeEnd`). The step of the refinement uses
`LoopInv` as well: that a chunk asks for no less than nothing and for no more
than is unread is a fact about the loop, so `ReaderInvariance` proves `TypeInv`
(of `ReceiveLoop`) and `ReaderInv` together. `Unconnected` keeps the position
at 0 before the first `connect()`.

**DeltaTime** (`WordAssumption`: `W + 2 W MaxCount <= W W`, true of 2^32 and
128, so that the sum of collected sub fractions does not overflow).
`TimeInvariance` proves type and accumulation together, because the sum of
stamp and collected sub fractions is exact only within these widths.

**Ramp**. `EntryIsStart` says that the entry's stamp is the history at the
time of the first block, less than a fraction aside and with the overflows so
far; `StampOfHistory` says the same of the present, from `NoDrift`. If the
stamp is not after the entry's and no overflow lies between, the two histories
differ by less than a fraction.

**Session** (`InterfacesAssumption`: the lists of interfaces are lists of flags;
they may be empty and in any order). None of the properties is inductive,
since they depend on how far `connect()`, `stop()`, "init" and the copying of the
strings have come. `SessionInv` follows them: `Silent` says that from the moment
a `stop()` that was called while no connection was being made has cleared the
address, it stays empty or nothing more is received that could set the stream id
again. `Overtaken` says that a `stop()` that is about to clear the control port
has cleared the address before, or found nothing open, or is one called before
the connection was made (`raced`): so `stop()` must clear the address before the
control port. `Remembered` says what the four strings hold at each step of
`start()` and "init": the path is the last POST one of the interfaces looked at
(`PathOf`), however old it was before, and while the address is set the port is
the one given or the first interface's (`PortsHeld`). `Copied` carries this over
to the copies, string after string: an address copied before `stop()` cleared it
is followed by an empty port or the right one. `PlacesOK` ties each thread's call
to its place.

**StartStop** (`NewsAssumption`). `ControlSteps` maps every step to one of
`Session` or a stutter, which brings `Session`'s theorems over. `CyclesEnd`
rests on `Cycle`: what is streamed is on `main`'s list, whatever the receiver
does to the set meanwhile, or was ignored; a request for no signals means an
empty list; an `unsubscribe()` that was carried out, or answered by JSON without
an error, leaves nothing else; a call returns only if it had nothing to ask or
got such an answer, which is what `Outcome` decides. `SetIsCurrent` rests on
`Told`, which says so for one signal: the last word about it that is under way
is what the device has; if there is none, what the receiver is working on; if
there is nothing either, the set.

Only model-checked: liveness (`CycleCompletes`, `LossRecognized`,
`MessageEnds`), which is out of the prover's reach.

## 6. Not modelled

- `multiclient`: several `StreamClient` objects, one thread each, that share
  nothing the library reads. A signal handler that goes through the list of
  clients while `main` appends to it is a data race without a defined outcome.
- `exampleclient`, `hbmstream_rawclient`: callbacks that print. The file of
  stream related meta information of `savestream` is left out likewise.
- Byte order and conversion of values to `double`: the models say which bytes
  a value is made of.
- The JSON parser, a submodule: meta information is modelled by its method.
  Malformed JSON and the exception of `setDataFormat`, which ends the process,
  are left out.
- `sendBlock` of the Windows build, see section 4.
- `m_initialTime`, its epoch and scale, and `Controller::s_id`: written and
  never used by the library.
- What the program does after `Overrun`, an access beyond the buffer: it has no
  defined outcome.
- The payload of a message of a type other than data and meta, and meta
  information of one to four bytes: neither is skipped, and the next header is
  read out of it. A server of this protocol sends neither; `OtherHeader` has no
  payload and `MetaSizes` leaves those sizes out.
- `m_subFraction` of `timeInfo` (`lib/timeinfo.cpp:72-77`): nothing reads it.
- That a `stop()` called before the connection is made silences the client: it
  does not (section 4), and `StoppedIsSilent` leaves it out.
- What becomes of a request that `main` sends with the strings of two sessions:
  the model lets it be sent; whether it is carried out is the server's.

## 7. Plan

Done: all modules of section 2, and proofs of their safety properties as listed
in section 5. Worth doing next:

1. TB blocks that take several calls: what stamp and which values they get.
2. `StreamReader` on `StreamSocket` itself instead of on `ByteChannel`, so that
   `start()` leaving after a header that fails follows from the loop.
3. Runs of their own for the era and for a `stop()` that is lost before `init()`
   (section 4).
4. `multiclient`, once the list of clients has a defined order of accesses.
