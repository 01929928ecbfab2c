# EchoControlSDK: a verification project

EchoControlSDK is a C++ library through which a client controls four kinds of
device of one installation: a light, a loudspeaker, a pan-tilt unit (PTZ) and
an ultrasonic transmitter. The client calls C functions (`ECCS_Init`,
`ECCS_Light_SetLevel`, `ECCS_Sound_PushData`, `ECCS_Release`, ...); behind them
a manager reads `device.cfg`, makes one object per device, and each object runs
threads of its own that talk to the hardware over TCP and UDP sockets.

This directory holds TLA+ modules of that program, the TLC configurations that
check them on small instances, and proofs that TLAPS checks for every value of
the constants. Paths below are relative to `src/EchoControlSDK/src/` unless they
begin with another directory. `PROJECT.json` names, for every definition of a
module, the lines of the code it was translated from.

Contents: 1 The system, 2 Modules and code, 3 Runs and what they show,
4 Bounds, 5 Fairness, 6 Proofs, 7 Where code and text disagree, 8 What is not
modelled, 9 Plan, 10 Running it.

## 1. The system

### Parts, state and operations

| Part | State it keeps | Operations | What makes it correct |
|---|---|---|---|
| **Event queue**, `thread/event_queue.cpp`, `semaphore.cpp` | a deque under `m_queueLcok`, a semaphore of mutex, counter, condition variable | `post`, `peek`, `pop`; `wait`, `notify`, `try_wait` | first in, first out; nothing lost or repeated; `front()` is never taken of an empty deque; no wakeup is lost |
| **Thread**, `thread/thread.cpp` | `m_state` (no lock), `m_thread`, its event queue | `start`, `quit`, `join`, `postEvent`, `processEvent`, `innerRun` | the flag tells the owner the truth about the thread; it runs once; `quit` ends it |
| **Device base**, `device/DeviceBase.cpp` | `m_devState`, `m_shuttingDown`, the reader thread and its flag, the callback | `Init`, `Start`, `Stop`, `SetState`, `ExecutePacket`, `StartReader`, `StopReader`, `ReadLoop` | only transitions of the table; the callback is told what happened; nothing runs after `Stop` |
| **Drivers**, `device/Light`, `Sound`, `PTZ`, `Ultrasonic` | socket, heartbeat thread, audio thread, ring buffer, `m_isMicOpen` | `Connect`, `Start`, `Stop`, the commands | the socket and the reader agree with the device's state; speech arrives in order |
| **Ring buffer**, `utils/ring_buffer.cpp` | vector, head, tail, under `m_mutex` | `Write`, `Read`, `Available` | a bounded first-in first-out queue |
| **Configuration file**, `utils/configparser.cpp`, `tool/ConfigTool.cpp` | the file's lines, a map of sections and keys | `readConfigFile`, `Get`, `Set`, `writeConfigFile` | an update changes one value and no other; what a crash leaves is part of what was wanted |
| **Configuration manager**, `config/ConfigManager.cpp`, **registration**, `device/DeviceRegister.cpp` | the parsed file, `m_devices` by slot, the tables of names and factories | `LoadSystem`, `UpdateConfig`, `GetDeviceByIndex`, `Release` | a good section gets its device whatever the others hold; no device is lost or used after its deletion |
| **Client interface**, `EchoControlSDK.cpp`, `handler/` | the handle (always there) | the `ECCS_*` functions | commands reach their kind of device, in order and unchanged; release cuts a device off at one point of its commands and stops all |
| **TCP socket and server, UDP socket**, `net/` | descriptors, addresses, options, names of both ends, an interrupt pair | `open`, `close`, `read`, `write`, the setters and getters of options, `peerAddress`, `localPort`, `listen`, `accept`, `interrupt`, `interruptChildren` | descriptors neither leak nor are closed under a user; what was written is read; calls end when told; options and names are those of the socket that is open |
| **Byte buffer**, `utils/buffer.cpp` | memory, position, count | push, pop, `resize`, `reserve`, copy | content is where it should be, memory is bounded |
| **Logger**, `debug/Logger.cpp` | three files, a lock, a timer | `initLogger`, `log`, `plain` | lines are whole, urgent ones are on the disk |
| **Time conversions**, `time/time_convert.cpp` | none | `gps2local`, `local2gps`, `gps2utc`, `utc2gps`, `UTC2GPS` | they undo each other and name the same instant |

### How the parts interact

    client thread ── ECCS_* ──> ConfigManager ── Init/Start/Stop/delete ──> DeviceBase (one per slot)
         │                                                                     │ is a Thread
         │  packets: DeviceBase::ExecutePacket -> Thread::postEvent            │
         └───────────────────────────> EventQueue <── heartbeat thread         │
                                           │ pop                               │
                                           v                                   │
                          worker: DeviceBase::run -> Packet::Dispatch -> driver command -> socket
                          reader: DeviceBase::ReadLoop -> OnRawDataReceived (PTZ: angle frames)
         PushAudio ─> RingBuffer ─> audio thread (AudioTxLoop) ─> UDP
         SetState (owner or worker) ── NotifyStatus ──> the client's callback

An owner (the client's thread inside the manager), a worker, a reader and, for
the loudspeaker, a heartbeat and an audio thread share the fields of one device.
Of these only the event queue and the ring buffer are locked.

### What is hard

* **Interleavings without locks.** `m_state`, `m_devState`, `m_shuttingDown`,
  `m_readThread`, the sockets and the audio flags are written and read by
  several threads. `SetState` tests, changes and reports in separate steps.
* **Start and stop.** `Stop` is allowed at any moment: before the new thread
  reached its loop, in the middle of a command, while the reader waits.
* **Streams.** A TCP stream knows no packets: marks, fragments, short reads and
  signals have to be put together; the PTZ has to find frames in what a
  read happens to return.
* **Retries and timeouts.** `read` starts its timer anew with each retry;
  heartbeats queued while the device was online are handled after an error.
* **Descriptors.** The sockets a server accepts poll a descriptor of the server,
  which must outlive its `close` and be closed by the last of them.
* **Commands on their way.** A call is answered before anything is sent. Its packet
  waits in a queue behind others and a release, its value is converted to the
  bytes of a device's protocol, its frame may not leave.
* **Options and names.** They are set before, between and after the opens of a
  socket, kept in members and in the system, and may be refused by the system.
* **A file that is rewritten.** It is truncated first and no write is asked how it went.
* **Boundaries.** Full and empty circle, the last fragment, the last seconds of
  a GPS week, sections of the configuration that contradict themselves.

`PROJECT.json` lists each hazard at its line with the properties that cover it,
or with the reason why none does.

## 2. Modules and code

| Module | Models | State and actions |
|---|---|---|
| `EventChannel` | what a queue promises | abstract: what is in the channel and what each receiver got of it, `Send`, `Receive` |
| `EventQueue` | `EventQueue`, `Semaphore`, `Thread::processEvent` | the deque, the counter, who holds the lock, where each thread is. `PostTest`, `PostPush`, `PostNotify`, `PopCall`, `ProcessPeek`, `SemSleep`, `SemTake`, `PopFront`, `SpuriousWake`: a step is one critical section or one unlocked read. Refines `EventChannel` |
| `ThreadLifecycle` | `Thread` as `DeviceBase` uses it | `m_state`, `m_thread`, `m_eq`, one step per read or write of a field |
| `Device` | `DeviceBase` and the four drivers (`kind`, chosen at the start) | `m_devState`, socket, reader, queue, callback; `todo[t]` is what thread `t` has still to do, a stack of nested calls, so that owner and worker share the same definitions of `SetState`, `OnStateEnter`, `StopReader`, `Connect`. Refines `ThreadLifecycle` |
| `BoundedFifo` | what a ring buffer promises | abstract: a sequence, `Write`, `Read` and their answers |
| `RingBuffer`, `RingBufferCalls` | `RingBuffer`; any callers of it | vector, head, tail. Refines `BoundedFifo` |
| `AudioPath` | `PushAudio`, `AudioTxLoop`, `SetMic`, `Start`, `Stop` of the loudspeaker | extends `RingBuffer`; one step per access to a shared field |
| `DeviceIds` | `device/DeviceID.h`, `strtoul` of an ID's text, the tables of names | operators |
| `Sdk` | `EchoControlSDK.cpp`, `ConfigManager`, the factories | extends `DeviceIds`; the file, `m_devices`, the objects and their fate; `ECCS_Init` and `ECCS_Release` take one step per section or device so that callbacks come between |
| `Commands` | the control calls of `EchoControlSDK.cpp`, `EchoControlHandler`, the commands of light, loudspeaker and PTZ, `protocol/` | per device its queue, state, socket and the frames it received; `PostPkt`, `Dispatch`, `Reject`, `Heartbeat`, the loop test of `run`, the steps of `Stop` and `quit` |
| `Client` | a client's whole view | composes `Sdk` (its life from init to release) and `Commands` (what it asks for in between) |
| `TcpStream` | `TcpSocket::write`, `writePartial`, the three-argument `read` | writer, byte stream, reader; a byte is its packet and place |
| `TcpServer` | `TcpServer` and the life of accepted sockets | descriptors as numbers that are used again; owner, accepting thread, one thread per connection |
| `TcpConnect` | `TcpSocket::open`, `bind`, `close` | the list of addresses, the socket, every call that may fail |
| `SocketRead` | the two-argument `read` of both sockets | retries, the timer of the attempt, the time in all |
| `UdpSocket` | `UdpSocket::open`, `create`, `bind`, `close`, `read`, `write`, `setRemoteAddr` | addresses, the filter, who sent and who is answered |
| `OptionKinds`, `SocketOptions` | every option of both sockets with its setter and getter, and what `open` does with them | the member and what the system has, per option; what `open` has still to set; what the system refused |
| `SocketNames` | `localPort`, `peerAddress`, `peerPort`, `peerHost`, `setLocalAddr`, the cached address | the port asked for and got, the peer, the names made of it |
| `Sockets` | one socket and the thread that owns it | composes the five: `TcpConnect` or `UdpSocket` with `SocketRead` for a `read` of the open socket (a UDP `read` returns with a datagram), or the options, or the names |
| `BufferDeque`, `Buffer` | what a `Buffer` promises; `Buffer` | memory with its junk, position, count. Refines `BufferDeque` |
| `GpsTime` | the GPS conversions | a clock that counts both the calendar and the seconds since 1980-01-06; the conversions are operators compared with that count, the two loops of `UTC2GPS` recursive functions |
| `PelcoReader` | `OnRawDataReceived`, `ParsePelcoResponse` of the PTZ | cameras send frames, reads end anywhere |
| `Logger` | `initLogger`, `log`, `plain` | files with what is in the C library's buffer and what is on the disk |
| `ConfigFile` | `ConfigParser`, `ConfigManager::UpdateConfig`, `ConfigTool` | the file as lines; reading, setting, opening for writing, each line written, a full disk and a crash inside any line |
| `Helpers` | the six helpers that share no state | `RingBufferCalls`, `Buffer`, `GpsTime`, `PelcoReader`, `Logger` and `ConfigFile` side by side; a behaviour uses one, the others rest |

`MC<Module>` is the module TLC runs; it holds the values of constants that a
`.cfg` cannot write. `<Module>Proofs` holds the proofs.

Composition: `Device` is checked to implement `ThreadLifecycle`, whose queue is
the channel that `EventQueue` is checked and proved to implement; `Sockets` puts
`SocketRead` between the `open` and `close` of either socket; `AudioPath`
uses the actions of `RingBuffer`, which is proved to implement `BoundedFifo`;
`Sdk` uses `DeviceIds` and takes a device as running, being stopped, stopped or
deleted, online or not, which is what `Device` says of one; `Commands` takes its queue as
a channel and its device as state, socket and thread, one step per event, because
what the device's threads do inside such a step is `Device`'s matter (the loop test of
`run` and the two halves of `quit` are steps of `Commands` too); `Client` shows
`Sdk` or `Commands`: the one says which devices there are, the other what becomes
of calls to them.

Decisions a reader should know:

* Only `DeviceBase` derives from `Thread`; `peek` is called only by
  `processEvent`, on the thread's own queue: a queue has one consumer, and the
  run has that shape. `peek` followed by `pop` would repeat one event and drop
  another with two. The proofs about `pop` are for any number of consumers.
* `m_maxSize` is the deque's `max_size()` today, so that the refusal in `post`
  never happens in practice; the model gives it a small value to see what the
  unlocked test is worth.
* `AudioPath` assumes nothing about when the client stops streaming, because nothing in
  the SDK waits for it and `test/main.cpp` joins its thread before its release command
  (line 119) and not before quit (line 186): a push beside or after `Stop` may use the
  deleted buffer (`PushFreed`), after which the program goes on or is dead.
* `Sdk` has one client thread: the interface promises nothing of several.
* No ultrasonic device is ever made (its model has no name in the table, section
  7), so `Commands` has no command for one; `Device` has its threads all the same.
* In `Commands` a frame is sent whole or not at all (`TcpStream` has the
  other), there is at most one device of each kind (`Fleets`: which ones), they are
  stopped in the order of their slots, and texts fit their fields. (`ECCS_Sound_Play` copies with `strncpy` and
  leaves the last byte of the file name as it was, `EchoControlSDK.cpp:182`.)
  The switch of the microphone is also that of `AudioPath`.
* `ConfigFile` has one client thread and the order of `std::map`; section 0 stands
  for the one that a value with brackets is taken for.
* In `SocketOptions` the order in which `open` sets options is left open, what an
  accepted socket inherits of linger and no-delay is chosen by the system, sizes of
  buffers are what was asked for (Linux answers with the double), and
  `bindIoDevice("")` on an open socket asks the system for nothing, as in the code.
* In `SocketNames` names stay after `close`, as in the code: properties are about an
  open socket. `localPort()` of a socket that is opened again without a port still
  answers with the former one. `peerAddress()` and `peerHost()` read a variable that is
  out of scope. What a build can lay over its storage is the two arrays declared
  behind it, which are zeroed; `getnameinfo` then meets no address family and leaves the
  name empty, which is the other outcome the model has.
* In `TcpConnect` the `fcntl` at the end of `open`, whose result nobody looks at
  (`TCPSocket.cpp:443`), may be refused: the socket is then left non-blocking.
* In `Logger` two files of the same second count as different. The model stops
  where stdio is given a closed file: what happens then is undefined.
* `TcpServer`, the three-argument `TcpSocket::read`, the time conversions and
  the custom log have no caller in the SDK. They are modelled as their
  headers offer them.

## 3. Runs and what they show

Nine runs pass; three show a disagreement of the code with its own text.

* **`queue`**, two producers and a consumer that calls `pop` and `processEvent`:
  the semaphore agrees with the deque between any two critical sections
  (`SemaphoreMatchesQueue`), no wakeup is lost (`NoLostWakeup`), what was accepted is
  handled (`EventuallyHandled`), and the queue is a first-in first-out channel that
  hands each event to one consumer, once, and to the one that handles it
  (`ImplementsChannel`: `processEvent` handles what it peeked before it pops).
* **`lifecycle`**, one thread object, owner and thread: the unlocked `m_state`
  never claims a thread that is not there or denies one that is
  (`StateTellsWorker`); a `quit` that saw it running ends it (`QuitStops`).
  **`lifecycle_stop`** (violation): a `Stop` right after `start` may wait for ever.
* **`device`**, each of the four drivers with owner, worker, reader and
  heartbeat: the transitions stay in the table though two threads make them
  (`LegalTransitions`); what the callback is told agrees with the state between
  calls (`NoteMatchesState`, for the light and the ultrasonic device), and so do
  socket and reader (`ResourcesFollowState`; the loudspeaker's socket only while it
  runs, section 7); nothing outlives `Stop` (`NothingOutlivesStop`);
  `quit` ends the worker unless the program crashed (`QuitEnds`); and the device
  implements the life of its thread (`ImplementsLifecycle`).
  **`device_joiner`** (violation): two threads join one reader.
* **`speech`**: bytes leave in order and once (`StreamOrder`); the audio thread, which
  tests no pointer, finds the ring buffer alive whenever it reads, however `Stop` and
  the client's pushes meet (`BufferAliveWhenRead`; a push itself may find it deleted,
  section 7); at most one chunk leaves after the microphone closed (`OneLateChunk`),
  speech flows while it is open (`StreamFlows`), and `Stop` ends unless such a push
  killed the program (`StopEnds`).
* **`sdk`**, a client that releases before it initialises again: no deleted
  device is reachable, none is leaked, and the callback is silent after
  `ECCS_Release` (`DevicesAreOwned`); a section that is
  off, incomplete or inconsistent costs no other its device, and a call reaches a
  device of its kind (`DevicesAsConfigured`). Between the two: whatever fails or
  reconnects, each device understands exactly the calls that were not dropped, in
  the order they were made, with the values they were made with
  (`CommandsArrive`). A release cuts a device off: once `quit` has set TS_QUIT the
  worker takes one event at most, and what it leaves in the queue that is deleted are
  the last calls of the device, in order, though they were answered with success
  (`StopCutsOff`). `ECCS_Release` returns wherever the workers are and whatever is
  queued, unless a `Stop()` meets a thread that has not begun and hangs in `join()`
  (`ReleaseEnds`; the run `lifecycle_stop` shows the hang).
  **`sdk_loudspeaker`** (violation): the generated configuration has no loudspeaker.
* **`tcp_stream`**: in behaviours without faults, packets of every length around
  the limits of fragmentation are read as they were written (`RoundTrip`,
  `EventuallyRead`); with faults, `send` and `recv` stop anywhere, fail and are
  interrupted, `read` still stays inside its buffers (`StaysInBuffer`), and
  packets that are not split lie in the stream once and in order (`WrittenIsSent`).
* **`tcp_server`**, two `listen`s and sockets that outlive the first `close`: no
  descriptor leaks or is closed under its holder (`OpenIsOwned`), `interrupt`
  ends `accept` (`InterruptEndsAccept`, for an owner that waits between
  `interrupt` and `close`: constant `CloseWaits`), `interruptChildren` and
  `close` end the children (`ChildrenEnd`).
* **`sockets`**, a TCP or a UDP socket opened twice over every list of two
  addresses, with failures at every call and `read` in between: no descriptor
  leaks and a closed socket remembers no peer (`NothingLeaks`), what `open`
  returns can be used, has the right names for its two ends, and it throws only
  after the last address (`OpenIsUsable`), a `read` lasts at most a timeout for
  each retry and one more (`TotalIsBounded`), the filter holds, and an answer goes
  to who asked (`AnswerReachesAsker`). With options set in any order before,
  between and after opens that may fail: an open socket has what its getters tell,
  but for a switch that was refused (`OptionsHold`).
* **`helpers`**: the ring buffer is a bounded queue with its answers
  (`ImplementsFifo`), the byte buffer a deque (`ImplementsDeque`); the time
  conversions agree with a clock and each other over the ends of leap and common
  years, in four zones (`TimesAgree`); however reads cut the line, bytes of two
  frames are not taken for one of the driver's camera (`ReportedWasSent`); lines
  of the log are whole and what is urgent is on the disk (`LogCanBeTrusted`). The
  configuration file (`ConfigSurvives`): an update that was answered with true on a
  disk with room changed its one value and no other, one that was refused
  changed nothing, and after a crash or with a full disk the file says a first
  part of what it was to say, at most its last value cut.

One invariant of each of these modules has the types of the variables as a
conjunct (`TypeOK`); in `EventQueue`, `ThreadLifecycle`, `RingBuffer` and
`SocketRead` the types are proved instead (section 6).

Every property of a passing run has a mutant in `PROJECT.json`: a plausible
mistake in one definition with which TLC finds the property violated.

## 4. Bounds

A `.cfg` gives each bound its value; a module declares which constants are
bounds. Why they are enough:

* **Queue.** Three posts of two producers pass `MaxSize` 2 by one, and let a
  producer post while its former event is still counted. The proofs remove the
  bounds.
* **Threads, devices.** The thread object is used once, so `start`, `quit` and
  `join` happen once each; two packets (and two heartbeats) let one fail
  while another is queued, which is where the states part.
* **Ring buffer.** Four places hold three bytes: a write can be cut, wrap, fill
  and meet an empty buffer. The proof is for every capacity.
* **Speech.** Six bytes through three places wrap twice; three toggles of the
  microphone open it, close it and open it again.
* **SDK.** Four sections: two good ones, one contradictory, one off; two
  initialisations.
* **Commands.** Two calls of all kinds and a heartbeat, to devices that are online
  or not, with a release at any moment: one can fail, reconnect, wait or be left behind
  while the other follows. `Fleets` are each kind of device alone, and a light with a
  PTZ, so that a release goes from one device to the next; the proof is for all. Levels 0, 39 and 100 include one whose brightness rounds.
* **Configuration file.** Every file of up to three lines (headers repeated,
  comments, values with brackets) over two sections and two keys, rewritten
  twice: after a crash the second rewriting starts from what the first left.
* **Streams.** 400, 512, 1500 and 5 are scaled to 5, 5, 12 and 2, which keeps
  their order and gives up to four fragments; lengths are chosen at every
  boundary. Where faults may happen one unsplit and one split length suffice.
* **Server.** Two connections, two `listen`s, descriptors handed out again: a
  socket of the first server can meet a descriptor of the second.
* **Open and read.** Two addresses of two families: one can fail and the next
  succeed. Two retries of three ticks (the code has five): the proof is for all.
* **Options.** One timeout, one buffer, all five switches, two values: options
  do not look at each other, and the proof removes the bounds.
* **Names.** Two ports, two addresses, two opens: the second may lead elsewhere.
* **Buffer.** Five bytes make memory of 4, 8 and 16: growing, moving in place
  and reallocating all happen.
* **Time.** Eight days from six dates include a turn of the week, the end of
  February of leap and common years and of 2000, and ends of years; the stops in
  a day sit around midnight, the zones' shifts and the leap seconds.
* **PTZ.** Angles whose bytes look like heads (255), or answers (89); two frames.
* **Logger.** Two messages of two threads and two calls of `initLogger`, the
  second with or without the sub-logs of the first.

## 5. Fairness

Only steps the code takes by itself are fair, and only weakly: a step that stays
possible is eventually taken by the scheduler. Calls by clients, arriving
packets, failures, signals and the network are never fair.

* `EventQueue`: producers inside `post`, consumers' `pop` (they loop).
  `EventuallyHandled` needs the consumer to keep popping, as `run` does.
* `ThreadLifecycle`, `Device`: owner, worker, reader and heartbeat inside a
  call. Reads of sockets end because the drivers poll with a timeout.
* `AudioPath`: the audio thread's loop and the steps of `Stop`, while the program is
  there.
* `Client`: the steps of `ECCS_Release` and of each device's worker in `Commands`. A
  `join()` is a step only when the worker has ended, so a `Stop()` that hangs is a
  behaviour. `Sdk`'s part is checked for safety only: there each `Stop()` may return or
  not.
* `TcpStream`: writer and reader inside a call (`EventuallyRead` is checked
  where sends and receives are whole).
* `TcpServer`: the accepting thread; a child's read, its end once it was told,
  and its close.
* `Sockets` and `Helpers` are checked for safety only.

Runs with `CHECK_DEADLOCK FALSE` stop where a bound is used up or a released
system has nothing more to do.

## 6. Proofs

Eight modules; `tlapm` checks every leaf.

* **`EventQueueProofs`**, for any finite sets of producers and consumers and any
  `m_maxSize` and number of posts. `SemaphoreMatchesQueue` says that the counter
  is the length of the deque less the pushes not yet notified plus the pops
  not yet taken; to prove it, threads at a point of the code are counted before and
  after a step (`OneMoves`). `IInv` adds to the types that a post under way is
  counted (`PostCounted`), without which the queue's events have no type, and
  the lock's holder (`LockHolder`), without which two pushes could meet. From it:
  `PopIsDefined`, `WakeupsSuffice`, `OvershootIsBounded`. If no more than one
  thread peeks, and no other pops (`OnePeeker`, the shape of `Thread`), what it
  peeked stays the head (`PeekedIsHead`), so that it handles what it pops
  (`HandlesWhatItPops`) and every step is a step or a stutter of the channel,
  receivers included (`RefinesChannel`).
* **`ThreadLifecycleProofs`**, for any number of events. `IInv` adds what the
  invariants leave out: `Stop` has a thread all the way through, a `quit` past
  its test saw the loop entered, and every trace of a quit is the owner's.
  From it `StateIsRight`, `HandleIsRight`, `OnlyQuitLeaves` and `RunsOnce`.
* **`DeviceProofs`**, for every driver and any number of packets and heartbeats.
  The invariants speak of a device between calls; what a step of one thread may
  do depends on what both threads have still to do, that is on `todo`. So the
  inductive invariant has three parts: the types; `InOrder`, that a thread's
  tasks are nested calls - behind each task only the rest of the calls it is in
  can wait (`Later`, `Rests`); and `Known`, what the tasks tell of the state, in
  six groups: where worker and owner are (`ThreadKnown`), what `Stop` has taken
  down already (`StopKnown`), which states a thread may still assign
  (`StateKnown`), which calls `Start` has left (`StartKnown`), where the reader is
  (`ReaderKnown`) and the socket (`SocketKnown`). Without `InOrder` no `SetState`
  could be told what is done after it; without `StateKnown` a worker that tested
  a transition could find another state when it assigns, and `AssignsLegally`
  says it does not. `Moved` says in terms of sets what a step does to the tasks,
  and each action has a lemma for each part on top of it. When two threads join
  the reader the program is gone (`Crashed`); the invariant then stays
  because nothing moves. `LegalMoves`, `NothingOutlives`, `NoteMatches`,
  `ResourcesFollow`.
  `ImplementsThread` is the refinement of `ThreadLifecycle`, step by step: the
  owner's `quit`, post, mark and `join` are that module's, packets and heartbeats
  its events, all else a stutter. It needs two facts more (`LifeInv`): behind
  each step of `quit()` the next one and `join()` come first in `todo`, and a
  worker that finds `m_state` QUIT still has the Quit event before it.
* **`SocketsProofs`**, for every number of addresses, retries and opens, and all
  timeouts, families, options and values. None of the invariants is inductive:
  they speak of an open socket or a finished `read`. Each part gets what they
  are silent about. Of a `read` under way: each retry used one timeout at most and
  the attempt under way what has elapsed (`Spent`). Of an `open` under way: the
  descriptor is `_sock`, of the family of the address that is tried, and bound
  before it is connected (`TcpOpening`); with a remote the socket of `UdpSocket` is
  made for it and stays, without one it is made for the local address (`UdpOpening`),
  and nothing was read or sent but while it is open (`Talks`); what options need not
  be given still is so already (`OptionsInv`). `SocketsInv` has each where its part
  is looked at. From it `OpenLeavesNothing`, `OpenGivesSocket`, `OptionsAreTold`,
  `ReadIsBounded` and the action property `AnswersReachAskers`.
* **`HelpersProofs`**, the helpers and the live speech on the ring buffer.
  *Ring buffer.* For every capacity, set of bytes and lengths the indices stay inside; the content,
  read around the circle, is a queue: writing appends the first bytes that fit,
  reading takes the first ones. One lemma (`OneTurn`) replaces `%` by one
  subtraction, the rest is arithmetic. `RefinesFifo` is the refinement of
  `BoundedFifo`, answers included.
  *Speech.* For every chunk and number of bytes: `StreamOrder` itself is inductive with the
  types; `Lives` says in which state of the owner the audio thread may be at the
  ring buffer and when that is there, whatever the client does beside it, and
  `Lateness` where the one late chunk can be. `SpeechInOrder`,
  `BufferOutlivesReads`, `MicEndsSpeech`. What follows uses none of `AudioPath`'s assumptions.
  *Byte buffer.* For any bytes and sizes: position and count fit the memory
  (`BufferInv`), `reserve()` and `recapacity()` leave the content as it is wherever they
  move it, and each operation is then a push or a pop at an end, or an emptying:
  `RefinesDeque`.
  *Log files.* For any threads, messages and calls of `initLogger`. That lines are
  whole and urgent messages on the disk (`LinesAreWhole`, `UrgentIsOnDisk`) is not
  inductive: a body is written some steps after its head. `LogInv` adds that only the
  lock's holder is between the two (`WritersLock`), that its file is one of those that
  exist and its head the last entry in it (`CallsFit`, `HeadIsLast`), that a message
  has one call (`OwnMessages`) and that what is in a file was logged, and no body of
  a call that has still to write one (`TextWasLogged`). `LogsCanBeTrusted`.
  *Frame scanner.* For any cameras, angles and cuts. The hard case is seven bytes
  across two frames whose first is the low byte of an angle (255) and that have the
  right address: their fourth byte, the command, is then the next frame's address,
  and if it were 0x59 or 0x5B the checksum would ask for a high byte above 140
  (`AlignedOrNoAngle`), so that nothing is reported of them. What one read reports exists and is told by the
  aligned frames in it, by an induction over the loop's index stated for sets.
  `PelcoInv`: the unread bytes are the last of the frames sent, and the angles reported
  belong, in order, to frames read to their end. `ReportsAreTrue`.
  *Time conversions.* For clocks that start anywhere from the day after the GPS
  epoch and run until the end of any year up to 3000, for zones from -12 to +14 hours
  and leap seconds from -3600 to 0. The calendar first: years and months follow
  each other without gap or overlap (`YearLength`, `YearsFollow`, `MonthEnd`,
  `MonthsFollow`), so that each day has just one date (`DayHasDate`, `GmtimeIs`) and
  `gmtime` and `timegm` undo each other (`DateIsKept`, `SecondIsKept`); the
  two loops of `UTC2GPS` add up to the same calendar (`YearsCounted`, `MonthsCounted`);
  week and second of the week make the instant again while weeks fit in 16 bits
  (`WeeksAreWhole`). `ClockInv` says that the count of seconds is that of the date and
  that the days left stay inside the years asked for, without which the last midnight
  could lead out of them. `TimesAgreeAlways`.
  *Configuration file.* For any finite sets of sections and keys, and files of any
  length to begin with. The parser is a function over the lines read so far
  (`Parsed`): `OneMoreRead` says what one line adds to it, `FileRead`, by induction
  over the lines, that any file gives a table of sections and keys. `SortedIs`: the
  entries of a table are written once each and in order, so that the entries
  before the next line are those that precede it, and `EntryRead` adds it to what the
  file says. The inductive invariant, `ConfigInv`, says that `want` is what the call
  asks for; that, while the file is written, it says the first `n` entries of `want`
  and the lines to come are those of the others (`InWriting`, with the comment and
  the blank line of `ConfigTool` before and behind); and, once the writing has stopped
  short, that the file says entries before which none is lacking, of which at most
  the last is cut (`LeftOf`). `ConfigSurvives` says nothing while the file is written,
  which is when all of it is decided. `ConfigSurvivesAlways`.
* **`TcpStreamProofs`**, for any number of packets and sizes of fragment, mark and
  header, and all ways to cut the stream. The types include what writer and reader
  hold: the rest of the packet and a fragment of it, and no more in `buf` than
  the fragments before brought; `Counting` says that the fragments of a packet are
  full but for the last. From them `BuffersHold`, for packets of any length.
  `Wrote` says that what has been sent of a packet without fragments is the end of
  the stream: `WritesAreWhole`. For whole calls of `send` and `recv`, `Stream`
  says where each fragment lies and `Reading` that the wire is the stream from the
  reader's place on; then each `recv` asks for just one fragment, finds the mark at
  its place and adds the next bytes of the packet. `PacketsArrive` takes packets
  of less than 1500 bytes for granted: longer ones are sent in one piece and read
  in fragments (section 7), and `RoundTrip` is false of them.
* **`TcpServerProofs`**, for any finite set of connections and number of `listen`
  calls. `OpenIsOwned` needs to know that a descriptor has one holder, the reader
  of one `listen` excepted, which the sockets of that `listen` share (`OneHolder`),
  that a server that is down has none and the reader it hands out is that of its
  last `listen` (`OwnerKnows`), and that the lowest free numbers are as many as are
  asked for, and free (`Least`, `RankGrows`). `NoDescriptorLeaks`.
* **`ClientProofs`**, for every configuration. `DevicesAreOwned` is silent while
  a call is under way; `IInv` says what the call has done so far: in `ECCS_Init`
  a slot that is taken is that of a section already read (`TakenWasRead`), and
  all accepted ones have theirs (`MadeSoFar`); in `ECCS_Release` a device that is
  not deleted is still to be visited (`StillToVisit`); a deleted device has no
  callback. From it `DevicesStayOwned` and `EverySectionCounts`. Both take two things
  for granted, and the code needs both: the client releases before it
  initialises again (`ReleasesFirst`), and no two section names mean the same slot
  (`DistinctSlots`; `Slot_1` and `Slot_01` do, and the second device would take the
  first one's place without stopping it, `ConfigManager.cpp:148`).
  `CallsReachTheirDevice` takes a third, that IDs are written with `0x`
  (`Hexadecimal`): the ID that was checked and the one the device goes by are then
  one number (`NumeralIsNatural`, by an induction over digits that `AllNumbers`
  states for sets), and its type is that of its class (`TypeOfId`).
  The control calls, for every number of calls and heartbeats, all they carry and
  all devices. `StopCutsOff` and `CommandsArrive` say what a device got and what it
  left; neither is inductive, for they do not say what is under way in between. One
  invariant serves both (`ArriveInv`). `Known`, of each device: the packets of its queue
  are those of the calls that wait, in their order and with their values; the calls
  already sent come before all that wait; the frames on the wire are those of the sent
  calls, in order, and each is understood as the call it was made of, which is
  arithmetic about each protocol (the byte a level or speed is converted to names that
  level or speed again). `Cut`, of each device's threads: nothing has been taken after
  TS_QUIT while the worker has an event in hand, and none is in hand without a test of
  the flag before it, so that one event more can be the last. The numbers of the
  loudspeaker's frames rise and stay at most `m_cseq` (`Rising`); that number and what
  the queue will still number are never more than the calls and heartbeats there were
  (`Counted`), which bounds it. `CommandsReachTheDevice`, `ReleaseCutsOff`.

Assumptions: the named `ASSUME`s of the modules (constants are numbers, sets
are finite, a capacity is not 0). Three say more. `CommandsAssumption`: a client passes
values in the ranges that `EchoControlSDK.h:87,98,104,116` (in `include/`) documents.
`PelcoAssumption`: the driver's address is 1 (`PTZ_YZ_BY010W.cpp:6`), and a camera
sends angles whose high byte is at most 140, that is below 361 degrees.
`TimeAssumption`: the ranges of zones, leap seconds and years above.
`ConfigAssumption` only names the data: sections and keys are numbers in the order of
their names, and a value has brackets or has none, also when it was cut. TLC evaluates
all of them in the runs that have these constants.

Only model-checked, and why: liveness (`EventuallyHandled`, `QuitStops`,
`QuitEnds`, `StreamFlows`, `StopEnds`, `ReleaseEnds`, `InterruptEndsAccept`,
`ChildrenEnd`, `EventuallyRead`) needs fairness and ENABLED, which this prover does
not reason about; of `ImplementsChannel` the steps are proved (`RefinesChannel`) and its
fairness is not. All invariants that the passing runs check, and all their action
properties, are theorems.

## 7. Where code and text disagree

Three runs with `expect: violation` have one property each, which states what the
repository says; `PROJECT.json` quotes the line.

| Run | The text says | The code does |
|---|---|---|
| `lifecycle_stop` | `ECCS_Release` stops all threads | a `Stop` before the thread is RUNNING posts no quit; `join` waits for ever |
| `device_joiner` | readers are started and stopped in `Start`, `Stop` | the worker stops it too: both join one thread |
| `sdk_loudspeaker` | the loudspeaker is registered as `NetSpeaker-V2` | the table of names spells it otherwise: no loudspeaker is made |

Others the models reproduce without a run of their own. A property of a passing
run that meets one is stated for the part of the program it does not touch.

| Where | The text says | The code does |
|---|---|---|
| `Light_HL_525_4W.cpp:22` | a light not connected at start is retried in the run loop | no packet is accepted offline and only packets connect |
| `DeviceBase.cpp:105` | while shutting down only OFFLINE may be entered | tested before, assigned later: ERROR is entered |
| `DeviceBase.cpp:121` | state unchanged, but there was an error | the note carries the refused state |
| `EchoControlSDK.h:128` | busy when the buffer is full | always success |
| `EchoControlSDK.h:64` | release stops all threads | devices of a first init are dropped running by a second one |
| `DeviceBase.cpp:155` | a call was answered with success | a release leaves the calls that are still queued behind the one in hand: `run` tests `m_state` before it pops (`Commands`) |
| `Sound_NetSpeaker_V2.cpp:218` | pushes into the buffer if there is one | `Stop` may delete it between test and use, and nothing waits for the client's thread (`AudioPath`) |
| `TCPSocket.cpp:442` | set back to blocking | nobody looks at whether that worked |
| `ConfigManager.cpp:117` | model and ID are verified against each other | the ID is read again in base 0: octal without 0x |
| `Ultrasonic_TAS_IO_428R2.h:15` | registered under its name | the table of names lacks it |
| `EchoControlSDK.cpp:138` | online when devices are | online whenever the handle is |
| `TCPSocket.cpp:1145` | packets over `MIN_PACKET_LEN` are split | not from 1500 bytes on; the reader expects it |
| `TCPSocket.cpp:1181`, `:1255` | a blocked `send` is a timeout of `write` | at a later fragment too: `writePartial` answers 0, the fragments before it are on the wire, and the stream holds half a packet (`TcpStream`) |
| `TCPSocket.cpp:1223`, `:1261` | `write` goes on where `send` stopped | the bytes counted of a fragmented packet include the marks: after a short `send` it goes on at the wrong byte or takes the packet for sent (`TcpStream`) |
| `TCPSocket.h:76`, `TCPSocket.cpp:975` | reads the packet; tries again when interrupted | takes a part for a fragment; begins at the first fragment again |
| `TCPServer.h:85` | the interrupt reader makes `accept` interruptible | it is read again after `poll`, when `close` may have reset it |
| `TCPSocket.cpp:710` | the read timeout is not exceeded | each retry starts the timer anew |
| `EchoControlSDK.h:139` (in `include/`) | channel 0 is all channels | the driver switches channel 1 alone |
| `EchoControlSDK.h:111` (in `include/`) | loop plays in a loop | `PlayFile` does not look at it |
| `EchoControlSDK.h:78` (in `include/`) | declares `ECCS_IsOnline` | defines `ECCS_IsSystemOnline` |
| `EchoControlHandler.cpp` | registers `RqPtzStop` | no call posts it: a stop is a move with action 5 |
| `configparser.cpp:113`, `:116` | "Write value to file success" | no write is asked: it says so with a full disk |
| `configparser.cpp:38` | a line with `[` and `]` is a section | also when they are in a value; comments and empty sections are gone after an update |
| `TCPSocket.cpp:140`, `:173` | the peer's address | made of a variable that is out of scope, for an accepted socket's first name: it may come out empty |
| `UDPSocket.h:31` | tells whether broadcast is on | uninitialised before the first `setBroadcast` |
| `buffer.h:29` | first and last byte | a copy of a popped buffer begins at the memory, not at the content |
| `time_convert.cpp:282` | GPS week and second of the week | 604800 and more in a week's last 18 seconds |
| `PTZ_YZ_BY010W.cpp:148`, `:139` | not my address; only the first frame | one byte is passed over, not the frame; every frame is reported |
| `Logger.cpp:508` | the file pointer is valid | closed and not reset by a second `initLogger` |
| `Logger.h:58` | the time since the log was started | parts of milliseconds are dropped with every message (not modelled) |

## 8. What is not modelled

* **Packets** (`protocol/`) other than the requests a client posts: responses,
  queries and messages are records nobody sends, or that the callback is
  given as they are. `Encode` and `Decode` are not called.
* **Exceptions**: classes with a message. Who throws and who catches is in the
  modules of the functions.
* **File system, /proc, character sets, checksum table, clock reads**: wrappers
  of single calls of the system, or tables; nothing interleaves in them.
* **Single process guard**: a lock file whose exclusion is the kernel's; unused.
* **Copies of a `Buffer`**, and the logger's timer: section 7 has what they do.
* **Custom log and log backup**: used nowhere. The backup is compiled only under
  `__Linux__`, which no compiler defines (`Logger.cpp:152`); the custom log hands a
  `va_list` to `snprintf`, whose outcome is undefined.
* **Windows branches** of the sockets and the guard: the Linux build is modelled.
* **Texts**: the text of a JSON command (a record of its members in `Commands`), log
  lines, prompts, the text of IDs `ConfigTool` makes.
* **General utilities, timers**: pure functions of one line or loops over a
  string, that nothing in the SDK's control depends on.
* **Lookups beside a release**: `ECCS_Release` deletes devices one by one and clears the
  map at the end; a control call of another client thread meets deleted devices in
  between. Nothing in the code prevents it; `Sdk` has one client thread.
* **`close` beside `accept`** of a `TcpServer`: another thread may reset the descriptors
  between `poll` and their use (`TCPServer.cpp:386`). In the model `close` waits.
* **Torn reads** of the callback (a `std::function` set while devices call it):
  no outcome could be named.

## 9. Plan

The order is that of importance: the threads everything runs on, the devices,
speech, the SDK around them, then the network, then the helpers.

1. Done: sections 2 to 6.
2. Left, models: `Utilities` (`split`, `formatangle`, `angledelta` against
   reference definitions) and `Timers` (`ElapsedTimer`, date comparison), both
   of little control.
3. Left, proofs: none of a safety property; liveness is out of this prover's
   reach (section 6).

## 10. Running it

    tlc -workers 2 -config MCDevice.cfg MCDevice.tla
    tlapm EventQueueProofs.tla

`PROJECT.json` lists runs, mutants, the map to the source, findings, hazards and
theorems.
