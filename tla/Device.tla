-------------------------------- MODULE Device --------------------------------
(***************************************************************************)
(* One device of the SDK: DeviceBase (src/device/DeviceBase.cpp) with the  *)
(* Init, Start, Stop and Connect of the four drivers that derive from it.  *)
(*                                                                         *)
(* Its threads are the owner (ConfigManager: Init, Start, Stop, delete),   *)
(* the worker (DeviceBase::run, a Thread as in ThreadLifecycle), the       *)
(* reader (ReadLoop) and, for the loudspeaker, the heartbeat.              *)
(*                                                                         *)
(* Owner and worker run the same nested calls (SetState, OnStateEnter,     *)
(* StopReader, Connect...).  todo[t] is what thread t has still to do, a   *)
(* sequence of <<step, argument>>: a call replaces itself by its body.     *)
(* Between two steps the other threads may run.                            *)
(***************************************************************************)
EXTENDS Naturals, Sequences

CONSTANTS
  MaxPackets,  \* bound: packets given to ExecutePacket
  MaxBeats     \* bound: heartbeats posted

Kinds == {"light", "ptz", "sound", "ultrasonic"}

ASSUME DeviceAssumption == MaxPackets \in Nat /\ MaxBeats \in Nat

VARIABLES
  kind,             \* the driver; it never changes
  m_devState,       \* DevState
  m_shuttingDown,
  m_statusCb,       \* is a status callback registered?
  note,             \* the last state told to it, and the state at that time
  m_keepReading,
  m_readThread,     \* does m_readThread hold a thread?
  reader,           \* where the reader is
  m_socket,         \* null, open or closed
  m_state,          \* ThreadState
  m_thread,         \* does m_thread hold a thread?
  m_eq,             \* the event queue
  worker,           \* where the worker is
  m_keepHeartbeat,
  beat,             \* where the heartbeat thread is
  todo,             \* what the owner and the worker have still to do
  phase,            \* which of its calls the owner is in, or was last in
  packets,          \* calls of ExecutePacket so far
  beats             \* heartbeats posted so far

stateVars == <<m_devState, m_shuttingDown, m_statusCb, note>>
readerVars == <<m_keepReading, m_readThread, reader>>
threadVars == <<m_state, m_thread, m_eq, worker>>
driverVars == <<kind, m_keepHeartbeat, beat>>
envVars == <<phase, packets, beats>>
vars == <<stateVars, readerVars, m_socket, threadVars, driverVars, todo, envVars>>

DevStates ==
  {"unknown", "initialized", "offline", "connecting", "online", "working", "error"}
Actors == {"owner", "worker"}

(* IsValidStateTransition *)
Transitions ==
  {<<s, s>> : s \in DevStates} \cup
  ({"unknown"} \X {"initialized"}) \cup
  ({"initialized"} \X {"offline", "connecting"}) \cup
  ({"offline"} \X {"connecting", "error"}) \cup
  ({"connecting"} \X {"online", "offline", "error"}) \cup
  ({"online"} \X {"working", "offline", "error"}) \cup
  ({"working"} \X {"online", "offline", "error"}) \cup
  ({"error"} \X {"offline", "initialized"})

(* IsStateOnline(m_devState) *)
IsOnline == m_devState \in {"online", "working"}

-----------------------------------------------------------------------------
(* The bodies of the drivers' calls, as steps                              *)

Do(step) == <<<<step, "">>>>
SetTo(state) == <<<<"set", state>>>>

InitTasks == SetTo("initialized") \o (IF kind = "light" THEN Do("connect") ELSE <<>>)

StartTasks ==
  CASE kind = "ptz" -> Do("connect") \o Do("start") \o Do("startReader") \o Do("send")
    [] kind = "sound" -> Do("connect") \o Do("start") \o Do("startHeartbeat")
    [] OTHER -> Do("start")

StopTasks ==
  CASE kind = "ptz" -> Do("report") \o Do("stopReader") \o Do("stop")
    [] kind = "sound" ->
         Do("stopHeartbeat") \o Do("joinHeartbeat") \o Do("close") \o Do("stop")
    [] OTHER -> Do("stop")

(* The destructors: the driver's, ~DeviceBase (Stop) and ~Thread. *)
DeleteTasks ==
  (IF kind = "sound" THEN StopTasks ELSE Do("close")) \o Do("stop") \o Do("endThread")

Init ==
  /\ kind \in Kinds
  /\ m_devState = "unknown"
  /\ m_shuttingDown = FALSE
  /\ m_statusCb = FALSE
  /\ note = [said |-> "unknown", state |-> "unknown"]
  /\ m_keepReading = FALSE
  /\ m_readThread = FALSE
  /\ reader = "none"
  /\ m_socket = "null"
  /\ m_state = "uninit"
  /\ m_thread = FALSE
  /\ m_eq = <<>>
  /\ worker = "none"
  /\ m_keepHeartbeat = FALSE
  /\ beat = "none"
  /\ todo = [t \in Actors |-> <<>>]
  /\ phase = "new"
  /\ packets = 0
  /\ beats = 0

(* The step thread t is at, its argument, and going on with tasks first.
   Nobody takes a step in a program that has crashed. *)
Crashed == phase = "crashed"
Step(t) == IF Crashed \/ todo[t] = <<>> THEN "none" ELSE Head(todo[t])[1]
Arg(t) == Head(todo[t])[2]
GoOn(t, tasks) == todo' = [todo EXCEPT ![t] = tasks \o Tail(@)]

-----------------------------------------------------------------------------
(* SetState                                                                *)

Refused(t) == m_shuttingDown /\ Arg(t) # "offline"

Tell(state) ==
  note' = IF m_statusCb THEN [said |-> state, state |-> m_devState] ELSE note

(* Mutant of SetState: it tells the new state before it is assigned. *)
SetStateTellsFirst(t) ==
  /\ Step(t) = "set"
  /\ \/ /\ Refused(t)
        /\ GoOn(t, <<>>)
        /\ UNCHANGED note
     \/ /\ ~Refused(t)
        /\ <<m_devState, Arg(t)>> \notin Transitions
        /\ Tell(Arg(t))
        /\ GoOn(t, <<>>)
     \/ /\ ~Refused(t)
        /\ <<m_devState, Arg(t)>> \in Transitions
        /\ GoOn(t, IF m_devState = Arg(t) THEN <<>>
                   ELSE <<<<"tell", Arg(t)>>, <<"assign", Arg(t)>>>> \o Do("enter"))
        /\ UNCHANGED note
  /\ UNCHANGED <<m_devState, m_shuttingDown, m_statusCb, readerVars, m_socket,
                 threadVars, driverVars, envVars>>

(* Mutant of SetState: transitions are not validated. *)
SetStateUnchecked(t) ==
  /\ Step(t) = "set"
  /\ \/ /\ Refused(t)
        /\ GoOn(t, <<>>)
     \/ /\ ~Refused(t)
        /\ GoOn(t, IF m_devState = Arg(t) THEN <<>>
                   ELSE <<<<"assign", Arg(t)>>>> \o Do("enter") \o <<<<"tell", Arg(t)>>>>)
  /\ UNCHANGED <<stateVars, readerVars, m_socket, threadVars, driverVars, envVars>>

(* Up to the assignment: refused while shutting down, told but not made when
   the transition is not valid, nothing when it is the same state. *)
SetState(t) ==
  /\ Step(t) = "set"
  /\ \/ /\ Refused(t)
        /\ GoOn(t, <<>>)
        /\ UNCHANGED note
     \/ /\ ~Refused(t)
        /\ <<m_devState, Arg(t)>> \notin Transitions
        /\ Tell(Arg(t))
        /\ GoOn(t, <<>>)
     \/ /\ ~Refused(t)
        /\ <<m_devState, Arg(t)>> \in Transitions
        /\ GoOn(t, IF m_devState = Arg(t) THEN <<>>
                   ELSE <<<<"assign", Arg(t)>>>> \o Do("enter") \o <<<<"tell", Arg(t)>>>>)
        /\ UNCHANGED note
  /\ UNCHANGED <<m_devState, m_shuttingDown, m_statusCb, readerVars, m_socket,
                 threadVars, driverVars, envVars>>

Assign(t) ==
  /\ Step(t) = "assign"
  /\ m_devState' = Arg(t)
  /\ GoOn(t, <<>>)
  /\ UNCHANGED <<m_shuttingDown, m_statusCb, note, readerVars, m_socket,
                 threadVars, driverVars, envVars>>

(* OnStateEnter reads m_devState again. *)
OnStateEnter(t) ==
  /\ Step(t) = "enter"
  /\ GoOn(t, CASE m_devState = "online" -> Do("startReader")
               [] m_devState \in {"offline", "error"} -> Do("stopReader")
               [] OTHER -> <<>>)
  /\ UNCHANGED <<stateVars, readerVars, m_socket, threadVars, driverVars, envVars>>

TellState(t) ==
  /\ Step(t) = "tell"
  /\ Tell(Arg(t))
  /\ GoOn(t, <<>>)
  /\ UNCHANGED <<m_devState, m_shuttingDown, m_statusCb, readerVars, m_socket,
                 threadVars, driverVars, envVars>>

-----------------------------------------------------------------------------
(* StartReader, StopReader and ReadLoop                                    *)

StartReader(t) ==
  /\ Step(t) = "startReader"
  /\ GoOn(t, IF m_keepReading THEN <<>> ELSE Do("spawnReader"))
  /\ m_keepReading' = TRUE
  /\ UNCHANGED <<stateVars, m_readThread, reader, m_socket, threadVars, driverVars, envVars>>

SpawnReader(t) ==
  /\ Step(t) = "spawnReader"
  /\ m_readThread' = TRUE
  /\ reader' = "looping"
  /\ GoOn(t, <<>>)
  /\ UNCHANGED <<stateVars, m_keepReading, m_socket, threadVars, driverVars, envVars>>

StopReader(t) ==
  /\ Step(t) = "stopReader"
  /\ m_keepReading' = FALSE
  /\ GoOn(t, IF m_readThread THEN Do("joinReader") \o Do("dropReader") ELSE <<>>)
  /\ UNCHANGED <<stateVars, m_readThread, reader, m_socket, threadVars, driverVars, envVars>>

(* Two threads in join() of one std::thread, or join() through the pointer the
   other one has reset: undefined, so the program may end here. *)
JoinClash(t) ==
  ~m_readThread \/ \E u \in Actors \ {t} : Step(u) \in {"joinReader", "dropReader"}

(* Mutant of JoinReader: it does not wait. *)
JoinReaderAtOnce(t) ==
  /\ Step(t) = "joinReader"
  /\ \/ GoOn(t, <<>>) /\ UNCHANGED phase
     \/ JoinClash(t) /\ phase' = "crashed" /\ UNCHANGED todo
  /\ UNCHANGED <<stateVars, readerVars, m_socket, threadVars, driverVars, packets, beats>>

JoinReader(t) ==
  /\ Step(t) = "joinReader"
  /\ \/ reader = "done" /\ GoOn(t, <<>>) /\ UNCHANGED phase
     \/ JoinClash(t) /\ phase' = "crashed" /\ UNCHANGED todo
  /\ UNCHANGED <<stateVars, readerVars, m_socket, threadVars, driverVars, packets, beats>>

DropReader(t) ==
  /\ Step(t) = "dropReader"
  /\ m_readThread' = FALSE
  /\ GoOn(t, <<>>)
  /\ UNCHANGED <<stateVars, m_keepReading, reader, m_socket, threadVars, driverVars, envVars>>

(* ReadLoop: it ends when m_keepReading is reset; while online it reads (ReadRaw
   returns with data, a timeout or an error) and hands the data on. *)
ReadLoop ==
  /\ ~Crashed
  /\ \/ reader = "looping" /\ ~m_keepReading /\ reader' = "done"
     \/ reader = "looping" /\ m_keepReading /\ IsOnline /\ reader' = "reading"
     \/ reader = "reading" /\ reader' = "looping"
  /\ UNCHANGED <<stateVars, m_keepReading, m_readThread, m_socket, threadVars,
                 driverVars, todo, envVars>>

-----------------------------------------------------------------------------
(* Connect and the Send... calls of the drivers                            *)

WriteAfter(step) == IF step = "send" THEN Do("write") ELSE <<>>

(* Connect, by itself or at the head of a Send... call: an open connection is
   kept, else a new socket is opened. *)
Connect(t) ==
  /\ Step(t) \in {"connect", "send"}
  /\ GoOn(t, IF IsOnline /\ m_socket = "open"
             THEN WriteAfter(Step(t))
             ELSE SetTo("connecting") \o <<<<"open", Step(t)>>>>)
  /\ UNCHANGED <<stateVars, readerVars, m_socket, threadVars, driverVars, envVars>>

(* The new TcpSocket's open() succeeds or throws; with no connection nothing
   is written. *)
Open(t) ==
  /\ Step(t) = "open"
  /\ \/ m_socket' = "open" /\ GoOn(t, SetTo("online") \o WriteAfter(Arg(t)))
     \/ m_socket' = "closed" /\ GoOn(t, SetTo("offline"))
  /\ UNCHANGED <<stateVars, readerVars, threadVars, driverVars, envVars>>

(* Mutant of Write: after a failure the socket is left open. *)
WriteKeepsSocket(t) ==
  /\ Step(t) = "write"
  /\ \/ m_socket = "open" /\ GoOn(t, <<>>)
     \/ GoOn(t, SetTo("error"))
  /\ UNCHANGED <<stateVars, readerVars, m_socket, threadVars, driverVars, envVars>>

(* write() succeeds or throws; it throws on a closed socket. *)
Write(t) ==
  /\ Step(t) = "write"
  /\ \/ m_socket = "open" /\ GoOn(t, <<>>)
     \/ GoOn(t, SetTo("error") \o Do("close"))
  /\ UNCHANGED <<stateVars, readerVars, m_socket, threadVars, driverVars, envVars>>

Close(t) ==
  /\ Step(t) = "close"
  /\ m_socket' = IF m_socket = "null" THEN "null" ELSE "closed"
  /\ GoOn(t, <<>>)
  /\ UNCHANGED <<stateVars, readerVars, threadVars, driverVars, envVars>>

-----------------------------------------------------------------------------
(* The owner: Start, Stop, delete                                          *)

(* DeviceBase::Start *)
ThreadStart ==
  /\ Step("owner") = "start"
  /\ IF m_state = "uninit" /\ ~m_thread
       THEN m_thread' = TRUE /\ worker' = "entering"
       ELSE UNCHANGED <<m_thread, worker>>
  /\ GoOn("owner", <<>>)
  /\ UNCHANGED <<stateVars, readerVars, m_socket, m_state, m_eq, driverVars, envVars>>

(* DeviceBase::Stop, and ~Thread: quit() and join() when there is something to
   stop; DeviceBase then goes OFFLINE. *)
BaseStop ==
  /\ Step("owner") \in {"stop", "endThread"}
  /\ LET stops == m_state = "running" \/ m_thread
         base == Step("owner") = "stop"
     IN /\ m_shuttingDown' = (m_shuttingDown \/ (stops /\ base))
        /\ GoOn("owner",
             (IF stops THEN Do("quit") \o Do("join") ELSE <<>>) \o
             (IF stops /\ base THEN SetTo("offline") ELSE <<>>))
  /\ UNCHANGED <<m_devState, m_statusCb, note, readerVars, m_socket, threadVars,
                 driverVars, envVars>>

(* quit(): its test, its post, its assignment. *)
QuitTest ==
  /\ Step("owner") = "quit"
  /\ GoOn("owner", IF m_thread /\ m_state = "running"
                   THEN Do("quitPost") \o Do("quitMark") ELSE <<>>)
  /\ UNCHANGED <<stateVars, readerVars, m_socket, threadVars, driverVars, envVars>>

(* Mutant of QuitPost: the Quit event is not posted. *)
QuitPostNothing ==
  /\ Step("owner") = "quitPost"
  /\ GoOn("owner", <<>>)
  /\ UNCHANGED <<stateVars, readerVars, m_socket, threadVars, driverVars, envVars>>

QuitPost ==
  /\ Step("owner") = "quitPost"
  /\ m_eq' = Append(m_eq, "quit")
  /\ GoOn("owner", <<>>)
  /\ UNCHANGED <<stateVars, readerVars, m_socket, m_state, m_thread, worker,
                 driverVars, envVars>>

QuitMark ==
  /\ Step("owner") = "quitMark"
  /\ m_state' = "quit"
  /\ GoOn("owner", <<>>)
  /\ UNCHANGED <<stateVars, readerVars, m_socket, m_thread, m_eq, worker, driverVars,
                 envVars>>

(* Mutant of Join: it does not wait. *)
JoinAtOnce ==
  /\ Step("owner") = "join"
  /\ m_thread' = FALSE
  /\ GoOn("owner", <<>>)
  /\ UNCHANGED <<stateVars, readerVars, m_socket, m_state, m_eq, worker, driverVars,
                 envVars>>

Join ==
  /\ Step("owner") = "join"
  /\ m_thread => worker = "done"
  /\ m_thread' = FALSE
  /\ GoOn("owner", <<>>)
  /\ UNCHANGED <<stateVars, readerVars, m_socket, m_state, m_eq, worker, driverVars,
                 envVars>>

(* PTZ Stop: the report is switched off only while online. *)
StopReport ==
  /\ Step("owner") = "report"
  /\ GoOn("owner", IF IsOnline THEN Do("send") ELSE <<>>)
  /\ UNCHANGED <<stateVars, readerVars, m_socket, threadVars, driverVars, envVars>>

StartHeartbeat ==
  /\ Step("owner") = "startHeartbeat"
  /\ m_keepHeartbeat' = TRUE
  /\ beat' = "looping"
  /\ GoOn("owner", <<>>)
  /\ UNCHANGED <<stateVars, readerVars, m_socket, threadVars, kind, envVars>>

StopHeartbeat ==
  /\ \/ /\ Step("owner") = "stopHeartbeat"
        /\ m_keepHeartbeat' = FALSE
     \/ /\ Step("owner") = "joinHeartbeat"
        /\ beat \in {"none", "done"}
        /\ UNCHANGED m_keepHeartbeat
  /\ GoOn("owner", <<>>)
  /\ UNCHANGED <<stateVars, readerVars, m_socket, threadVars, kind, beat, envVars>>

(* HeartbeatLoop: every 30 seconds it posts a heartbeat if the device is
   online; the test and the post are two steps. *)
HeartbeatLoop ==
  /\ ~Crashed
  /\ \/ /\ beat = "looping" /\ ~m_keepHeartbeat
        /\ beat' = "done"
        /\ UNCHANGED <<m_eq, beats>>
     \/ /\ beat = "looping" /\ m_keepHeartbeat /\ IsOnline
        /\ beats < MaxBeats
        /\ beat' = "posting"
        /\ UNCHANGED <<m_eq, beats>>
     \/ /\ beat = "posting"
        /\ m_eq' = Append(m_eq, "heartbeat")
        /\ beats' = beats + 1
        /\ beat' = "looping"
  /\ UNCHANGED <<stateVars, readerVars, m_socket, m_state, m_thread, worker,
                 kind, m_keepHeartbeat, todo, phase, packets>>

-----------------------------------------------------------------------------
(* The worker: innerRun and DeviceBase::run                                *)

(* m_state's assignments at both ends of innerRun, and the test of the loop. *)
WorkerLoop ==
  /\ ~Crashed
  /\ \/ /\ worker = "entering"
        /\ m_state' = "running" /\ worker' = "testing"
     \/ /\ worker = "testing"
        /\ worker' = IF m_state = "running" THEN "popping" ELSE "leaving"
        /\ UNCHANGED m_state
     \/ /\ worker = "handling" /\ todo["worker"] = <<>>
        /\ worker' = "testing"
        /\ UNCHANGED m_state
     \/ /\ worker = "leaving"
        /\ m_state' = "stopped" /\ worker' = "done"
  /\ UNCHANGED <<stateVars, readerVars, m_socket, m_thread, m_eq, driverVars, todo, envVars>>

WorkerPop ==
  /\ ~Crashed
  /\ worker = "popping"
  /\ m_eq # <<>>
  /\ m_eq' = Tail(m_eq)
  /\ IF Head(m_eq) = "quit"
       THEN worker' = "leaving" /\ UNCHANGED todo
       ELSE /\ worker' = "handling"
            /\ todo' = [todo EXCEPT !["worker"] = Do(Head(m_eq))]
  /\ UNCHANGED <<stateVars, readerVars, m_socket, m_state, m_thread, driverVars, envVars>>

(* A packet is rejected unless the device is online; its handler makes one
   Send... call, or none (another kind of device, no handler).  A heartbeat is
   sent in any state. *)
Dispatch ==
  /\ Step("worker") \in {"packet", "heartbeat"}
  /\ \/ IsOnline /\ GoOn("worker", Do("send"))
     \/ Step("worker") = "heartbeat" /\ GoOn("worker", Do("send"))
     \/ Step("worker") = "packet" /\ GoOn("worker", <<>>)
  /\ UNCHANGED <<stateVars, readerVars, m_socket, threadVars, driverVars, envVars>>

-----------------------------------------------------------------------------
(* The owner's calls, and the SDK's users                                  *)

(* The owner begins its next call when the last one has returned.  Init fails
   on an invalid ID: the object is then deleted, otherwise it is started. *)
Call ==
  /\ todo["owner"] = <<>>
  /\ \E step \in {<<"new", "init", InitTasks>>, <<"new", "delete", DeleteTasks>>,
                  <<"init", "start", StartTasks>>, <<"start", "stop", StopTasks>>,
                  <<"stop", "delete", DeleteTasks>>} :
       /\ phase = step[1]
       /\ phase' = step[2]
       /\ todo' = [todo EXCEPT !["owner"] = step[3]]
  /\ UNCHANGED <<stateVars, readerVars, m_socket, threadVars, driverVars, packets, beats>>

Started == phase = "start" /\ todo["owner"] = <<>>

SetStatusCallback ==
  /\ Started
  /\ ~m_statusCb
  /\ m_statusCb' = TRUE
  /\ UNCHANGED <<m_devState, m_shuttingDown, note, readerVars, m_socket, threadVars,
                 driverVars, todo, envVars>>

ExecutePacket ==
  /\ Started
  /\ packets < MaxPackets
  /\ packets' = packets + 1
  /\ m_eq' = Append(m_eq, "packet")
  /\ UNCHANGED <<stateVars, readerVars, m_socket, m_state, m_thread, worker, driverVars,
                 todo, phase, beats>>

-----------------------------------------------------------------------------
(* What both the owner and the worker may be doing. *)
Body(t) ==
  \/ SetState(t) \/ Assign(t) \/ OnStateEnter(t) \/ TellState(t)
  \/ StartReader(t) \/ SpawnReader(t) \/ StopReader(t) \/ JoinReader(t) \/ DropReader(t)
  \/ Connect(t) \/ Open(t) \/ Write(t) \/ Close(t)

OwnerStep ==
  \/ Body("owner")
  \/ ThreadStart \/ BaseStop \/ QuitTest \/ QuitPost \/ QuitMark \/ Join
  \/ StopReport \/ StartHeartbeat \/ StopHeartbeat

WorkerStep == Body("worker") \/ WorkerLoop \/ WorkerPop \/ Dispatch

Next ==
  \/ OwnerStep \/ WorkerStep \/ ReadLoop \/ HeartbeatLoop
  \/ Call \/ SetStatusCallback \/ ExecutePacket

Safety == Init /\ [][Next]_vars

(* Every thread is scheduled, and a read ends (its timeout); the owner need not
   begin a call, nor anybody use the device. *)
Spec ==
  /\ Safety
  /\ WF_vars(OwnerStep)
  /\ WF_vars(WorkerStep)
  /\ WF_vars(ReadLoop)
  /\ WF_vars(HeartbeatLoop)

-----------------------------------------------------------------------------
(* Properties                                                              *)

Steps ==
  {"set", "assign", "enter", "tell", "startReader", "spawnReader", "stopReader",
   "joinReader", "dropReader", "connect", "send", "open", "write", "close",
   "start", "stop", "endThread", "quit", "quitPost", "quitMark", "join",
   "report", "startHeartbeat", "stopHeartbeat", "joinHeartbeat",
   "packet", "heartbeat"}
Args == {"", "connect", "send"} \cup DevStates

(* Every variable stays in its type, and a thread that enters a state on its
   way through SetState is handed a state. *)
TypeOK ==
  /\ kind \in Kinds
  /\ m_devState \in DevStates
  /\ m_shuttingDown \in BOOLEAN
  /\ m_statusCb \in BOOLEAN
  /\ note \in [said : DevStates, state : DevStates]
  /\ m_keepReading \in BOOLEAN
  /\ m_readThread \in BOOLEAN
  /\ reader \in {"none", "looping", "reading", "done"}
  /\ m_socket \in {"null", "open", "closed"}
  /\ m_state \in {"uninit", "running", "quit", "stopped"}
  /\ m_thread \in BOOLEAN
  /\ m_eq \in Seq({"packet", "heartbeat", "quit"})
  /\ worker \in {"none", "entering", "testing", "popping", "handling", "leaving", "done"}
  /\ m_keepHeartbeat \in BOOLEAN
  /\ beat \in {"none", "looping", "posting", "done"}
  /\ todo \in [Actors -> Seq(Steps \X Args)]
  /\ \A t \in Actors : Step(t) \in {"set", "assign", "tell"} => Arg(t) \in DevStates
  /\ phase \in {"new", "init", "start", "stop", "delete", "crashed"}
  /\ packets \in 0..MaxPackets
  /\ beats \in 0..MaxBeats

(* Whoever calls SetState, and whatever the other thread does between its test
   of the transition and its assignment, m_devState only moves along the
   transitions of IsValidStateTransition. *)
LegalTransitions == [][(<<m_devState, m_devState'>> \in Transitions)]_vars

(* The status callback is told the state the device is in, though the owner
   may stop the device between the worker's assignment of a state and the call.
   PTZ and loudspeaker are left out: a Connect that begins in ERROR, in PTZ's
   Stop or by a queued heartbeat, tells of states that SetState refuses
   (DeviceBase.cpp:124). *)
NoteMatchesState == kind \notin {"ptz", "sound"} => note.said = note.state

(* No thread is in the middle of a call. *)
Quiet == \A t \in Actors : todo[t] = <<>>

(* Between calls the reader runs exactly while the device is online: no device
   is online and deaf, or offline with a thread that polls. *)
ReaderFollowsState ==
  Quiet => /\ m_keepReading <=> IsOnline
           /\ m_readThread <=> m_keepReading
           /\ reader \in {"looping", "reading"} <=> m_readThread

(* Between calls an online device has an open socket, and one in error has
   closed it.  The loudspeaker is left out: a heartbeat queued before an error
   opens the socket again, and SetState refuses the state that goes with it.
   (With the types of the variables.) *)
SocketFollowsState ==
  /\ TypeOK
  /\ Quiet /\ kind # "sound" =>
       /\ IsOnline => m_socket = "open"
       /\ m_devState = "error" => m_socket # "open"

(* The two together: what a device says of its state, its socket and its reader
   bear out. *)
ResourcesFollowState == SocketFollowsState /\ ReaderFollowsState

(* After Stop the device is OFFLINE and none of its threads runs, so delete
   pulls nothing from under a running thread. *)
NothingOutlivesStop ==
  (phase = "stop" /\ todo["owner"] = <<>>) \/ (phase = "delete" /\ m_state # "uninit")
    => /\ m_devState = "offline"
       /\ worker = "done" /\ ~m_thread
       /\ reader \in {"none", "done"} /\ ~m_readThread
       /\ beat \in {"none", "done"}

(* Stop returns when its quit() was not a no-op, whatever the worker was doing:
   connecting, failing, or joining the reader - unless the program crashed on
   two joins of the reader. *)
QuitEnds ==
  Step("owner") = "quitPost" ~> (phase = "stop" /\ todo["owner"] = <<>>) \/ Crashed

(* The call the owner is in, or was in when the program crashed. *)
OwnerCall == IF todo["owner"] = <<>> THEN "none" ELSE Head(todo["owner"])[1]

(* The device implements the life of its Thread. *)
Lifecycle == INSTANCE ThreadLifecycle WITH
  MaxPosts <- MaxPackets + MaxBeats,
  m_eq <- [i \in 1..Len(m_eq) |-> IF m_eq[i] = "quit" THEN "quit" ELSE "work"],
  owner <- CASE OwnerCall = "quit" -> "quitting"
             [] OwnerCall = "quitPost" -> "posting"
             [] OwnerCall = "quitMark" -> "marking"
             [] OwnerCall = "join" -> "joining"
             [] OTHER -> "idle",
  posts <- packets + beats,
  quitPosted <- worker \in {"leaving", "done"} \/ \E i \in 1..Len(m_eq) : m_eq[i] = "quit"
ImplementsLifecycle == Lifecycle!Safety

(* The reader is stopped by Start and Stop, one thread at a time
   (DeviceBase.h:114).  Fails: PTZ's Stop and the worker that meets an error
   both join it. *)
OneJoiner ==
  \A t, u \in Actors :
    Step(t) \in {"joinReader", "dropReader"} /\ Step(u) \in {"joinReader", "dropReader"}
      => t = u
=============================================================================
