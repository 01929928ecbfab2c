---------------------------- MODULE DeviceProofs ----------------------------
(***************************************************************************)
(* The device's invariants, proved for every number of packets and         *)
(* heartbeats.                                                             *)
(*                                                                         *)
(* What two threads may do to a device depends on what each of them has    *)
(* still to do, so the inductive invariant speaks of todo.  Its first half *)
(* is the order of the tasks: they are nested calls, so behind a task only *)
(* the rest of the calls it is in can wait (InOrder).  Its second half     *)
(* (Known) relates the tasks to the rest of the state, one fact at a time. *)
(*                                                                         *)
(* A step takes the first task of a thread and puts others before the      *)
(* rest.  Moved says what that does to both threads in terms of sets of    *)
(* tasks; with it each action's lemma shows the parts of the invariant.    *)
(***************************************************************************)
EXTENDS Device, SequenceTheorems, TLAPS

(* Tasks by name and argument.  The steps that take no argument; *)
Plain == Steps \ {"set", "assign", "tell", "open"}
(* a task is a step and its argument, *)
T(s) == <<s, "">>
Setting(s) == <<"set", s>>
Assigning(s) == <<"assign", s>>
Telling(s) == <<"tell", s>>
Opening(s) == <<"open", s>>
Name(x) == x[1]
Of(x) == x[2]
Valid(p, s) == <<p, s>> \in Transitions
(* The states that SetState is ever called with. *)
Made == DevStates \ {"unknown", "working"}
(* What can be in todo.  WORKING is never set, and UNKNOWN only the first
   state. *)
Tasks ==
  {T(s) : s \in Plain} \cup {Opening(s) : s \in {"connect", "send"}} \cup
  {Setting(s) : s \in Made} \cup {Assigning(s) : s \in Made} \cup {Telling(s) : s \in Made}

(* The members of a sequence; what thread t has still to do, and what of it
   behind the task at hand. *)
Items(s) == {s[i] : i \in 1..Len(s)}
Pending(t) == Items(todo[t])
Rest(t) == IF todo[t] = <<>> THEN {} ELSE Items(Tail(todo[t]))
(* Thread t is in the middle of a call; it is at task x; it has step s to
   do. *)
Busy(t) == Pending(t) # {}
At(t, x) == Busy(t) /\ Head(todo[t]) = x
Has(t, s) == T(s) \in Pending(t)
(* Thread t is about to reach state s, or to open a socket. *)
Reaching(t, s) == Setting(s) \in Pending(t) \/ Assigning(s) \in Pending(t)
HasOpen(t) == Opening("connect") \in Pending(t) \/ Opening("send") \in Pending(t)

(* The types of the variables, with the tasks that a thread can have; a
   heartbeat is posted only within the bound. *)
Types ==
  /\ kind \in Kinds
  /\ m_devState \in DevStates \ {"working"}
  /\ m_shuttingDown \in BOOLEAN
  /\ m_statusCb \in BOOLEAN
  /\ note \in [said : DevStates, state : DevStates]
  /\ m_keepReading \in BOOLEAN
  /\ m_readThread \in BOOLEAN
  /\ reader \in {"none", "looping", "reading", "done"}
  /\ m_socket \in {"null", "open", "closed"}
  /\ m_state \in {"uninit", "running", "quit", "stopped"}
  /\ m_thread \in BOOLEAN
  /\ m_eq \in Seq({"packet", "heartbeat", "quit"})
  /\ worker \in {"none", "entering", "testing", "popping", "handling", "leaving", "done"}
  /\ m_keepHeartbeat \in BOOLEAN
  /\ beat \in {"none", "looping", "posting", "done"}
  /\ todo \in [Actors -> Seq(Tasks)]
  /\ phase \in {"new", "init", "start", "stop", "delete", "crashed"}
  /\ packets \in 0..MaxPackets
  /\ beats \in 0..MaxBeats
  /\ beat = "posting" => beats < MaxBeats

(* What a driver's Start and Stop do after the call they are in has
   returned; what is left to tell, to open, and once quit() has begun. *)
StartOuter == {T("start"), T("startReader"), T("send"), T("startHeartbeat")}
StopEnd == {T("stopReader"), T("stop")}
StopOuter == {T("joinHeartbeat"), T("close")} \cup StopEnd
Tells == {Telling(s) : s \in Made}
Opens == {Opening("connect"), Opening("send")}
AfterQuit == {T("join"), Setting("offline")} \cup StopOuter

(* What may be left to do after the state s has been reached: the rest of
   the call that sets it. *)
After(s) ==
  CASE s = "initialized" -> {T("connect")}
    [] s = "connecting" -> Opens \cup StartOuter \cup StopEnd
    [] s = "online" -> {T("write")} \cup StartOuter \cup StopEnd
    [] s = "error" -> {T("close")} \cup StopEnd
    [] OTHER -> StartOuter \cup StopEnd
AnyAfter == Opens \cup {T("write"), T("connect")} \cup StartOuter \cup StopOuter

(* What may wait behind the task x. *)
Later(x) ==
  CASE Name(x) \in {"set", "tell"} -> After(Of(x))
    [] Name(x) = "assign" -> {T("enter"), Telling(Of(x))} \cup After(Of(x))
    [] Name(x) \in {"enter", "startReader", "spawnReader", "stopReader", "dropReader"} ->
         Tells \cup AnyAfter
    [] Name(x) = "joinReader" -> {T("dropReader")} \cup Tells \cup AnyAfter
    [] Name(x) = "connect" \/ x = Opening("connect") -> StartOuter
    [] Name(x) = "start" -> StartOuter \ {T("start")}
    [] Name(x) \in {"send", "write", "close", "report"} \/ x = Opening("send") -> StopEnd
    [] Name(x) \in {"stopHeartbeat", "joinHeartbeat"} -> StopOuter
    [] Name(x) \in {"quit", "quitMark"} -> AfterQuit
    [] Name(x) = "quitPost" -> {T("quitMark")} \cup AfterQuit
    [] Name(x) = "join" -> {Setting("offline")} \cup StopOuter
    [] OTHER -> {}

(* What may wait behind a task of thread t at all: for the worker only the
   rest of its own calls, for the owner also that of Init, Start or Stop. *)
Inner ==
  {T("enter"), T("dropReader"), T("write"), T("close"), Opening("send")} \cup Tells
Rests(t) ==
  IF t = "worker" THEN Inner
  ELSE CASE phase = "init" -> Inner \cup {Opening("connect"), T("connect")}
         [] phase = "start" -> Inner \cup {Opening("connect")} \cup StartOuter
         [] phase = "stop" -> Inner \cup {T("quitMark"), T("join"), Setting("offline")} \cup StopOuter
         [] OTHER -> {}

(* A thread's tasks are nested calls: what waits behind each of them is
   what may.  (Deletes are left out: nothing that matters waits there.) *)
Sorted(s, R) ==
  \A i, j \in 1..Len(s) : i < j => s[j] \in Later(s[i]) \cap R
InOrder == phase # "delete" => \A t \in Actors : Sorted(todo[t], Rests(t))

(* A thread is live while it has a task that may change the device's state. *)
Setters == {"connect", "send", "open", "write", "set", "assign"}
Live(t) == \E x \in Pending(t) : Name(x) \in Setters

(* The owner is still in Init or Start; the device is in use, by a running
   worker; and the same for the drivers that NoteMatchesState and
   SocketFollowsState speak of. *)
Starting == phase \in {"new", "init"} \/ (phase = "start" /\ Busy("owner"))
InUse == phase = "stop" \/ (phase = "start" /\ ~Busy("owner"))
Used == InUse /\ kind # "sound"

-----------------------------------------------------------------------------
(* The threads                                                             *)

(* Where the worker is tells m_state and m_thread: none before Start, not
   running when done. *)
WorkerKnown ==
  /\ worker = "none" <=> (m_state = "uninit" /\ ~m_thread)
  /\ worker = "entering" <=> (m_state = "uninit" /\ m_thread)
  /\ worker \notin {"none", "done"} => m_thread
  /\ worker = "done" => m_state # "running"
  /\ worker \in {"testing", "popping", "handling", "leaving"} => m_state # "stopped"
(* Only a worker that handles an event has tasks. *)
WorkerHandles == Busy("worker") => worker = "handling"
(* quit() posts its event and marks m_state only when the worker has begun
   to run. *)
QuitHasWorker ==
  Has("owner", "quitPost") \/ Has("owner", "quitMark") => worker \notin {"none", "entering"}

(* The steps that only the owner takes. *)
OwnerOnly ==
  {"connect", "start", "startHeartbeat", "stop", "endThread", "report", "stopHeartbeat",
   "joinHeartbeat", "quit", "quitPost", "quitMark", "join"}
(* Which of the owner's calls each of its steps belongs to, and of which
   drivers. *)
OwnerTasks ==
  /\ Has("owner", "connect") => phase \in {"init", "start"}
  /\ Has("owner", "start") => phase = "start"
  /\ Has("owner", "startHeartbeat") => phase = "start" /\ kind = "sound"
  /\ Has("owner", "report") => phase = "stop" /\ kind = "ptz"
  /\ Has("owner", "send") => phase \in {"start", "stop"} /\ kind = "ptz"
  /\ Has("owner", "stopHeartbeat") \/ Has("owner", "joinHeartbeat") =>
       phase \in {"stop", "delete"} /\ kind = "sound"
  /\ Has("owner", "stop") => phase \in {"stop", "delete"}
  /\ Has("owner", "endThread") => phase = "delete"
  /\ Reaching("owner", "initialized") => phase = "init" /\ m_devState = "unknown"
(* The worker takes none of the owner's steps, and never goes to
   INITIALIZED. *)
WorkerTasks ==
  /\ \A s \in OwnerOnly : ~Has("worker", s)
  /\ ~Reaching("worker", "initialized")

(* A new device is UNKNOWN, without reader. *)
NewKnown ==
  phase = "new" => /\ m_devState = "unknown" /\ ~Busy("owner")
                   /\ reader = "none" /\ ~m_readThread /\ ~m_keepReading
(* Until Start has returned the owner is alone: no event, no heartbeat, no
   worker's call, no callback. *)
StartsAlone == Starting => m_eq = <<>> /\ beat = "none" /\ ~Busy("worker") /\ ~m_statusCb
(* Nothing is refused before Stop. *)
NotYetShutting == phase \in {"new", "init", "start"} => ~m_shuttingDown
(* Init starts no thread. *)
NotYetStarted == phase \in {"new", "init"} => worker = "none"
(* In Start the worker's thread exists exactly when its step has been
   taken. *)
StartedOnce ==
  phase = "start" => /\ Has("owner", "start") <=> worker = "none"
                     /\ Has("owner", "start") <=> ~m_thread

(* What the owner does while it waits for the worker; what it does before,
   in the Stop of a driver other than PTZ. *)
Leaving == {T("quit"), T("quitPost"), T("quitMark"), T("join"), Setting("offline")}
Calm == {T("stopHeartbeat"), T("joinHeartbeat"), T("close"), T("stop")}
(* Whoever quits joins. *)
QuitThenJoin ==
  Has("owner", "quit") \/ Has("owner", "quitPost") \/ Has("owner", "quitMark")
    => Has("owner", "join")
(* While join() is to come the thread exists, SetState refuses all but
   OFFLINE, and OFFLINE is to come too. *)
JoinKnown ==
  Has("owner", "join") =>
    /\ phase = "stop" /\ m_thread /\ m_shuttingDown
    /\ Setting("offline") \in Pending("owner") /\ Pending("owner") \subseteq Leaving
(* Stop is before DeviceBase::Stop, between quit() and join(), or past the
   join: then the worker is done and the device OFFLINE or about to be. *)
StopSteps ==
  phase = "stop" =>
    \/ Has("owner", "stop") /\ m_thread /\ ~m_shuttingDown /\ ~Has("owner", "join")
    \/ Has("owner", "join") /\ ~Has("owner", "stop")
    \/ /\ ~Has("owner", "stop") /\ ~Has("owner", "join")
       /\ worker = "done" /\ ~m_thread /\ m_shuttingDown
       /\ m_devState = "offline" \/ Reaching("owner", "offline")
(* Past the beginning of DeviceBase::Stop the owner only goes OFFLINE. *)
StopSets ==
  phase = "stop" /\ ~Has("owner", "stop") =>
    \A x \in Pending("owner") : Name(x) \in Setters => x \in {Setting("offline"), Assigning("offline")}
(* Before it the Stop of a driver other than PTZ sets no state. *)
StopIsCalm ==
  phase = "stop" /\ kind # "ptz" /\ Has("owner", "stop") => Pending("owner") \subseteq Calm
(* The heartbeat's thread is over once it has been joined. *)
BeatJoined == phase = "stop" /\ beat \notin {"none", "done"} => Has("owner", "joinHeartbeat")
(* What a delete does. *)
Ending == {T("stopHeartbeat"), T("joinHeartbeat"), T("close"), T("stop"), T("endThread")}
(* A delete finds the device stopped, or never initialised, with no thread
   left. *)
DeleteKnown ==
  phase = "delete" =>
    /\ Pending("owner") \subseteq Ending
    /\ \/ worker = "none" /\ m_devState = "unknown"
       \/ worker = "done" /\ ~m_thread /\ m_devState = "offline"
    /\ ~m_readThread /\ ~m_keepReading /\ reader \in {"none", "done"} /\ beat \in {"none", "done"}
(* Only the loudspeaker has heartbeats. *)
OnlySoundBeats ==
  kind # "sound" =>
    /\ beat = "none" /\ ~Has("worker", "heartbeat")
    /\ \A i \in 1..Len(m_eq) : m_eq[i] # "heartbeat"

-----------------------------------------------------------------------------
(* m_devState                                                              *)

(* A thread's next task is one that leaves an online device online, or
   takes it to ERROR. *)
Gentle(t) ==
  At(t, T("send")) \/ At(t, T("write")) \/ At(t, Setting("error")) \/ At(t, Assigning("error"))

(* A state about to be assigned is one that IsValidStateTransition allows
   from m_devState now, not only when SetState tested it. *)
AssignsLegally == \A t \in Actors : \A s \in Made : At(t, Assigning(s)) => Valid(m_devState, s)
(* A device in use has been initialised, and is not left CONNECTING unless
   it is a loudspeaker. *)
UsedStates == /\ InUse => m_devState # "unknown"
              /\ Used => m_devState # "connecting"
(* A device in use is only assigned ERROR or OFFLINE, unless it is a
   loudspeaker. *)
UsedAssigns ==
  Used => \A t \in Actors : \A s \in Made : Assigning(s) \in Pending(t) => s \in {"error", "offline"}
(* While an online device is in use nobody connects it again. *)
OnlineIsGentle ==
  Used /\ IsOnline /\ ~m_shuttingDown => \A t \in Actors : Live(t) => Gentle(t)
(* In ERROR at most one thread is in a call that may change the state. *)
ErrorIsLone == Used /\ m_devState = "error" /\ ~m_shuttingDown => ~Live("owner") \/ ~Live("worker")
(* A device that is OFFLINE stays so: nobody is in a call that would take
   it elsewhere. *)
OfflineIsCalm ==
  Used /\ m_devState \in {"initialized", "offline"} =>
    ~Live("worker") /\ (~m_shuttingDown => ~Live("owner"))
(* The worker is in a call only while the device is online, except during
   PTZ's Stop. *)
OnlyOnline == Used /\ ~IsOnline /\ (kind # "ptz" \/ phase = "start") => ~Live("worker")
(* Who closes the socket has taken the device out of ONLINE, or is about
   to. *)
ClosesInError ==
  kind # "sound" /\ ~m_shuttingDown =>
    \A t \in Actors : Has(t, "close") => ~IsOnline \/ Reaching(t, "error")

(* After CONNECTING comes the open. *)
ConnectingOpens == \A t \in Actors : Reaching(t, "connecting") => HasOpen(t)
(* After ERROR comes the close. *)
ErrorCloses == \A t \in Actors : Reaching(t, "error") => Has(t, "close")

(* Start, alone, goes through the states in order. *)
StartSets ==
  Starting => \A s \in Made : At("owner", Setting(s)) => Valid(m_devState, s) /\ m_devState # s
(* Connect begins in INITIALIZED, *)
StartConnects ==
  Starting /\ Has("owner", "connect") => m_devState = "initialized" \/ Reaching("owner", "initialized")
(* open in CONNECTING, *)
StartOpens ==
  Starting /\ HasOpen("owner") => m_devState = "connecting" \/ Reaching("owner", "connecting")
(* write in ONLINE, *)
StartWrites ==
  Starting /\ Has("owner", "write") => m_devState = "online" \/ Reaching("owner", "online")
(* and PTZ's report once Connect has settled on ONLINE or OFFLINE. *)
StartSends ==
  Starting /\ (Has("owner", "send") \/ Has("owner", "startReader")) =>
    \/ m_devState \in {"offline", "online"}
    \/ Has("owner", "connect") \/ HasOpen("owner") \/ \E s \in Made : Reaching("owner", s)
(* Init and Start do not end in CONNECTING, nor Init in UNKNOWN. *)
StartStates ==
  Starting => /\ m_devState = "connecting" => Live("owner")
              /\ m_devState = "unknown" /\ phase # "new" => Reaching("owner", "initialized")
(* Init connects only the light. *)
InitSets ==
  phase = "init" /\ kind # "light" =>
    /\ m_devState \in {"unknown", "initialized"}
    /\ \A x \in Pending("owner") : Name(x) \in Setters => Of(x) = "initialized"

-----------------------------------------------------------------------------
(* The reader, the socket and the note                                     *)

(* After an assignment comes OnStateEnter. *)
AssignThenEnter == \A t \in Actors : \A s \in Made : Assigning(s) \in Pending(t) => Has(t, "enter")
(* After the join of the reader its pointer is reset. *)
JoinThenDrop == \A t \in Actors : Has(t, "joinReader") => Has(t, "dropReader")
(* A device in use goes online no more, so nobody starts its reader. *)
UsedStartsNoReader ==
  Used => \A t \in Actors :
    /\ ~Has(t, "startReader") /\ ~Has(t, "spawnReader")
    /\ Has(t, "enter") => ~IsOnline \/ \E s \in Made : Assigning(s) \in Pending(t)
(* A reader about to be spawned is wanted and is not there yet. *)
SpawnKnown == \A t \in Actors : Has(t, "spawnReader") => m_keepReading /\ ~m_readThread
(* The reader is started by whoever goes online, or by PTZ's Start. *)
StartReaderKnown ==
  \A t \in Actors :
    \/ At(t, T("startReader")) /\ ~IsOnline
    \/ T("startReader") \in Rest(t)
    => phase = "start" /\ kind = "ptz" /\ Has("owner", "send")
(* A reader about to be dropped is not wanted, and is over once it has been
   joined. *)
DropKnown ==
  \A t \in Actors : Has(t, "dropReader") => ~m_keepReading /\ (Has(t, "joinReader") \/ reader = "done")
(* The reader is stopped when the device is not online, except by PTZ's
   Stop. *)
StopReaderKnown == phase # "stop" => \A t \in Actors : Has(t, "stopReader") => ~IsOnline
(* A reader that is wanted and not there is about to be spawned, *)
KeepIsSpawned ==
  m_keepReading /\ ~m_readThread => Has("owner", "spawnReader") \/ Has("worker", "spawnReader")
(* and one that is there and not wanted is about to be dropped. *)
StopIsDropped ==
  ~m_keepReading /\ m_readThread => Has("owner", "dropReader") \/ Has("worker", "dropReader")
(* The reader runs while it is there and wanted; without m_readThread none
   runs. *)
ReaderRuns == /\ m_readThread /\ m_keepReading => reader \in {"looping", "reading"}
              /\ ~m_readThread => reader \in {"none", "done"}
(* An online device without reader is about to get one, *)
OnlineReads ==
  phase # "stop" /\ IsOnline /\ ~m_keepReading =>
    \E t \in Actors : Has(t, "enter") \/ Has(t, "startReader")
(* and a device that is not online is about to lose its reader (PTZ's Start
   starts it in any state, and its report brings the device online or stops
   the reader). *)
OfflineStops ==
  ~IsOnline /\ m_keepReading =>
    \/ \E t \in Actors : Has(t, "enter") \/ Has(t, "stopReader")
    \/ phase = "start" /\ kind = "ptz" /\ Live("owner")
(* Only PTZ's Start has the reader run before the device has been online. *)
DeafAtFirst ==
  m_keepReading =>
    /\ m_devState \notin {"unknown", "initialized"}
    /\ \/ m_devState = "connecting"
       \/ \E t \in Actors : Assigning("connecting") \in Pending(t)
       => phase = "start" /\ kind = "ptz" /\ Live("owner")

(* An online device has an open socket, *)
OnlineIsOpen == kind # "sound" /\ IsOnline /\ ~m_shuttingDown => m_socket = "open"
(* and so has one about to be online. *)
OpenThenOnline == kind # "sound" /\ Starting /\ Reaching("owner", "online") => m_socket = "open"
(* In ERROR the socket has been closed or is about to be. *)
ErrorIsClosed ==
  kind # "sound" /\ m_devState = "error" /\ m_socket = "open" =>
    phase = "stop" \/ \E t \in Actors : Has(t, "close")

(* What the callback was told is the state the device was in. *)
NoteIsState == kind \notin {"ptz", "sound"} => note.said = note.state
(* A state about to be told is the device's, or about to be. *)
TellsState ==
  kind \notin {"ptz", "sound"} /\ InUse => \A t \in Actors : \A s \in Made :
    Telling(s) \in Pending(t) => m_devState = s \/ Assigning(s) \in Pending(t)

-----------------------------------------------------------------------------
(* What is known of the threads, *)
ThreadKnown ==
  /\ WorkerKnown /\ WorkerHandles /\ QuitHasWorker /\ OwnerTasks /\ WorkerTasks
  /\ NewKnown /\ StartsAlone /\ NotYetShutting /\ NotYetStarted /\ StartedOnce
(* of Stop and delete, *)
StopKnown ==
  /\ QuitThenJoin /\ JoinKnown /\ StopSteps /\ StopSets /\ StopIsCalm /\ BeatJoined
  /\ DeleteKnown /\ OnlySoundBeats
(* of the state while the device is in use, *)
StateKnown ==
  /\ AssignsLegally /\ UsedStates /\ UsedAssigns /\ OnlineIsGentle /\ ErrorIsLone
  /\ OfflineIsCalm /\ OnlyOnline /\ ClosesInError /\ ConnectingOpens /\ ErrorCloses
(* and while it is being started, *)
StartKnown ==
  /\ StartSets /\ StartConnects /\ StartOpens /\ StartWrites /\ StartSends /\ StartStates
  /\ InitSets
(* of the reader, *)
ReaderKnown ==
  /\ AssignThenEnter /\ JoinThenDrop /\ UsedStartsNoReader /\ SpawnKnown
  /\ StartReaderKnown /\ DropKnown /\ StopReaderKnown /\ KeepIsSpawned /\ StopIsDropped
  /\ ReaderRuns /\ OnlineReads /\ OfflineStops /\ DeafAtFirst
(* of the socket and the callback. *)
SocketKnown == OnlineIsOpen /\ OpenThenOnline /\ ErrorIsClosed /\ TellsState

(* All of it. *)
Known == ThreadKnown /\ StopKnown /\ StateKnown /\ StartKnown /\ ReaderKnown /\ SocketKnown

(* The inductive invariant.  A program that has crashed stays in the middle
   of a call. *)
IInv ==
  /\ Types
  /\ NoteIsState
  /\ IF Crashed THEN \E t \in Actors : Busy(t)
     ELSE InOrder /\ Known

-----------------------------------------------------------------------------
(* Sequences of tasks                                                      *)

(* The members of a sequence, *)
LEMMA ItemsOf ==
  ASSUME NEW S, NEW s \in Seq(S)
  PROVE  /\ Items(s) \subseteq S
         /\ s = <<>> <=> Items(s) = {}
         /\ s # <<>> => Head(s) = s[1] /\ Head(s) \in Items(s) /\ Len(s) >= 1
<1>1. \A i \in 1..Len(s) : s[i] \in S
  BY ElementOfSeq
<1>2. Len(s) \in Nat /\ (s = <<>> <=> Len(s) = 0)
  BY EmptySeq, LenProperties
<1>3. s # <<>> => Len(s) >= 1
  BY <1>2
<1>4. s # <<>> => Head(s) = s[1]
  OBVIOUS
<1>5. s # <<>> => s[1] \in Items(s)
  BY <1>2, <1>3 DEF Items
<1>6. s = <<>> => Items(s) = {}
  BY <1>2 DEF Items
<1>. QED
  BY <1>1, <1>3, <1>4, <1>5, <1>6 DEF Items

(* of its tail, *)
LEMMA ItemsOfTail ==
  ASSUME NEW S, NEW s \in Seq(S), s # <<>>
  PROVE  /\ Tail(s) \in Seq(S)
         /\ Items(s) = {Head(s)} \cup Items(Tail(s))
         /\ \A x \in Items(Tail(s)) : \E i \in 2..Len(s) : x = s[i]
<1>1. /\ Tail(s) \in Seq(S) /\ Len(Tail(s)) = Len(s) - 1
      /\ \A i \in 1..Len(Tail(s)) : Tail(s)[i] = s[i + 1]
  BY HeadTailProperties
<1>2. Len(s) \in Nat /\ Len(s) >= 1 /\ Head(s) = s[1]
  BY ItemsOf, LenProperties
<1>3. \A x \in Items(Tail(s)) : \E i \in 2..Len(s) : x = s[i]
  BY <1>1, <1>2 DEF Items
<1>4. \A x \in Items(s) : x = Head(s) \/ x \in Items(Tail(s))
  <2>1. SUFFICES ASSUME NEW i \in 1..Len(s), i # 1
                 PROVE  s[i] \in Items(Tail(s))
    BY <1>2 DEF Items
  <2>2. i - 1 \in 1..Len(Tail(s)) /\ Tail(s)[i - 1] = s[i]
    BY <1>1, <1>2, <2>1
  <2>. QED
    BY <2>2 DEF Items
<1>5. Items(Tail(s)) \subseteq Items(s)
  BY <1>2, <1>3 DEF Items
<1>6. Head(s) \in Items(s)
  BY ItemsOf
<1>. QED
  BY <1>1, <1>3, <1>4, <1>5, <1>6

(* of a concatenation, *)
LEMMA ItemsOfConcat ==
  ASSUME NEW S, NEW b \in Seq(S), NEW r \in Seq(S)
  PROVE  /\ b \o r \in Seq(S)
         /\ Items(b \o r) = Items(b) \cup Items(r)
         /\ b # <<>> => b \o r # <<>> /\ Head(b \o r) = Head(b)
         /\ b = <<>> => b \o r = r
<1>1. /\ b \o r \in Seq(S) /\ Len(b \o r) = Len(b) + Len(r)
      /\ \A i \in 1..Len(b) + Len(r) :
           (b \o r)[i] = IF i <= Len(b) THEN b[i] ELSE r[i - Len(b)]
  BY ConcatProperties
<1>2. Len(b) \in Nat /\ Len(r) \in Nat
  BY LenProperties
<1>3. Items(b \o r) \subseteq Items(b) \cup Items(r)
  <2>1. SUFFICES ASSUME NEW i \in 1..Len(b) + Len(r)
                 PROVE  (b \o r)[i] \in Items(b) \cup Items(r)
    BY <1>1 DEF Items
  <2>2. CASE i <= Len(b)
    BY <1>1, <1>2, <2>2 DEF Items
  <2>3. CASE ~(i <= Len(b))
    <3>1. i - Len(b) \in 1..Len(r) /\ (b \o r)[i] = r[i - Len(b)]
      BY <1>1, <1>2, <2>3
    <3>. QED
      BY <3>1 DEF Items
  <2>. QED
    BY <2>2, <2>3
<1>4. Items(b) \subseteq Items(b \o r)
  <2>1. SUFFICES ASSUME NEW i \in 1..Len(b)
                 PROVE  b[i] \in Items(b \o r)
    BY DEF Items
  <2>2. i \in 1..Len(b \o r) /\ (b \o r)[i] = b[i]
    BY <1>1, <1>2
  <2>. QED
    BY <2>2 DEF Items
<1>5. Items(r) \subseteq Items(b \o r)
  <2>1. SUFFICES ASSUME NEW i \in 1..Len(r)
                 PROVE  r[i] \in Items(b \o r)
    BY DEF Items
  <2>2. i + Len(b) \in 1..Len(b \o r) /\ (b \o r)[i + Len(b)] = r[i]
    <3>1. i + Len(b) \in 1..(Len(b) + Len(r)) /\ ~(i + Len(b) <= Len(b))
      BY <1>2
    <3>2. (i + Len(b)) - Len(b) = i
      BY <1>2
    <3>. QED
      BY <1>1, <3>1, <3>2
  <2>. QED
    BY <2>2 DEF Items
<1>6. ASSUME b # <<>>
      PROVE  b \o r # <<>> /\ Head(b \o r) = Head(b)
  <2>1. Len(b) >= 1
    BY <1>6, ItemsOf
  <2>2. b \o r # <<>>
    BY <1>1, <1>2, <2>1, EmptySeq
  <2>3. Head(b \o r) = (b \o r)[1] /\ Head(b) = b[1]
    BY <1>1, <1>6, <2>2, ItemsOf
  <2>4. (b \o r)[1] = b[1]
    BY <1>1, <1>2, <2>1
  <2>. QED
    BY <2>2, <2>3, <2>4
<1>7. b = <<>> => b \o r = r
  BY ConcatEmptySeq
<1>. QED
  BY <1>1, <1>3, <1>4, <1>5, <1>6, <1>7

(* and of its tail. *)
LEMMA TailOfConcat ==
  ASSUME NEW S, NEW b \in Seq(S), NEW r \in Seq(S), b # <<>>
  PROVE  Items(Tail(b \o r)) \subseteq Items(Tail(b)) \cup Items(r)
<1>1. /\ b \o r \in Seq(S) /\ Len(b \o r) = Len(b) + Len(r) /\ b \o r # <<>>
      /\ \A i \in 1..Len(b) + Len(r) :
           (b \o r)[i] = IF i <= Len(b) THEN b[i] ELSE r[i - Len(b)]
  BY ConcatProperties, ItemsOfConcat
<1>2. Len(b) \in Nat /\ Len(r) \in Nat /\ Len(b) >= 1
  BY LenProperties, ItemsOf
<1>3. Len(Tail(b)) = Len(b) - 1 /\ \A i \in 1..Len(Tail(b)) : Tail(b)[i] = b[i + 1]
  BY HeadTailProperties
<1>4. SUFFICES ASSUME NEW i \in 2..(Len(b) + Len(r))
               PROVE  (b \o r)[i] \in Items(Tail(b)) \cup Items(r)
  <2>1. \A x \in Items(Tail(b \o r)) : \E i \in 2..Len(b \o r) : x = (b \o r)[i]
    BY <1>1, ItemsOfTail
  <2>. QED
    BY <1>1, <2>1
<1>5. CASE i <= Len(b)
  <2>1. i - 1 \in 1..Len(Tail(b)) /\ Tail(b)[i - 1] = b[i]
    BY <1>2, <1>3, <1>5
  <2>2. (b \o r)[i] = b[i]
    BY <1>1, <1>2, <1>5
  <2>. QED
    BY <2>1, <2>2 DEF Items
<1>6. CASE ~(i <= Len(b))
  <2>1. i - Len(b) \in 1..Len(r) /\ (b \o r)[i] = r[i - Len(b)]
    BY <1>1, <1>2, <1>6
  <2>. QED
    BY <2>1 DEF Items
<1>. QED
  BY <1>5, <1>6

(* The tail of a sorted sequence is sorted, and may wait behind its head. *)
LEMMA SortedTail ==
  ASSUME NEW s \in Seq(Tasks), s # <<>>, NEW R, Sorted(s, R)
  PROVE  Sorted(Tail(s), R) /\ Items(Tail(s)) \subseteq Later(Head(s)) \cap R
<1>1. /\ Tail(s) \in Seq(Tasks) /\ Len(Tail(s)) = Len(s) - 1
      /\ \A i \in 1..Len(Tail(s)) : Tail(s)[i] = s[i + 1]
  BY HeadTailProperties
<1>2. Len(s) \in Nat /\ Len(s) >= 1 /\ Head(s) = s[1]
  BY ItemsOf, LenProperties
<1>3. ASSUME NEW i \in 1..Len(Tail(s)), NEW j \in 1..Len(Tail(s)), i < j
      PROVE  Tail(s)[j] \in Later(Tail(s)[i]) \cap R
  <2>1. i + 1 \in 1..Len(s) /\ j + 1 \in 1..Len(s) /\ i + 1 < j + 1
    BY <1>1, <1>2, <1>3
  <2>. QED
    BY <1>1, <2>1 DEF Sorted
<1>4. ASSUME NEW x \in Items(Tail(s))
      PROVE  x \in Later(Head(s)) \cap R
  <2>1. PICK j \in 2..Len(s) : x = s[j]
    BY ItemsOfTail
  <2>2. 1 \in 1..Len(s) /\ j \in 1..Len(s) /\ 1 < j
    BY <1>2
  <2>. QED
    BY <1>2, <2>1, <2>2 DEF Sorted
<1>. QED
  BY <1>3, <1>4 DEF Sorted

(* Sorted sequences make a sorted one when the second may wait behind each
   task of the first. *)
LEMMA SortedConcat ==
  ASSUME NEW b \in Seq(Tasks), NEW r \in Seq(Tasks), NEW R, Sorted(b, R), Sorted(r, R),
         \A x \in Items(b) : Items(r) \subseteq Later(x) \cap R
  PROVE  Sorted(b \o r, R)
<1>1. /\ b \o r \in Seq(Tasks) /\ Len(b \o r) = Len(b) + Len(r)
      /\ \A i \in 1..Len(b) + Len(r) :
           (b \o r)[i] = IF i <= Len(b) THEN b[i] ELSE r[i - Len(b)]
  BY ConcatProperties
<1>2. Len(b) \in Nat /\ Len(r) \in Nat
  BY LenProperties
<1>3. SUFFICES ASSUME NEW i \in 1..Len(b) + Len(r), NEW j \in 1..Len(b) + Len(r), i < j
               PROVE  (b \o r)[j] \in Later((b \o r)[i]) \cap R
  BY <1>1 DEF Sorted
<1>4. CASE j <= Len(b)
  BY <1>1, <1>2, <1>3, <1>4 DEF Sorted
<1>5. CASE i <= Len(b) /\ ~(j <= Len(b))
  <2>1. /\ (b \o r)[i] = b[i] /\ i \in 1..Len(b)
        /\ (b \o r)[j] = r[j - Len(b)] /\ j - Len(b) \in 1..Len(r)
    BY <1>1, <1>2, <1>5
  <2>2. b[i] \in Items(b) /\ r[j - Len(b)] \in Items(r)
    BY <2>1 DEF Items
  <2>. QED
    BY <2>1, <2>2
<1>6. CASE ~(i <= Len(b))
  <2>1. /\ (b \o r)[i] = r[i - Len(b)] /\ i - Len(b) \in 1..Len(r)
        /\ (b \o r)[j] = r[j - Len(b)] /\ j - Len(b) \in 1..Len(r)
        /\ i - Len(b) < j - Len(b)
    BY <1>1, <1>2, <1>3, <1>6
  <2>. QED
    BY <2>1 DEF Sorted
<1>. QED
  BY <1>4, <1>5, <1>6

(* The body of no task, *)
LEMMA NoTask ==
  /\ <<>> \in Seq(Tasks)
  /\ Items(<<>>) = {}
  /\ \A R : Sorted(<<>>, R)
BY EmptySeq DEF Items, Sorted

(* and that of one. *)
LEMMA OneTask ==
  ASSUME NEW x \in Tasks
  PROVE  /\ <<x>> \in Seq(Tasks)
         /\ <<x>> # <<>>
         /\ Head(<<x>>) = x
         /\ Items(<<x>>) = {x}
         /\ \A R : Sorted(<<x>>, R)
<1>1. <<x>> \in Seq(Tasks) /\ Len(<<x>>) = 1 /\ <<x>>[1] = x /\ <<x>> # <<>> /\ Head(<<x>>) = x
  OBVIOUS
<1>. QED
  BY <1>1 DEF Items, Sorted

(* A thread's tasks when the one at hand is replaced by those of b. *)
LEMMA Replaced ==
  ASSUME NEW s \in Seq(Tasks), s # <<>>, NEW b \in Seq(Tasks)
  PROVE  /\ b \o Tail(s) \in Seq(Tasks)
         /\ Items(b \o Tail(s)) = Items(b) \cup Items(Tail(s))
         /\ b # <<>> => b \o Tail(s) # <<>> /\ Head(b \o Tail(s)) = Head(b)
         /\ b = <<>> => b \o Tail(s) = Tail(s)
<1>1. Tail(s) \in Seq(Tasks)
  BY HeadTailProperties
<1>. DEFINE r == Tail(s)
<1>2. r \in Seq(Tasks)
  BY <1>1
<1>. HIDE DEF r
<1>3. /\ b \o r \in Seq(Tasks)
      /\ Items(b \o r) = Items(b) \cup Items(r)
      /\ b # <<>> => b \o r # <<>> /\ Head(b \o r) = Head(b)
      /\ b = <<>> => b \o r = r
  BY <1>2, ItemsOfConcat
<1>. QED
  BY <1>3 DEF r

-----------------------------------------------------------------------------
(* What one step of a thread does to what is pending                       *)

(* Thread t, at task x, goes on with the tasks of B first, the first is f. *)
Turn(t, x, B, f) ==
  /\ At(t, x)
  /\ Pending(t) = {x} \cup Rest(t)
  /\ phase # "delete" => Rest(t) \subseteq Later(x) \cap Rests(t)
  /\ todo' \in [Actors -> Seq(Tasks)]
  /\ Pending(t)' = B \cup Rest(t)
  /\ Rest(t)' \subseteq B \cup Rest(t)
  /\ B = {} \/ B = {f} => Rest(t)' \subseteq Rest(t)
  /\ B # {} => At(t, f)'
  /\ B = {} /\ Busy(t)' => Head(todo'[t]) \in Rest(t)
  /\ \A u \in Actors \ {t} : todo'[u] = todo[u] /\ Pending(u)' = Pending(u) /\ Rest(u)' = Rest(u)

(* A thread that goes on with the tasks of b, sorted and free to come
   before what waits, takes a turn, and leaves the tasks in order. *)
LEMMA GoesOn ==
  ASSUME todo \in [Actors -> Seq(Tasks)], InOrder, phase' = phase,
         NEW t \in Actors, todo[t] # <<>>,
         NEW b \in Seq(Tasks), GoOn(t, b), Items(b) = {Head(b)} => Items(Tail(b)) = {},
         phase # "delete" =>
           Sorted(b, Rests(t))
             /\ \A x \in Items(b) : Later(Head(todo[t])) \cap Rests(t) \subseteq Later(x)
  PROVE  /\ Turn(t, Head(todo[t]), Items(b), Head(b))
         /\ InOrder'
<1>1. todo[t] \in Seq(Tasks) /\ \A u \in Actors : todo[u] \in Seq(Tasks)
  OBVIOUS
<1>2. /\ Tail(todo[t]) \in Seq(Tasks)
      /\ Pending(t) = {Head(todo[t])} \cup Rest(t)
  BY <1>1, ItemsOfTail DEF Rest, Pending
<1>3. todo' = [todo EXCEPT ![t] = b \o Tail(todo[t])]
  BY DEF GoOn
<1>4. b \o Tail(todo[t]) \in Seq(Tasks)
  BY <1>1, Replaced
<1>5. /\ todo' \in [Actors -> Seq(Tasks)]
      /\ todo'[t] = b \o Tail(todo[t])
      /\ \A u \in Actors \ {t} : todo'[u] = todo[u] /\ Pending(u)' = Pending(u) /\ Rest(u)' = Rest(u)
  BY <1>3, <1>4 DEF Pending, Rest
<1>6. Pending(t)' = Items(b) \cup Rest(t)
  <2>1. Items(b \o Tail(todo[t])) = Items(b) \cup Items(Tail(todo[t]))
    BY <1>1, Replaced
  <2>. QED
    BY <1>5, <2>1 DEF Pending, Rest
<1>7. Items(b) = {} <=> b = <<>>
  BY ItemsOf
<1>8. Items(b) # {} => todo'[t] # <<>> /\ Head(todo'[t]) = Head(b)
  BY <1>1, <1>5, <1>7, Replaced
<1>9. Items(b) = {} => todo'[t] = Tail(todo[t])
  BY <1>1, <1>5, <1>7, Replaced
<1>10. Items(b) = {} /\ todo'[t] # <<>> => Head(todo'[t]) \in Rest(t)
  BY <1>2, <1>9, ItemsOf DEF Rest
<1>11. \A u \in Actors : todo[u] = <<>> <=> Pending(u) = {}
  BY <1>1, ItemsOf DEF Pending
<1>12. \A u \in Actors : todo'[u] = <<>> <=> Pending(u)' = {}
  <2>1. \A u \in Actors : todo'[u] \in Seq(Tasks)
    BY <1>5
  <2>. QED
    BY <2>1, ItemsOf DEF Pending
<1>13. ASSUME phase # "delete"
       PROVE  /\ Sorted(Tail(todo[t]), Rests(t)) /\ Rest(t) \subseteq Later(Head(todo[t])) \cap Rests(t)
              /\ Sorted(b, Rests(t))
  BY <1>1, <1>13, SortedTail DEF InOrder, Rest
<1>14. InOrder'
  <2>1. SUFFICES ASSUME phase # "delete", NEW u \in Actors
                 PROVE  Sorted(todo'[u], Rests(u))
    BY DEF InOrder, Rests
  <2>2. CASE u # t
    BY <1>5, <2>1, <2>2 DEF InOrder
  <2>3. CASE u = t
    <3>1. \A x \in Items(b) : Items(Tail(todo[t])) \subseteq Later(x) \cap Rests(t)
      BY <1>13, <2>1 DEF Rest
    <3>2. Sorted(b \o Tail(todo[t]), Rests(t))
      BY <1>2, <1>13, <2>1, <3>1, SortedConcat
    <3>. QED
      BY <1>5, <2>3, <3>2
  <2>. QED
    BY <2>2, <2>3
<1>15. /\ Rest(t)' \subseteq Items(b) \cup Rest(t)
       /\ Items(b) = {} \/ Items(b) = {Head(b)} => Rest(t)' \subseteq Rest(t)
  <2>1. CASE b = <<>>
    <3>1. todo'[t] # <<>> => Items(Tail(todo'[t])) \subseteq Items(todo'[t])
      BY <1>5, ItemsOfTail
    <3>. QED
      BY <1>7, <1>9, <2>1, <3>1 DEF Rest
  <2>2. CASE b # <<>>
    <3>1. Items(Tail(b \o Tail(todo[t]))) \subseteq Items(Tail(b)) \cup Rest(t)
      BY <1>2, <2>2, TailOfConcat DEF Rest
    <3>2. Items(Tail(b)) \subseteq Items(b)
      BY <2>2, ItemsOfTail
    <3>. QED
      BY <1>5, <1>7, <1>8, <2>2, <3>1, <3>2 DEF Rest
  <2>. QED
    BY <2>1, <2>2
<1>. QED
  BY <1>2, <1>5, <1>6, <1>8, <1>10, <1>11, <1>12, <1>13, <1>14, <1>15 DEF Turn, At, Busy

(* The same for a body of no task, of one, of two, of three. *)
Pops(t, x) == Turn(t, x, {}, x)
Room(t, y) == phase # "delete" => Later(Head(todo[t])) \cap Rests(t) \subseteq Later(y)

(* A turn with no new task, *)
LEMMA GoesOnNone ==
  ASSUME todo \in [Actors -> Seq(Tasks)], InOrder, phase' = phase,
         NEW t \in Actors, todo[t] # <<>>, GoOn(t, <<>>)
  PROVE  Pops(t, Head(todo[t])) /\ InOrder'
<1>1. Turn(t, Head(todo[t]), Items(<<>>), Head(<<>>)) /\ InOrder'
  BY NoTask, GoesOn
<1>. QED
  BY <1>1, NoTask DEF Pops, Turn

(* with one, *)
LEMMA GoesOnOne ==
  ASSUME todo \in [Actors -> Seq(Tasks)], InOrder, phase' = phase,
         NEW t \in Actors, todo[t] # <<>>,
         NEW y \in Tasks, Room(t, y), GoOn(t, <<y>>)
  PROVE  Turn(t, Head(todo[t]), {y}, y) /\ InOrder'
<1>1. Items(Tail(<<y>>)) = {}
  BY NoTask
<1>2. Turn(t, Head(todo[t]), Items(<<y>>), Head(<<y>>)) /\ InOrder'
  BY <1>1, OneTask, GoesOn DEF Room
<1>. QED
  BY <1>2, OneTask

(* A task before a sequence. *)
LEMMA FirstTask ==
  ASSUME NEW x \in Tasks, NEW r \in Seq(Tasks)
  PROVE  /\ <<x>> \o r \in Seq(Tasks)
         /\ Head(<<x>> \o r) = x
         /\ Items(<<x>> \o r) = {x} \cup Items(r)
         /\ \A R : Sorted(r, R) /\ Items(r) \subseteq Later(x) \cap R => Sorted(<<x>> \o r, R)
<1>. DEFINE b == <<x>>
<1>1. /\ b \in Seq(Tasks) /\ b # <<>> /\ Head(b) = x /\ Items(b) = {x}
      /\ \A R : Sorted(b, R)
  BY OneTask
<1>. HIDE DEF b
<1>2. b \o r \in Seq(Tasks) /\ Head(b \o r) = x /\ Items(b \o r) = {x} \cup Items(r)
  BY <1>1, ItemsOfConcat
<1>3. ASSUME NEW R, Sorted(r, R), Items(r) \subseteq Later(x) \cap R
      PROVE  Sorted(b \o r, R)
  BY <1>1, <1>3, SortedConcat
<1>. QED
  BY <1>2, <1>3 DEF b

(* A body of two tasks. *)
LEMMA TwoTasks ==
  ASSUME NEW y \in Tasks, NEW z \in Tasks, NEW R
  PROVE  /\ <<y>> \o <<z>> \in Seq(Tasks)
         /\ Head(<<y>> \o <<z>>) = y
         /\ Items(<<y>> \o <<z>>) = {y, z}
         /\ z \in Later(y) \cap R => Sorted(<<y>> \o <<z>>, R)
<1>. DEFINE r == <<z>>
<1>1. r \in Seq(Tasks) /\ Items(r) = {z} /\ \A Q : Sorted(r, Q)
  BY OneTask
<1>. HIDE DEF r
<1>2. /\ <<y>> \o r \in Seq(Tasks)
      /\ Head(<<y>> \o r) = y
      /\ Items(<<y>> \o r) = {y, z}
      /\ z \in Later(y) \cap R => Sorted(<<y>> \o r, R)
  BY <1>1, FirstTask
<1>. QED
  BY <1>2 DEF r

(* with two, *)
LEMMA GoesOnTwo ==
  ASSUME todo \in [Actors -> Seq(Tasks)], InOrder, phase' = phase,
         NEW t \in Actors, todo[t] # <<>>,
         NEW y \in Tasks, NEW z \in Tasks, y # z, Room(t, y), Room(t, z),
         phase # "delete" => z \in Later(y) \cap Rests(t),
         GoOn(t, <<y>> \o <<z>>)
  PROVE  Turn(t, Head(todo[t]), {y, z}, y) /\ InOrder'
<1>. DEFINE b == <<y>> \o <<z>>
<1>1. /\ b \in Seq(Tasks) /\ Head(b) = y /\ Items(b) = {y, z}
      /\ phase # "delete" => Sorted(b, Rests(t))
  BY TwoTasks
<1>2. GoOn(t, b)
  OBVIOUS
<1>. HIDE DEF b
<1>3. Turn(t, Head(todo[t]), Items(b), Head(b)) /\ InOrder'
  BY <1>1, <1>2, GoesOn DEF Room
<1>. QED
  BY <1>1, <1>3

(* and with three. *)
LEMMA GoesOnThree ==
  ASSUME todo \in [Actors -> Seq(Tasks)], InOrder, phase' = phase,
         NEW t \in Actors, todo[t] # <<>>,
         NEW x \in Tasks, NEW y \in Tasks, NEW z \in Tasks,
         x # y, Room(t, x), Room(t, y), Room(t, z),
         phase # "delete" =>
           /\ y \in Later(x) \cap Rests(t)
           /\ z \in Later(x) \cap Later(y) \cap Rests(t),
         GoOn(t, (<<x>> \o <<y>>) \o <<z>>)
  PROVE  Turn(t, Head(todo[t]), {x, y, z}, x) /\ InOrder'
<1>. DEFINE c == <<x>> \o <<y>>
            d == <<z>>
            b == c \o d
<1>1. /\ c \in Seq(Tasks) /\ Items(c) = {x, y} /\ Head(c) = x
      /\ phase # "delete" => Sorted(c, Rests(t))
  BY TwoTasks
<1>2. c # <<>>
  BY <1>1, ItemsOf
<1>3. d \in Seq(Tasks) /\ Items(d) = {z} /\ \A R : Sorted(d, R)
  BY OneTask
<1>4. GoOn(t, b)
  OBVIOUS
<1>. HIDE DEF c, d
<1>5. b \in Seq(Tasks) /\ Head(b) = x /\ Items(b) = {x, y, z}
  BY <1>1, <1>2, <1>3, ItemsOfConcat
<1>6. phase # "delete" => Sorted(b, Rests(t))
  BY <1>1, <1>3, SortedConcat
<1>. HIDE DEF b
<1>7. Turn(t, Head(todo[t]), Items(b), Head(b)) /\ InOrder'
  BY <1>4, <1>5, <1>6, GoesOn DEF Room
<1>. QED
  BY <1>5, <1>7

-----------------------------------------------------------------------------
(* Tasks by name                                                           *)

(* A task tells its step and its argument. *)
LEMMA Names ==
  /\ \A s : Name(T(s)) = s
  /\ \A s : Name(Setting(s)) = "set" /\ Of(Setting(s)) = s
  /\ \A s : Name(Assigning(s)) = "assign" /\ Of(Assigning(s)) = s
  /\ \A s : Name(Telling(s)) = "tell" /\ Of(Telling(s)) = s
  /\ \A s : Name(Opening(s)) = "open" /\ Of(Opening(s)) = s
BY DEF Name, Of, T, Setting, Assigning, Telling, Opening

(* Its argument is empty when its step takes none. *)
LEMMA PlainOf ==
  ASSUME NEW s
  PROVE  Of(T(s)) = ""
BY DEF Of, T

(* A task with a given step is one of those with that step. *)
LEMMA ByName ==
  ASSUME NEW x \in Tasks
  PROVE  /\ Name(x) = "set" => Of(x) \in Made /\ x = Setting(Of(x))
         /\ Name(x) = "assign" => Of(x) \in Made /\ x = Assigning(Of(x))
         /\ Name(x) = "tell" => Of(x) \in Made /\ x = Telling(Of(x))
         /\ Name(x) = "open" => Of(x) \in {"connect", "send"} /\ x = Opening(Of(x))
         /\ Name(x) \notin {"set", "assign", "tell", "open"} => x = T(Name(x)) /\ Name(x) \in Plain
<1>1. \A s \in Plain : s \notin {"set", "assign", "tell", "open"}
  BY DEF Plain
<1>. QED
  BY <1>1, Names DEF Tasks

(* IsValidStateTransition, state by state. *)
LEMMA ValidIs ==
  \A p, s : Valid(p, s) <=>
    \/ p = s /\ p \in DevStates
    \/ p = "unknown" /\ s = "initialized"
    \/ p = "initialized" /\ s \in {"offline", "connecting"}
    \/ p = "offline" /\ s \in {"connecting", "error"}
    \/ p = "connecting" /\ s \in {"online", "offline", "error"}
    \/ p = "online" /\ s \in {"working", "offline", "error"}
    \/ p = "working" /\ s \in {"online", "offline", "error"}
    \/ p = "error" /\ s \in {"offline", "initialized"}
BY DEF Valid, Transitions

(* A thread at a step has a task with that step first. *)
LEMMA AtStep ==
  ASSUME Types, NEW t \in Actors, NEW s \in Steps, Step(t) = s
  PROVE  /\ ~Crashed
         /\ todo[t] # <<>> /\ todo[t] \in Seq(Tasks) /\ Head(todo[t]) \in Tasks
         /\ Name(Head(todo[t])) = s /\ Of(Head(todo[t])) = Arg(t)
<1>1. s # "none"
  BY DEF Steps
<1>2. ~Crashed /\ todo[t] # <<>> /\ Head(todo[t])[1] = s
  BY <1>1 DEF Step
<1>3. todo[t] \in Seq(Tasks)
  BY DEF Types
<1>4. Head(todo[t]) \in Tasks
  BY <1>2, <1>3, HeadTailProperties
<1>. QED
  BY <1>2, <1>3, <1>4 DEF Arg, Name, Of

-----------------------------------------------------------------------------
(* Who can be busy when                                                    *)

(* A thread that has a task has a first one, and the others are its rest. *)
LEMMA BusyIs ==
  ASSUME Types, NEW t \in Actors
  PROVE  /\ Busy(t) <=> todo[t] # <<>>
         /\ Busy(t) => Head(todo[t]) \in Pending(t)
         /\ Pending(t) \subseteq Tasks
         /\ \A x \in Pending(t) : At(t, x) \/ x \in Rest(t)
         /\ Rest(t) \subseteq Pending(t)
<1>1. todo[t] \in Seq(Tasks)
  BY DEF Types
<1>2. /\ Busy(t) <=> todo[t] # <<>>
      /\ Busy(t) => Head(todo[t]) \in Pending(t)
      /\ Pending(t) \subseteq Tasks
  BY <1>1, ItemsOf DEF Busy, Pending
<1>3. todo[t] # <<>> => Pending(t) = {Head(todo[t])} \cup Rest(t)
  BY <1>1, ItemsOfTail DEF Pending, Rest
<1>4. todo[t] = <<>> => Rest(t) = {}
  BY DEF Rest
<1>. QED
  BY <1>2, <1>3, <1>4 DEF At, Busy

(* The worker handles something only when the device is in use, and then the
   owner has not joined it yet. *)
LEMMA WorkerBusy ==
  ASSUME Types, ~Crashed, Known, Busy("worker")
  PROVE  /\ InUse /\ ~Starting /\ worker = "handling" /\ m_thread
         /\ phase = "stop" => Has("owner", "stop") \/ Has("owner", "join")
         /\ Busy("owner") => phase = "stop"
         /\ Busy("owner") /\ kind # "ptz" => Pending("owner") \subseteq Calm \cup Leaving
<1>1. worker = "handling" /\ m_thread /\ ~Starting
  BY DEF Known, ThreadKnown, WorkerHandles, StartsAlone, WorkerKnown
<1>2. phase \notin {"new", "init", "delete"} /\ phase # "crashed"
  BY <1>1 DEF Known, StopKnown, DeleteKnown, Crashed, Starting
<1>3. InUse
  BY <1>1, <1>2 DEF InUse, Starting, Types
<1>4. phase = "stop" => Has("owner", "stop") \/ Has("owner", "join")
  BY <1>1 DEF Known, StopKnown, StopSteps
<1>5. Busy("owner") => phase = "stop"
  BY <1>3 DEF InUse
<1>6. Busy("owner") /\ kind # "ptz" => Pending("owner") \subseteq Calm \cup Leaving
  BY <1>4, <1>5 DEF Known, StopKnown, StopIsCalm, JoinKnown
<1>. QED
  BY <1>1, <1>3, <1>4, <1>5, <1>6

(* Once the owner waits for the worker it does nothing else. *)
LEMMA Joining ==
  ASSUME Types, ~Crashed, InOrder, Known, Has("owner", "join")
  PROVE  \E s \in {"quit", "quitPost", "quitMark", "join"} : At("owner", T(s))
<1>1. phase = "stop" /\ Busy("owner") /\ todo["owner"] # <<>> /\ todo["owner"] \in Seq(Tasks)
  BY BusyIs DEF Known, StopKnown, JoinKnown, Types, Actors, Has, Busy
<1>2. Head(todo["owner"]) \in Leaving /\ Head(todo["owner"]) \in Tasks
  BY <1>1, BusyIs DEF Known, StopKnown, JoinKnown, Actors
<1>3. CASE Head(todo["owner"]) = T("join")
  BY <1>1, <1>3 DEF At
<1>4. CASE Head(todo["owner"]) # T("join")
  <2>1. T("join") \in Items(Tail(todo["owner"]))
    BY <1>1, <1>4, ItemsOfTail DEF Has, Pending
  <2>2. Sorted(todo["owner"], Rests("owner"))
    BY <1>1 DEF InOrder, Actors
  <2>3. T("join") \in Later(Head(todo["owner"]))
    BY <1>1, <2>1, <2>2, SortedTail
  <2>4. Head(todo["owner"]) # Setting("offline")
    BY <2>3, Names DEF Later, After, StartOuter, StopEnd
  <2>. QED
    BY <1>1, <1>2, <2>4 DEF Leaving, At
<1>. QED
  BY <1>3, <1>4

-----------------------------------------------------------------------------
(* What a step leaves of both threads' tasks                               *)

(* What can be waiting behind a task, in R.  No assignment, no start and no
   join of the reader does: they are always the task at hand. *)
Waiting(t, R) ==
  /\ \A s : Assigning(s) \notin R
  /\ T("spawnReader") \notin R /\ T("joinReader") \notin R
  /\ \A s : Setting(s) \in R => s = "offline" /\ t = "owner" /\ phase = "stop"
  /\ T("startReader") \in R => t = "owner" /\ phase = "start"
  /\ T("stopReader") \in R => t = "owner" /\ phase = "stop"
  /\ T("packet") \notin R /\ T("heartbeat") \notin R
  /\ \A y \in R : Name(y) \in Setters =>
       \/ y \in {T("write"), Opening("send")}
       \/ t = "owner" /\ y = T("connect") /\ phase = "init"
       \/ t = "owner" /\ y = Opening("connect") /\ phase \in {"init", "start"}
       \/ t = "owner" /\ y = T("send") /\ phase = "start"
       \/ t = "owner" /\ y = Setting("offline") /\ phase = "stop"

(* What may wait, may. *)
LEMMA RestsAre ==
  ASSUME NEW t \in Actors
  PROVE  Waiting(t, Rests(t))
<1>1. t = "owner" \/ t = "worker"
  BY DEF Actors
<1>2. CASE t = "worker"
  BY <1>2, Names DEF Waiting, Rests, Inner, Tells, Setters
<1>3. CASE t = "owner" /\ phase = "init"
  BY <1>3, Names DEF Waiting, Rests, Inner, Tells, Setters
<1>4. CASE t = "owner" /\ phase = "start"
  BY <1>4, Names DEF Waiting, Rests, Inner, Tells, Setters, StartOuter
<1>5. CASE t = "owner" /\ phase = "stop"
  BY <1>5, Names DEF Waiting, Rests, Inner, Tells, Setters, StopOuter, StopEnd
<1>6. CASE t = "owner" /\ phase \notin {"init", "start", "stop"}
  BY <1>6, Names DEF Waiting, Rests
<1>. QED
  BY <1>1, <1>2, <1>3, <1>4, <1>5, <1>6

(* No thread has anything to do. *)
Idle == \A u \in Actors : Pending(u) = {} /\ ~Live(u) /\ \A y : ~At(u, y)

(* Whose step it is, and what it leaves of the other thread. *)
OfOwner ==
  /\ Pending("worker")' = Pending("worker") /\ Rest("worker")' = Rest("worker")
  /\ Busy("worker") /\ kind # "ptz" => Pending("owner") \subseteq Calm \cup Leaving
  /\ Live("worker")' <=> Live("worker")
  /\ \A y : At("worker", y)' <=> At("worker", y)
  /\ \/ phase \in {"init", "start"} /\ ~InUse /\ ~InUse' /\ Starting /\ Starting' /\ ~Busy("worker")
     \/ phase = "start" /\ ~InUse /\ InUse' /\ Starting /\ ~Starting' /\ Idle' /\ ~Busy("worker")
     \/ phase = "stop" /\ InUse /\ InUse' /\ ~Starting /\ ~Starting'
     \/ phase = "delete" /\ ~InUse /\ ~InUse' /\ ~Starting /\ ~Starting' /\ ~Busy("worker")
OfWorker ==
  /\ Pending("owner")' = Pending("owner") /\ Rest("owner")' = Rest("owner")
  /\ Live("owner")' <=> Live("owner")
  /\ \A y : At("owner", y)' <=> At("owner", y)
  /\ InUse /\ InUse' /\ ~Starting /\ ~Starting'
  /\ phase \in {"start", "stop"} /\ worker = "handling" /\ m_thread
  /\ Busy("owner") => phase = "stop"
  /\ phase = "stop" => Has("owner", "stop") \/ Has("owner", "join")
  /\ Busy("owner") /\ kind # "ptz" => Pending("owner") \subseteq Calm \cup Leaving

(* Is a task that may change the state waiting behind the one at hand? *)
RestLive(t) == \E y \in Rest(t) : Name(y) \in Setters

(* Thread t has gone on from task x with the tasks of B, the first of them f. *)
Moved(t, x, B, f) ==
  /\ At(t, x) /\ \A y : At(t, y) => y = x
  /\ Pending(t) = {x} \cup Rest(t)
  /\ Pending(t)' = B \cup Rest(t)
  /\ \A y : At(t, y)' => IF B = {} THEN y \in Rest(t) ELSE y = f
  /\ Rest(t)' \subseteq B \cup Rest(t)
  /\ (B = {} \/ B = {f}) => Rest(t)' \subseteq Rest(t)
  /\ B # {} => At(t, f)'
  /\ Live(t) <=> Name(x) \in Setters \/ RestLive(t)
  /\ Live(t)' <=> (\E y \in B : Name(y) \in Setters) \/ RestLive(t)
  /\ todo' \in [Actors -> Seq(Tasks)]
  /\ phase # "delete" => Rest(t) \subseteq Later(x) \cap Rests(t)
  /\ phase = "delete" => x \in Ending
  /\ Waiting(t, Rest(t))
  /\ (t = "owner" /\ OfOwner) \/ (t = "worker" /\ OfWorker)

(* A turn in a state with the invariant: what it leaves to whom. *)
LEMMA TurnMoves ==
  ASSUME Types, ~Crashed, Known, phase' = phase,
         NEW t \in Actors, NEW x, NEW B, NEW f, Turn(t, x, B, f)
  PROVE  Moved(t, x, B, f)
<1>1. Busy(t) /\ Rest(t) \subseteq Pending(t)
  BY DEF Turn, At
<1>2. t = "worker" \/ t = "owner"
  BY DEF Actors
<1>3. Waiting(t, Rest(t))
  <2>1. CASE phase # "delete"
    <3>1. Rest(t) \subseteq Rests(t)
      BY <2>1 DEF Turn
    <3>. QED
      BY <3>1, RestsAre DEF Waiting
  <2>2. CASE phase = "delete"
    <3>1. t = "owner"
      BY <1>1, <1>2, <2>2, WorkerBusy DEF InUse
    <3>2. Rest(t) \subseteq Ending
      BY <1>1, <2>2, <3>1 DEF Known, StopKnown, DeleteKnown
    <3>. QED
      BY <3>2, Names DEF Waiting, Setters, Ending
  <2>. QED
    BY <2>1, <2>2
<1>4. \A u \in Actors \ {t} :
        /\ Pending(u)' = Pending(u) /\ todo'[u] = todo[u] /\ Rest(u)' = Rest(u)
        /\ Live(u)' <=> Live(u)
        /\ \A y : At(u, y)' <=> At(u, y)
  BY DEF Turn, Live, At, Busy
<1>5. ASSUME t = "owner"
      PROVE  OfOwner
  <2>1. phase \in {"new", "init", "start", "stop", "delete"} /\ phase # "new"
    BY <1>1, <1>5 DEF Types, Crashed, Known, ThreadKnown, NewKnown
  <2>2. phase \in {"init", "start"} => Starting /\ ~Busy("worker")
    BY <1>1, <1>5 DEF Starting, Known, ThreadKnown, StartsAlone
  <2>3. phase = "delete" => ~Busy("worker")
    BY WorkerBusy DEF InUse
  <2>4. ~Busy("owner")' /\ ~Busy("worker")' => Idle'
    BY DEF Idle, Busy, Live, At, Actors
  <2>5. Busy("worker") /\ kind # "ptz" => Pending("owner") \subseteq Calm \cup Leaving
    BY <1>1, <1>5, WorkerBusy
  <2>. QED
    BY <1>1, <1>4, <1>5, <2>1, <2>2, <2>3, <2>4, <2>5 DEF OfOwner, InUse, Starting, Actors, Busy
<1>6. ASSUME t = "worker"
      PROVE  OfWorker
  <2>1. Busy("worker")
    BY <1>1, <1>6
  <2>2. /\ Pending("owner")' = Pending("owner") /\ (Busy("owner")' <=> Busy("owner"))
        /\ Rest("owner")' = Rest("owner")
        /\ Live("owner")' <=> Live("owner")
        /\ \A y : At("owner", y)' <=> At("owner", y)
    BY <1>4, <1>6 DEF Actors, Busy
  <2>3. (InUse' <=> InUse) /\ (Starting' <=> Starting)
    BY <2>2 DEF InUse, Starting
  <2>. QED
    BY <2>1, <2>2, <2>3, WorkerBusy DEF OfWorker, InUse
<1>7. /\ At(t, x) /\ \A y : At(t, y) => y = x
      /\ Pending(t) = {x} \cup Rest(t)
      /\ Pending(t)' = B \cup Rest(t)
      /\ \A y : At(t, y)' => IF B = {} THEN y \in Rest(t) ELSE y = f
      /\ Rest(t)' \subseteq B \cup Rest(t)
      /\ (B = {} \/ B = {f}) => Rest(t)' \subseteq Rest(t)
      /\ B # {} => At(t, f)'
      /\ todo' \in [Actors -> Seq(Tasks)]
      /\ phase # "delete" => Rest(t) \subseteq Later(x) \cap Rests(t)
  BY DEF Turn, At
<1>8. /\ Live(t) <=> Name(x) \in Setters \/ RestLive(t)
      /\ Live(t)' <=> (\E y \in B : Name(y) \in Setters) \/ RestLive(t)
  BY <1>7 DEF Live, RestLive
<1>9. ASSUME phase = "delete"
      PROVE  x \in Ending
  <2>1. t = "owner"
    BY <1>1, <1>2, <1>9, WorkerBusy DEF InUse
  <2>. QED
    BY <1>7, <1>9, <2>1 DEF Known, StopKnown, DeleteKnown
<1>. QED
  BY <1>2, <1>3, <1>5, <1>6, <1>7, <1>8, <1>9 DEF Moved

(* The same from the action's own words, for a body of no task, of one, of two,
   of three. *)
LEMMA Moves ==
  ASSUME IInv, NEW t \in Actors, NEW s \in Steps, Step(t) = s, phase' = phase
  PROVE  /\ GoOn(t, <<>>) => Moved(t, Head(todo[t]), {}, Head(todo[t])) /\ InOrder'
         /\ \A x \in Tasks : Room(t, x) /\ GoOn(t, <<x>>) =>
              Moved(t, Head(todo[t]), {x}, x) /\ InOrder'
         /\ \A x, y \in Tasks :
              /\ x # y /\ Room(t, x) /\ Room(t, y)
              /\ phase # "delete" => y \in Later(x) \cap Rests(t)
              /\ GoOn(t, <<x>> \o <<y>>)
              => Moved(t, Head(todo[t]), {x, y}, x) /\ InOrder'
         /\ \A x, y, z \in Tasks :
              /\ x # y /\ Room(t, x) /\ Room(t, y) /\ Room(t, z)
              /\ phase # "delete" =>
                   /\ y \in Later(x) \cap Rests(t)
                   /\ z \in Later(x) \cap Later(y) \cap Rests(t)
              /\ GoOn(t, (<<x>> \o <<y>>) \o <<z>>)
              => Moved(t, Head(todo[t]), {x, y, z}, x) /\ InOrder'
<1>1. Types /\ ~Crashed /\ todo[t] # <<>> /\ InOrder /\ Known
  BY AtStep DEF IInv
<1>2. todo \in [Actors -> Seq(Tasks)]
  BY <1>1 DEF Types
<1>3. GoOn(t, <<>>) => Moved(t, Head(todo[t]), {}, Head(todo[t])) /\ InOrder'
  BY <1>1, <1>2, GoesOnNone, TurnMoves DEF Pops
<1>4. ASSUME NEW x \in Tasks, Room(t, x), GoOn(t, <<x>>)
      PROVE  Moved(t, Head(todo[t]), {x}, x) /\ InOrder'
  BY <1>1, <1>2, <1>4, GoesOnOne, TurnMoves
<1>5. ASSUME NEW x \in Tasks, NEW y \in Tasks, x # y, Room(t, x), Room(t, y),
             phase # "delete" => y \in Later(x) \cap Rests(t),
             GoOn(t, <<x>> \o <<y>>)
      PROVE  Moved(t, Head(todo[t]), {x, y}, x) /\ InOrder'
  BY <1>1, <1>2, <1>5, GoesOnTwo, TurnMoves
<1>6. ASSUME NEW x \in Tasks, NEW y \in Tasks, NEW z \in Tasks, x # y,
             Room(t, x), Room(t, y), Room(t, z),
             phase # "delete" =>
                   /\ y \in Later(x) \cap Rests(t)
                   /\ z \in Later(x) \cap Later(y) \cap Rests(t),
             GoOn(t, (<<x>> \o <<y>>) \o <<z>>)
      PROVE  Moved(t, Head(todo[t]), {x, y, z}, x) /\ InOrder'
  BY <1>1, <1>2, <1>6, GoesOnThree, TurnMoves
<1>. QED
  BY <1>3, <1>4, <1>5, <1>6

-----------------------------------------------------------------------------
(* What a step leaves alone                                                *)

StateSame ==
  /\ m_devState' = m_devState /\ m_shuttingDown' = m_shuttingDown
  /\ m_statusCb' = m_statusCb /\ note' = note
ReaderSame ==
  /\ m_keepReading' = m_keepReading /\ m_readThread' = m_readThread /\ reader' = reader
ThreadSame ==
  /\ m_state' = m_state /\ m_thread' = m_thread /\ m_eq' = m_eq /\ worker' = worker
DriverSame ==
  /\ kind' = kind /\ m_keepHeartbeat' = m_keepHeartbeat /\ beat' = beat
EnvSame ==
  /\ phase' = phase /\ packets' = packets /\ beats' = beats

(* The variables that an action leaves alone, one by one. *)
LEMMA Same ==
  /\ UNCHANGED stateVars => StateSame
  /\ UNCHANGED readerVars => ReaderSame
  /\ UNCHANGED threadVars => ThreadSame
  /\ UNCHANGED driverVars => DriverSame
  /\ UNCHANGED envVars => EnvSame
BY DEF stateVars, readerVars, threadVars, driverVars, envVars,
       StateSame, ReaderSame, ThreadSame, DriverSame, EnvSame

(* The inductive invariant, part by part. *)
LEMMA AllKnown ==
  ASSUME IInv, ~Crashed
  PROVE  /\ Types /\ NoteIsState /\ InOrder /\ Known
         /\ WorkerKnown /\ WorkerHandles /\ QuitHasWorker /\ OwnerTasks /\ WorkerTasks
         /\ NewKnown /\ StartsAlone /\ NotYetShutting /\ NotYetStarted /\ StartedOnce
         /\ QuitThenJoin /\ JoinKnown /\ StopSteps /\ StopSets /\ StopIsCalm
         /\ BeatJoined /\ DeleteKnown /\ OnlySoundBeats
         /\ AssignsLegally /\ UsedStates /\ UsedAssigns /\ OnlineIsGentle /\ ErrorIsLone
         /\ OfflineIsCalm /\ OnlyOnline /\ ClosesInError /\ ConnectingOpens
         /\ ErrorCloses
         /\ StartSets /\ StartConnects /\ StartOpens /\ StartWrites /\ StartSends
         /\ StartStates /\ InitSets
         /\ AssignThenEnter /\ JoinThenDrop /\ UsedStartsNoReader /\ SpawnKnown
         /\ StartReaderKnown /\ DropKnown /\ StopReaderKnown /\ KeepIsSpawned
         /\ StopIsDropped /\ ReaderRuns /\ OnlineReads /\ OfflineStops /\ DeafAtFirst
         /\ OnlineIsOpen /\ OpenThenOnline /\ ErrorIsClosed /\ TellsState
BY DEF IInv, Known, ThreadKnown, StopKnown, StateKnown, StartKnown, ReaderKnown, SocketKnown

(* What may wait behind a thread's task, and after which state. *)
LEMMA InnerRests ==
  ASSUME IInv, ~Crashed, NEW t \in Actors, Busy(t), phase # "delete"
  PROVE  Inner \subseteq Rests(t)
<1>1. t = "owner" => phase \in {"init", "start", "stop"}
  BY AllKnown DEF Types, Crashed, NewKnown
<1>. QED
  BY <1>1 DEF Rests, Actors

(* and a delete is at one of its own. *)
LEMMA AtTheEnd ==
  ASSUME IInv, ~Crashed, NEW t \in Actors, Busy(t), phase = "delete"
  PROVE  Head(todo[t]) \in Ending
<1>1. t = "owner"
  BY AllKnown, WorkerBusy DEF InUse, Actors
<1>. QED
  BY <1>1, AllKnown, BusyIs DEF DeleteKnown, Actors

(* After each state only the rest of the calls that set it. *)
LEMMA AfterIs ==
  \A s : /\ After(s) \subseteq AnyAfter
         /\ T("join") \notin After(s) /\ T("enter") \notin After(s)
         /\ T("dropReader") \notin After(s)
         /\ \A r : Telling(r) \notin After(s) /\ Assigning(r) \notin After(s)
         /\ T("connect") \in After(s) => s = "initialized"
         /\ Opening("connect") \in After(s) \/ Opening("send") \in After(s) => s = "connecting"
         /\ T("write") \in After(s) => s = "online"
         /\ T("close") \in After(s) => s = "error"
         /\ T("send") \in After(s) \/ T("startReader") \in After(s) =>
              s \notin {"initialized", "error"}
         /\ \A r : Setting(r) \notin After(s)
BY Names DEF After, AnyAfter, Opens, StartOuter, StopOuter, StopEnd

(* What may wait behind each kind of task. *)
LEMMA LaterIs ==
  /\ \A s : Later(Setting(s)) = After(s) /\ Later(Telling(s)) = After(s)
  /\ \A s : Later(Assigning(s)) = {T("enter"), Telling(s)} \cup After(s)
  /\ \A s \in {"enter", "startReader", "spawnReader", "stopReader", "dropReader"} :
       Later(T(s)) = Tells \cup AnyAfter
  /\ Later(T("joinReader")) = {T("dropReader")} \cup Tells \cup AnyAfter
  /\ Later(T("connect")) = StartOuter /\ Later(T("start")) = StartOuter \ {T("start")}
  /\ Later(Opening("connect")) = StartOuter /\ Later(Opening("send")) = StopEnd
  /\ \A s \in {"send", "write", "close", "report"} : Later(T(s)) = StopEnd
  /\ \A s \in {"stopHeartbeat", "joinHeartbeat"} : Later(T(s)) = StopOuter
  /\ Later(T("quit")) = AfterQuit /\ Later(T("quitMark")) = AfterQuit
  /\ Later(T("quitPost")) = {T("quitMark")} \cup AfterQuit
  /\ Later(T("join")) = {Setting("offline")} \cup StopOuter
  /\ \A s \in {"stop", "endThread", "packet", "heartbeat", "startHeartbeat"} : Later(T(s)) = {}
BY Names DEF Later

(* What a step that takes no task leaves alone. *)
Still ==
  /\ phase' = phase /\ todo' = todo
  /\ \A t \in Actors :
       /\ Pending(t)' = Pending(t) /\ Rest(t)' = Rest(t) /\ (Live(t)' <=> Live(t))
       /\ \A x : At(t, x)' <=> At(t, x)
  /\ InUse' <=> InUse
  /\ Starting' <=> Starting
  /\ InOrder' <=> InOrder

(* A step that leaves todo and phase leaves all that is said of them. *)
LEMMA StillIs ==
  ASSUME phase' = phase, todo' = todo
  PROVE  Still
<1>1. \A t \in Actors :
        /\ Pending(t)' = Pending(t) /\ Rest(t)' = Rest(t) /\ (Live(t)' <=> Live(t))
        /\ (Busy(t)' <=> Busy(t)) /\ \A x : At(t, x)' <=> At(t, x)
  BY DEF Pending, Rest, Live, Busy, At
<1>2. (InUse' <=> InUse) /\ (Starting' <=> Starting)
  BY <1>1 DEF InUse, Starting, Actors
<1>3. InOrder' <=> InOrder
  BY DEF InOrder, Rests
<1>. QED
  BY <1>1, <1>2, <1>3 DEF Still

-----------------------------------------------------------------------------
(* The owner's calls                                                       *)

(* A task after a sequence. *)
LEMMA LastTask ==
  ASSUME NEW r \in Seq(Tasks), r # <<>>, NEW x \in Tasks
  PROVE  /\ r \o <<x>> \in Seq(Tasks) /\ r \o <<x>> # <<>>
         /\ Head(r \o <<x>>) = Head(r)
         /\ Items(r \o <<x>>) = Items(r) \cup {x}
         /\ Items(Tail(r \o <<x>>)) \subseteq Items(Tail(r)) \cup {x}
         /\ \A R : Sorted(r, R) /\ x \in R /\ (\A y \in Items(r) : x \in Later(y)) =>
              Sorted(r \o <<x>>, R)
<1>. DEFINE b == <<x>>
<1>1. b \in Seq(Tasks) /\ Items(b) = {x} /\ \A R : Sorted(b, R)
  BY OneTask
<1>. HIDE DEF b
<1>2. /\ r \o b \in Seq(Tasks) /\ r \o b # <<>>
      /\ Head(r \o b) = Head(r) /\ Items(r \o b) = Items(r) \cup {x}
  BY <1>1, ItemsOfConcat
<1>3. Items(Tail(r \o b)) \subseteq Items(Tail(r)) \cup {x}
  BY <1>1, TailOfConcat
<1>4. ASSUME NEW R, Sorted(r, R), x \in R, \A y \in Items(r) : x \in Later(y)
      PROVE  Sorted(r \o b, R)
  BY <1>1, <1>4, SortedConcat
<1>. QED
  BY <1>2, <1>3, <1>4 DEF b

(* s is a sequence of tasks: f, and then those of R. *)
Lists(s, f, R) ==
  s \in Seq(Tasks) /\ s # <<>> /\ Head(s) = f /\ Items(s) = {f} \cup R /\ Items(Tail(s)) \subseteq R

Ordered(s, R) == \A Q : R \subseteq Q => Sorted(s, Q)
Only(x) == <<x>>
Then(s, x) == s \o <<x>>

(* A list of one task, *)
LEMMA ListsOne ==
  ASSUME NEW x \in Tasks
  PROVE  Lists(Only(x), x, {}) /\ Ordered(Only(x), {})
<1>1. Tail(<<x>>) = <<>>
  OBVIOUS
<1>. QED
  BY <1>1, OneTask, NoTask DEF Lists, Ordered, Only

(* and of one more. *)
LEMMA ListsMore ==
  ASSUME NEW s, NEW f, NEW R, Lists(s, f, R), NEW x \in Tasks
  PROVE  Lists(Then(s, x), f, R \cup {x})
<1>1. /\ s \in Seq(Tasks) /\ s # <<>> /\ Head(s) = f /\ Items(s) = {f} \cup R
      /\ Items(Tail(s)) \subseteq R
  BY DEF Lists
<1>2. /\ Then(s, x) \in Seq(Tasks) /\ Then(s, x) # <<>> /\ Head(Then(s, x)) = f
      /\ Items(Then(s, x)) = Items(s) \cup {x}
      /\ Items(Tail(Then(s, x))) \subseteq Items(Tail(s)) \cup {x}
  BY <1>1, LastTask DEF Then
<1>. QED
  BY <1>1, <1>2 DEF Lists

(* It is sorted when the last task may wait behind the others. *)
LEMMA OrderedMore ==
  ASSUME NEW s, NEW f, NEW R, Lists(s, f, R), Ordered(s, R), NEW x \in Tasks,
         x \in Later(f), \A y \in R : x \in Later(y)
  PROVE  Ordered(Then(s, x), R \cup {x})
BY LastTask DEF Lists, Ordered, Then

(* The tasks of Init, *)
LEMMA InitLists ==
  /\ kind = "light" => Lists(InitTasks, Setting("initialized"), {T("connect")})
  /\ kind # "light" => Lists(InitTasks, Setting("initialized"), {})
  /\ \A R : T("connect") \in R \/ kind # "light" => Sorted(InitTasks, R)
<1>. DEFINE a == Setting("initialized")
            b == T("connect")
<1>1. a \in Tasks /\ b \in Tasks /\ b \in Later(a)
  BY Names DEF Tasks, Plain, Steps, Made, DevStates, Later, After
<1>2. CASE kind = "light"
  <2>1. InitTasks = Then(Only(a), b)
    BY <1>2 DEF InitTasks, SetTo, Do, Setting, T, Then, Only
  <2>. HIDE DEF a, b
  <2>2. Lists(Only(a), a, {}) /\ Ordered(Only(a), {})
    BY <1>1, ListsOne
  <2>3. Lists(Then(Only(a), b), a, {} \cup {b}) /\ Ordered(Then(Only(a), b), {} \cup {b})
    BY <1>1, <2>2, ListsMore, OrderedMore
  <2>4. Lists(InitTasks, a, {b}) /\ \A R : b \in R => Sorted(InitTasks, R)
    BY <2>1, <2>3 DEF Ordered
  <2>. QED
    BY <1>2, <2>4 DEF a, b
<1>3. CASE kind # "light"
  <2>1. InitTasks = Only(a)
    BY <1>3 DEF InitTasks, SetTo, Setting, Only
  <2>. HIDE DEF a, b
  <2>2. Lists(InitTasks, a, {}) /\ \A R : Sorted(InitTasks, R)
    BY <1>1, <2>1, ListsOne DEF Ordered
  <2>. QED
    BY <1>3, <2>2 DEF a
<1>. QED
  BY <1>2, <1>3

(* of Start, *)
LEMMA StartLists ==
  ASSUME kind \in Kinds
  PROVE  /\ kind = "ptz" =>
              Lists(StartTasks, T("connect"), {T("start"), T("startReader"), T("send")})
         /\ kind = "sound" => Lists(StartTasks, T("connect"), {T("start"), T("startHeartbeat")})
         /\ kind \notin {"ptz", "sound"} => Lists(StartTasks, T("start"), {})
         /\ \A R : StartOuter \subseteq R => Sorted(StartTasks, R)
<1>. DEFINE a == T("connect")
            b == T("start")
            c == T("startReader")
            d == T("send")
            e == T("startHeartbeat")
            l == Then(Only(a), b)
            m == Then(l, c)
<1>1. /\ {a, b, c, d, e} \subseteq Tasks /\ StartOuter = {b, c, d, e}
      /\ {b, c, d, e} \subseteq Later(a) /\ {c, d, e} \subseteq Later(b) /\ d \in Later(c)
  BY LaterIs, Names DEF Tasks, Plain, Steps, StartOuter, AnyAfter
<1>2. /\ kind = "ptz" => StartTasks = Then(m, d)
      /\ kind = "sound" => StartTasks = Then(l, e)
      /\ kind \notin {"ptz", "sound"} => StartTasks = Only(b)
  BY DEF StartTasks, Do, T, Then, Only
<1>. HIDE DEF a, b, c, d, e
<1>3. Lists(Only(a), a, {}) /\ Ordered(Only(a), {}) /\ Lists(Only(b), b, {}) /\ Ordered(Only(b), {})
  BY <1>1, ListsOne
<1>4. Lists(l, a, {} \cup {b}) /\ Ordered(l, {} \cup {b})
  BY <1>1, <1>3, ListsMore, OrderedMore
<1>. HIDE DEF l
<1>5. Lists(l, a, {b}) /\ Ordered(l, {b})
  BY <1>4
<1>6. Lists(m, a, {b} \cup {c}) /\ Ordered(m, {b} \cup {c})
  BY <1>1, <1>5, ListsMore, OrderedMore
<1>. HIDE DEF m
<1>7. Lists(Then(m, d), a, {b} \cup {c} \cup {d}) /\ Ordered(Then(m, d), {b} \cup {c} \cup {d})
  BY <1>1, <1>6, ListsMore, OrderedMore
<1>8. Lists(Then(l, e), a, {b} \cup {e}) /\ Ordered(Then(l, e), {b} \cup {e})
  BY <1>1, <1>5, ListsMore, OrderedMore
<1>9. {b} \cup {c} \cup {d} = {b, c, d} /\ {b} \cup {e} = {b, e}
  OBVIOUS
<1>10. CASE kind = "ptz"
  <2>1. Lists(StartTasks, a, {b, c, d}) /\ Ordered(StartTasks, {b, c, d})
    BY <1>2, <1>7, <1>9, <1>10
  <2>. QED
    BY <1>1, <1>10, <2>1 DEF Ordered, a, b, c, d
<1>11. CASE kind = "sound"
  <2>1. Lists(StartTasks, a, {b, e}) /\ Ordered(StartTasks, {b, e})
    BY <1>2, <1>8, <1>9, <1>11
  <2>. QED
    BY <1>1, <1>11, <2>1 DEF Ordered, a, b, e
<1>12. CASE kind \notin {"ptz", "sound"}
  BY <1>1, <1>2, <1>3, <1>12 DEF Ordered, b
<1>. QED
  BY <1>10, <1>11, <1>12

(* of Stop, *)
LEMMA StopLists ==
  ASSUME kind \in Kinds
  PROVE  /\ kind = "ptz" => Lists(StopTasks, T("report"), {T("stopReader"), T("stop")})
         /\ kind = "sound" =>
              Lists(StopTasks, T("stopHeartbeat"), {T("joinHeartbeat"), T("close"), T("stop")})
         /\ kind \notin {"ptz", "sound"} => Lists(StopTasks, T("stop"), {})
         /\ \A R : StopOuter \subseteq R => Sorted(StopTasks, R)
<1>. DEFINE a == T("report")
            b == T("stopReader")
            c == T("stop")
            d == T("stopHeartbeat")
            e == T("joinHeartbeat")
            g == T("close")
            l == Then(Only(a), b)
            m == Then(Only(d), e)
            n == Then(m, g)
<1>1. /\ {a, b, c, d, e, g} \subseteq Tasks /\ StopOuter = {b, c, e, g}
      /\ {b, c} \subseteq Later(a) /\ c \in Later(b)
      /\ {c, e, g} \subseteq Later(d) /\ {c, g} \subseteq Later(e) /\ c \in Later(g)
  BY LaterIs, Names DEF Tasks, Plain, Steps, StopOuter, StopEnd, AnyAfter
<1>2. /\ kind = "ptz" => StopTasks = Then(l, c)
      /\ kind = "sound" => StopTasks = Then(n, c)
      /\ kind \notin {"ptz", "sound"} => StopTasks = Only(c)
  BY DEF StopTasks, Do, T, Then, Only
<1>. HIDE DEF a, b, c, d, e, g
<1>3. /\ Lists(Only(a), a, {}) /\ Lists(Only(c), c, {}) /\ Lists(Only(d), d, {})
      /\ Ordered(Only(a), {}) /\ Ordered(Only(c), {}) /\ Ordered(Only(d), {})
  BY <1>1, ListsOne
<1>4. /\ Lists(l, a, {} \cup {b}) /\ Ordered(l, {} \cup {b})
      /\ Lists(m, d, {} \cup {e}) /\ Ordered(m, {} \cup {e})
  BY <1>1, <1>3, ListsMore, OrderedMore
<1>. HIDE DEF l, m
<1>5. Lists(l, a, {b}) /\ Ordered(l, {b}) /\ Lists(m, d, {e}) /\ Ordered(m, {e})
  BY <1>4
<1>6. Lists(Then(l, c), a, {b} \cup {c}) /\ Ordered(Then(l, c), {b} \cup {c})
  BY <1>1, <1>5, ListsMore, OrderedMore
<1>7. Lists(n, d, {e} \cup {g}) /\ Ordered(n, {e} \cup {g})
  BY <1>1, <1>5, ListsMore, OrderedMore
<1>. HIDE DEF n
<1>8. Lists(Then(n, c), d, {e} \cup {g} \cup {c}) /\ Ordered(Then(n, c), {e} \cup {g} \cup {c})
  BY <1>1, <1>7, ListsMore, OrderedMore
<1>9. {b} \cup {c} = {b, c} /\ {e} \cup {g} \cup {c} = {e, g, c}
  OBVIOUS
<1>10. CASE kind = "ptz"
  <2>1. Lists(StopTasks, a, {b, c}) /\ Ordered(StopTasks, {b, c})
    BY <1>2, <1>6, <1>9, <1>10
  <2>. QED
    BY <1>1, <1>10, <2>1 DEF Ordered, a, b, c
<1>11. CASE kind = "sound"
  <2>1. Lists(StopTasks, d, {e, g, c}) /\ Ordered(StopTasks, {e, g, c})
    BY <1>2, <1>8, <1>9, <1>11
  <2>. QED
    BY <1>1, <1>11, <2>1 DEF Ordered, c, d, e, g
<1>12. CASE kind \notin {"ptz", "sound"}
  BY <1>1, <1>2, <1>3, <1>12 DEF Ordered, c
<1>. QED
  BY <1>10, <1>11, <1>12

(* and of delete. *)
LEMMA DeleteLists ==
  ASSUME kind \in Kinds
  PROVE  \E f, R : /\ Lists(DeleteTasks, f, R) /\ {f} \cup R \subseteq Ending
                   /\ kind # "sound" => T("stopHeartbeat") \notin {f} \cup R
                                        /\ T("joinHeartbeat") \notin {f} \cup R
<1>. DEFINE c == T("stop")
            d == T("stopHeartbeat")
            e == T("joinHeartbeat")
            g == T("close")
            h == T("endThread")
<1>1. {c, g, h} \subseteq Tasks /\ Ending = {c, d, e, g, h} /\ {d, e} \cap {c, g, h} = {}
  BY Names DEF Tasks, Plain, Steps, Ending
<1>2. /\ kind = "sound" => DeleteTasks = Then(Then(StopTasks, c), h)
      /\ kind # "sound" => DeleteTasks = Then(Then(Only(g), c), h)
  BY DEF DeleteTasks, Do, T, Then, Only
<1>3. kind = "sound" => Lists(StopTasks, d, {e, g, c})
  BY StopLists
<1>. HIDE DEF c, d, e, g, h
<1>4. CASE kind = "sound"
  <2>1. Lists(Then(StopTasks, c), d, {e, g, c} \cup {c})
    BY <1>1, <1>3, <1>4, ListsMore
  <2>2. Lists(Then(Then(StopTasks, c), h), d, {e, g, c} \cup {c} \cup {h})
    BY <1>1, <2>1, ListsMore
  <2>3. {d} \cup ({e, g, c} \cup {c} \cup {h}) \subseteq Ending
    BY <1>1
  <2>. QED
    BY <1>2, <1>4, <2>2, <2>3
<1>5. CASE kind # "sound"
  <2>1. Lists(Only(g), g, {})
    BY <1>1, ListsOne
  <2>2. Lists(Then(Only(g), c), g, {} \cup {c})
    BY <1>1, <2>1, ListsMore
  <2>3. Lists(Then(Then(Only(g), c), h), g, {} \cup {c} \cup {h})
    BY <1>1, <2>2, ListsMore
  <2>4. /\ {g} \cup ({} \cup {c} \cup {h}) \subseteq Ending
        /\ d \notin {g} \cup ({} \cup {c} \cup {h}) /\ e \notin {g} \cup ({} \cup {c} \cup {h})
    BY <1>1
  <2>. QED
    BY <1>2, <1>5, <2>3, <2>4 DEF d, e
<1>. QED
  BY <1>4, <1>5

(* The owner, idle before, has begun a call: f and then the tasks of R. *)
Begun(f, R) ==
  /\ ~Busy("owner") /\ Pending("owner") = {} /\ ~Live("owner") /\ \A x : ~At("owner", x)
  /\ Pending("owner")' = {f} \cup R /\ Rest("owner")' \subseteq R
  /\ Busy("owner")' /\ \A x : At("owner", x)' <=> x = f
  /\ Live("owner")' <=> \E x \in {f} \cup R : Name(x) \in Setters
  /\ Pending("worker")' = Pending("worker") /\ Rest("worker")' = Rest("worker")
  /\ Busy("worker")' <=> Busy("worker")
  /\ Live("worker")' <=> Live("worker")
  /\ \A x : At("worker", x)' <=> At("worker", x)
  /\ todo' \in [Actors -> Seq(Tasks)]
  /\ InOrder'

(* A call that begins with the owner idle. *)
LEMMA Begins ==
  ASSUME IInv, ~Crashed, todo["owner"] = <<>>, phase # "delete",
         NEW s, NEW f, NEW R, Lists(s, f, R), todo' = [todo EXCEPT !["owner"] = s],
         NEW Q, phase' # "delete" => Sorted(s, Q) /\ Q = Rests("owner")'
  PROVE  Begun(f, R)
<1>1. /\ todo'["owner"] = s /\ todo'["worker"] = todo["worker"] /\ todo' \in [Actors -> Seq(Tasks)]
      /\ s \in Seq(Tasks) /\ s # <<>> /\ Head(s) = f /\ Items(s) = {f} \cup R
      /\ Items(Tail(s)) \subseteq R
  BY AllKnown DEF Types, Actors, Lists
<1>2. ~Busy("owner") /\ Pending("owner") = {} /\ ~Live("owner") /\ \A x : ~At("owner", x)
  BY AllKnown, BusyIs DEF Busy, Live, At, Actors
<1>3. /\ Pending("owner")' = {f} \cup R /\ Rest("owner")' \subseteq R
      /\ Busy("owner")' /\ \A x : At("owner", x)' <=> x = f
      /\ Live("owner")' <=> \E x \in {f} \cup R : Name(x) \in Setters
  BY <1>1 DEF Pending, Rest, Busy, At, Live
<1>4. /\ Pending("worker")' = Pending("worker") /\ Rest("worker")' = Rest("worker")
      /\ Busy("worker")' <=> Busy("worker")
      /\ Live("worker")' <=> Live("worker")
      /\ \A x : At("worker", x)' <=> At("worker", x)
  BY <1>1 DEF Pending, Rest, Busy, At, Live
<1>5. InOrder'
  <2>1. Sorted(todo["worker"], Rests("worker"))' <=> Sorted(todo["worker"], Rests("worker"))
    BY <1>1 DEF Sorted, Rests
  <2>2. Sorted(todo["worker"], Rests("worker"))
    BY AllKnown DEF InOrder, Actors
  <2>3. (todo["owner"])' = s /\ (phase' # "delete" => Rests("owner")' = Q)
    BY <1>1
  <2>4. phase' # "delete" => Sorted(todo["owner"], Rests("owner"))'
    BY <2>3 DEF Sorted
  <2>. QED
    BY <2>1, <2>2, <2>4 DEF InOrder, Actors
<1>. QED
  BY <1>1, <1>2, <1>3, <1>4, <1>5 DEF Begun

-----------------------------------------------------------------------------
(* SetState                                                                *)

(* TellState keeps the invariant. *)
LEMMA TellKeeps ==
  ASSUME IInv, NEW t \in Actors, TellState(t)
  PROVE  IInv'
<1>1. PICK s \in Made : Head(todo[t]) = Telling(s) /\ Arg(t) = s /\ ~Crashed
  BY AtStep, ByName DEF TellState, IInv, Steps
<1>2. ReaderSame /\ m_socket' = m_socket /\ ThreadSame /\ DriverSame /\ EnvSame
  BY Same DEF TellState
<1>3. /\ m_devState' = m_devState /\ m_shuttingDown' = m_shuttingDown /\ m_statusCb' = m_statusCb
      /\ m_statusCb => note' = [said |-> s, state |-> m_devState]
      /\ ~m_statusCb => note' = note
  BY <1>1 DEF TellState, Tell
<1>4. Moved(t, Telling(s), {}, Telling(s)) /\ InOrder'
  BY <1>1, <1>2, Moves DEF TellState, Steps, EnvSame
<1>5. Later(Telling(s)) = After(s) /\ (Live(t)' <=> Live(t))
  BY <1>4, Names DEF Later, Moved, Setters
<1>6. ~Crashed' /\ Types'
  BY <1>1, <1>2, <1>3, <1>4, AllKnown
     DEF Crashed, Types, Moved, Made, ReaderSame, ThreadSame, DriverSame, EnvSame
<1>7. NoteIsState'
  BY <1>1, <1>2, <1>3, <1>4, AllKnown, Names
     DEF NoteIsState, TellsState, Moved, Waiting, OfOwner, OfWorker, StartsAlone, Ending,
         Actors, DriverSame, Busy
<1>8. ThreadKnown'
  BY <1>1, <1>2, <1>3, <1>4, <1>5, AllKnown, Names DEF ThreadKnown, WorkerKnown,
     WorkerHandles, Busy, QuitHasWorker, Has, OwnerTasks, Reaching, WorkerTasks,
     OwnerOnly, NewKnown, StartsAlone, NotYetShutting, NotYetStarted, StartedOnce, Moved,
     Waiting, OfOwner, OfWorker, Idle, Actors, ReaderSame, ThreadSame, DriverSame, EnvSame
<1>9. StopKnown'
  BY <1>1, <1>2, <1>3, <1>4, <1>5, AllKnown, Names DEF StopKnown, QuitThenJoin, Has,
     JoinKnown, Leaving, StopSteps, Reaching, StopSets, Setters, StopIsCalm, Calm,
     BeatJoined, DeleteKnown, Ending, OnlySoundBeats, Moved, Waiting, OfOwner, OfWorker,
     Idle, Actors, ReaderSame, ThreadSame, DriverSame, EnvSame
<1>10. StateKnown'
  BY <1>1, <1>2, <1>3, <1>4, <1>5, AllKnown, Names DEF StateKnown, AssignsLegally, Actors,
     Made, UsedStates, Used, UsedAssigns, OnlineIsGentle, IsOnline, Gentle, ErrorIsLone,
     OfflineIsCalm, OnlyOnline, ClosesInError, Has, Reaching, ConnectingOpens, HasOpen,
     ErrorCloses, StartStates, OwnerTasks, Moved, Waiting, OfOwner, OfWorker, Idle,
     ReaderSame, ThreadSame, DriverSame, EnvSame
<1>11. StartKnown'
  BY <1>1, <1>2, <1>3, <1>4, <1>5, AllKnown, Names DEF StartKnown, StartSets, Made,
     StartConnects, Has, Reaching, StartOpens, HasOpen, StartWrites, StartSends,
     StartStates, InitSets, Setters, Moved, Waiting, OfOwner, OfWorker, Idle, Actors,
     ReaderSame, ThreadSame, DriverSame, EnvSame
<1>12. ReaderKnown'
  BY <1>1, <1>2, <1>3, <1>4, <1>5, AllKnown, Names DEF ReaderKnown, AssignThenEnter,
     Actors, Made, Has, JoinThenDrop, UsedStartsNoReader, Used, IsOnline, SpawnKnown,
     StartReaderKnown, DropKnown, StopReaderKnown, KeepIsSpawned, StopIsDropped,
     ReaderRuns, OnlineReads, OfflineStops, DeafAtFirst, Moved, Waiting, OfOwner,
     OfWorker, Idle, ReaderSame, ThreadSame, DriverSame, EnvSame
<1>13. SocketKnown'
  BY <1>1, <1>2, <1>3, <1>4, <1>5, AllKnown, Names DEF SocketKnown, OnlineIsOpen,
     IsOnline, OpenThenOnline, Reaching, ErrorIsClosed, Actors, Has, TellsState, Made,
     Moved, Waiting, OfOwner, OfWorker, Idle, ReaderSame, ThreadSame, DriverSame, EnvSame
<1>. QED
  BY <1>4, <1>6, <1>7, <1>8, <1>9, <1>10, <1>11, <1>12, <1>13 DEF IInv, Known

(* SetState when it is refused, invalid or changes nothing, *)
LEMMA SetPopsKeeps ==
  ASSUME IInv, NEW t \in Actors, SetState(t),
         Refused(t) \/ ~Valid(m_devState, Arg(t)) \/ m_devState = Arg(t)
  PROVE  IInv'
<1>1. PICK s \in Made : Head(todo[t]) = Setting(s) /\ Arg(t) = s /\ ~Crashed
  BY AtStep, ByName DEF SetState, IInv, Steps
<1>2. /\ ReaderSame /\ m_socket' = m_socket /\ ThreadSame /\ DriverSame /\ EnvSame
      /\ m_devState' = m_devState /\ m_shuttingDown' = m_shuttingDown /\ m_statusCb' = m_statusCb
  BY Same DEF SetState
<1>3. GoOn(t, <<>>)
  BY <1>1 DEF SetState, Valid
<1>4. Moved(t, Setting(s), {}, Setting(s)) /\ InOrder'
  BY <1>1, <1>2, <1>3, Moves DEF SetState, Steps, EnvSame
<1>5. (m_shuttingDown /\ s # "offline") \/ ~Valid(m_devState, s) \/ m_devState = s
  BY <1>1 DEF Refused
<1>6. \/ note' = note
      \/ /\ note' = [said |-> s, state |-> m_devState] /\ m_statusCb
         /\ ~Valid(m_devState, s) /\ (~m_shuttingDown \/ s = "offline")
  BY <1>1 DEF SetState, Tell, Valid, Refused
<1>7. /\ Later(Setting(s)) = After(s) /\ Live(t) /\ T("join") \notin After(s)
      /\ s = "offline" => m_devState \in {"offline", "unknown"}
  BY <1>1, <1>4, <1>5, AllKnown, Names, ValidIs
     DEF Later, After, Opens, StartOuter, StopEnd, Moved, Setters, Types, DevStates
<1>8. ~Crashed' /\ Types'
  BY <1>1, <1>2, <1>4, <1>6, AllKnown
     DEF Crashed, Types, Moved, Made, ReaderSame, ThreadSame, DriverSame, EnvSame
<1>9. InUse \/ (phase = "delete" /\ t = "owner")
  BY <1>1, <1>4, <1>5, AllKnown DEF Moved, OfOwner, OfWorker, StartSets, NotYetShutting
<1>10. phase # "delete"
  BY <1>4, Names DEF Moved, Ending
<1>11. NoteIsState'
  <2>1. SUFFICES ASSUME kind \notin {"ptz", "sound"}, m_statusCb, ~Valid(m_devState, s),
                        ~m_shuttingDown \/ s = "offline"
                 PROVE  FALSE
    BY <1>1, <1>2, <1>6, AllKnown DEF NoteIsState, DriverSame
  <2>2. Used /\ m_devState \notin {"unknown", "connecting"}
    BY <1>1, <1>9, <1>10, <2>1, AllKnown DEF UsedStates, Used
  <2>3. s # "offline"
    BY <1>1, <1>7, <2>1, <2>2, AllKnown, ValidIs DEF DevStates
  <2>4. t = "worker"
    BY <1>1, <1>4, <2>1, <2>2, <2>3, AllKnown, Names
       DEF Moved, StopIsCalm, StopSteps, StopSets, Setters, Calm, Used, OfOwner
  <2>5. IsOnline
    BY <1>1, <1>7, <2>1, <2>2, <2>4, AllKnown DEF OnlyOnline
  <2>6. Setting(s) = Setting("error")
    BY <1>1, <1>4, <1>7, <2>1, <2>2, <2>3, <2>5, AllKnown, Names DEF OnlineIsGentle, Gentle,
       Moved
  <2>7. s = "error"
    BY <2>6, Names
  <2>. QED
    BY <2>1, <2>5, <2>7, ValidIs DEF IsOnline
<1>12. ThreadKnown'
  BY <1>1, <1>2, <1>4, <1>5, <1>7, <1>9, <1>10, ValidIs, AllKnown, Names DEF ThreadKnown,
     WorkerKnown, WorkerHandles, Busy, QuitHasWorker, Has, OwnerTasks, Reaching,
     WorkerTasks, OwnerOnly, NewKnown, StartsAlone, NotYetShutting, NotYetStarted,
     StartedOnce, Moved, Waiting, OfOwner, OfWorker, Idle, Actors, ReaderSame, ThreadSame,
     DriverSame, EnvSame
<1>13. StopKnown'
  BY <1>1, <1>2, <1>4, <1>5, <1>7, <1>9, <1>10, ValidIs, AllKnown, Names DEF StopKnown,
     QuitThenJoin, Has, JoinKnown, Leaving, StopSteps, Reaching, StopSets, Setters,
     StopIsCalm, Calm, BeatJoined, DeleteKnown, Ending, OnlySoundBeats, UsedStates, Moved,
     Waiting, OfOwner, OfWorker, Idle, Actors, ReaderSame, ThreadSame, DriverSame, EnvSame
<1>14. StateKnown'
  BY <1>1, <1>2, <1>4, <1>5, <1>7, <1>9, <1>10, ValidIs, AllKnown, Names DEF StateKnown,
     AssignsLegally, Actors, Made, UsedStates, Used, UsedAssigns, OnlineIsGentle,
     IsOnline, Gentle, ErrorIsLone, OfflineIsCalm, OnlyOnline, ClosesInError, Has,
     Reaching, ConnectingOpens, HasOpen, ErrorCloses, Moved, Waiting, OfOwner, OfWorker,
     Idle, ReaderSame, ThreadSame, DriverSame, EnvSame
<1>15. StartKnown'
  BY <1>1, <1>2, <1>4, <1>5, <1>7, <1>9, <1>10, ValidIs, AllKnown, Names DEF StartKnown,
     StartSets, Made, StartConnects, Has, Reaching, StartOpens, HasOpen, StartWrites,
     StartSends, StartStates, InitSets, Setters, Moved, Waiting, OfOwner, OfWorker, Idle,
     Actors, ReaderSame, ThreadSame, DriverSame, EnvSame
<1>16. ReaderKnown'
  BY <1>1, <1>2, <1>4, <1>5, <1>7, <1>9, <1>10, ValidIs, AllKnown, Names DEF ReaderKnown,
     AssignThenEnter, Actors, Made, Has, JoinThenDrop, UsedStartsNoReader, Used, IsOnline,
     SpawnKnown, StartReaderKnown, DropKnown, StopReaderKnown, KeepIsSpawned,
     StopIsDropped, ReaderRuns, OnlineReads, OfflineStops, DeafAtFirst, Moved, Waiting,
     OfOwner, OfWorker, Idle, ReaderSame, ThreadSame, DriverSame, EnvSame
<1>17. SocketKnown'
  BY <1>1, <1>2, <1>4, <1>5, <1>7, <1>9, <1>10, ValidIs, AllKnown, Names DEF SocketKnown,
     OnlineIsOpen, IsOnline, OpenThenOnline, Reaching, ErrorIsClosed, Actors, Has,
     TellsState, Made, Moved, Waiting, OfOwner, OfWorker, Idle, ReaderSame, ThreadSame,
     DriverSame, EnvSame
<1>. QED
  BY <1>4, <1>8, <1>11, <1>12, <1>13, <1>14, <1>15, <1>16, <1>17 DEF IInv, Known

(* and when it begins a transition. *)
LEMMA SetBeginsKeeps ==
  ASSUME IInv, NEW t \in Actors, SetState(t),
         ~Refused(t), Valid(m_devState, Arg(t)), m_devState # Arg(t)
  PROVE  IInv'
<1>1. PICK s \in Made : Head(todo[t]) = Setting(s) /\ Arg(t) = s /\ ~Crashed
  BY AtStep, ByName DEF SetState, IInv, Steps
<1>2. StateSame /\ ReaderSame /\ m_socket' = m_socket /\ ThreadSame /\ DriverSame /\ EnvSame
  BY Same DEF SetState, Valid, StateSame
<1>3. GoOn(t, (<<Assigning(s)>> \o <<T("enter")>>) \o <<Telling(s)>>)
  BY <1>1 DEF SetState, Valid, Assigning, Telling, T, Do
<1>4. /\ Assigning(s) \in Tasks /\ T("enter") \in Tasks /\ Telling(s) \in Tasks
      /\ T("enter") \in Inner /\ Telling(s) \in Inner /\ Busy(t)
  BY <1>1, AtStep, BusyIs, AllKnown DEF Tasks, Plain, Steps, Inner, Tells, SetState
<1>5. phase # "delete"
  BY <1>1, <1>4, AtTheEnd, Names DEF Ending
<1>6. Moved(t, Setting(s), {Assigning(s), T("enter"), Telling(s)}, Assigning(s)) /\ InOrder'
  <2>1. After(s) \subseteq AnyAfter /\ Inner \subseteq Rests(t)
    BY <1>1, <1>4, <1>5, AfterIs, InnerRests
  <2>2. /\ Room(t, Assigning(s)) /\ Room(t, T("enter")) /\ Room(t, Telling(s))
        /\ T("enter") \in Later(Assigning(s)) \cap Rests(t)
        /\ Telling(s) \in Later(Assigning(s)) \cap Later(T("enter")) \cap Rests(t)
    BY <1>1, <1>4, <2>1, LaterIs DEF Room, Tells
  <2>. QED
    BY <1>1, <1>2, <1>3, <1>4, <2>2, Moves, Names DEF SetState, Steps, EnvSame
<1>7. ~Crashed' /\ Types' /\ NoteIsState'
  BY <1>1, <1>2, <1>6, AllKnown
     DEF Crashed, Types, NoteIsState, Moved, StateSame, ReaderSame, ThreadSame, DriverSame, EnvSame
<1>8. /\ T("join") \notin After(s) /\ T("enter") \notin After(s) /\ Later(Setting(s)) = After(s)
      /\ Live(t) /\ Live(t)'
  BY <1>6, AfterIs, LaterIs, Names DEF Moved, Setters
<1>9. Used => s \in {"error", "offline"}
  <2>1. SUFFICES ASSUME Used, s # "offline"
                 PROVE  s = "error"
    OBVIOUS
  <2>2. m_devState \in {"initialized", "offline", "online", "error"} /\ ~m_shuttingDown
    BY <1>1, <2>1, AllKnown DEF UsedStates, Used, Types, DevStates, Refused
  <2>3. CASE m_devState = "online"
    <3>1. Gentle(t)
      BY <1>1, <1>8, <2>1, <2>2, <2>3, AllKnown DEF OnlineIsGentle, IsOnline
    <3>. QED
      BY <1>6, <3>1, Names DEF Gentle, Moved
  <2>4. CASE m_devState \in {"initialized", "offline"}
    BY <1>1, <1>8, <2>1, <2>2, <2>4, AllKnown DEF OfflineIsCalm, Actors
  <2>5. CASE m_devState = "error"
    <3>1. s # "initialized"
      BY <1>1, <1>6, <2>1, AllKnown
         DEF Moved, OwnerTasks, WorkerTasks, Reaching, Used, InUse, OfOwner, OfWorker
    <3>. QED
      BY <1>1, <2>1, <2>5, <3>1, ValidIs
  <2>. QED
    BY <2>2, <2>3, <2>4, <2>5
<1>10. s = "connecting" /\ m_keepReading => phase = "start" /\ kind = "ptz" /\ Live("owner")
  <2>1. SUFFICES ASSUME s = "connecting", m_keepReading,
                        ~(phase = "start" /\ kind = "ptz" /\ Live("owner"))
                 PROVE  FALSE
    OBVIOUS
  <2>2. m_devState = "offline"
    BY <1>1, <2>1, AllKnown, ValidIs DEF DeafAtFirst
  <2>3. PICK u \in Actors : Has(u, "enter") \/ Has(u, "stopReader")
    BY <1>1, <2>1, <2>2, AllKnown DEF OfflineStops, IsOnline
  <2>4. ~(t = "owner" /\ phase = "stop")
    <3>1. SUFFICES ASSUME t = "owner", phase = "stop"
                   PROVE  FALSE
      OBVIOUS
    <3>2. kind = "sound"
      BY <1>9, <2>1, <3>1 DEF Used, InUse
    <3>. QED
      BY <1>1, <1>6, <2>1, <3>1, <3>2, AllKnown, Names
         DEF Moved, StopIsCalm, StopSteps, StopSets, Calm, Setters
  <2>5. t = "worker" /\ u = "owner" /\ InUse /\ Busy("owner")
    BY <1>6, <1>8, <1>5, <2>3, <2>4, Names
       DEF Moved, Waiting, OfOwner, OfWorker, Actors, Has, Busy
  <2>6. kind = "sound"
    BY <1>9, <2>1, <2>5 DEF Used
  <2>. QED
    BY <1>6, <2>3, <2>5, <2>6, Names DEF Moved, OfWorker, Calm, Leaving, Has
<1>11. ThreadKnown'
  BY <1>1, <1>2, <1>6, <1>8, <1>9, <1>10, AllKnown, Names DEF ThreadKnown, WorkerKnown,
     WorkerHandles, Busy, QuitHasWorker, Has, OwnerTasks, Reaching, WorkerTasks,
     OwnerOnly, NewKnown, StartsAlone, NotYetShutting, NotYetStarted, StartedOnce, Moved,
     Waiting, OfOwner, OfWorker, Idle, Actors, StateSame, ReaderSame, ThreadSame,
     DriverSame, EnvSame
<1>12. StopKnown'
  BY <1>1, <1>2, <1>6, <1>8, <1>9, <1>10, AllKnown, Names DEF StopKnown, QuitThenJoin, Has,
     JoinKnown, Leaving, StopSteps, Reaching, StopSets, Setters, StopIsCalm, Calm,
     BeatJoined, DeleteKnown, Ending, OnlySoundBeats, Moved, Waiting, OfOwner, OfWorker,
     Idle, Actors, StateSame, ReaderSame, ThreadSame, DriverSame, EnvSame
<1>13. StateKnown'
  BY <1>1, <1>2, <1>6, <1>8, <1>9, <1>10, AllKnown, Names DEF StateKnown, AssignsLegally,
     Actors, Made, UsedStates, Used, UsedAssigns, OnlineIsGentle, IsOnline, Gentle,
     ErrorIsLone, OfflineIsCalm, OnlyOnline, ClosesInError, Has, Reaching,
     ConnectingOpens, HasOpen, ErrorCloses, Moved, Waiting, OfOwner, OfWorker, Idle,
     StateSame, ReaderSame, ThreadSame, DriverSame, EnvSame
<1>14. StartKnown'
  BY <1>1, <1>2, <1>6, <1>8, <1>9, <1>10, AllKnown, Names DEF StartKnown, StartSets, Made,
     StartConnects, Has, Reaching, StartOpens, HasOpen, StartWrites, StartSends,
     StartStates, InitSets, Setters, Moved, Waiting, OfOwner, OfWorker, Idle, Actors,
     StateSame, ReaderSame, ThreadSame, DriverSame, EnvSame
<1>15. ReaderKnown'
  BY <1>1, <1>2, <1>6, <1>8, <1>9, <1>10, AllKnown, Names DEF ReaderKnown, AssignThenEnter,
     Actors, Made, Has, JoinThenDrop, UsedStartsNoReader, Used, IsOnline, SpawnKnown,
     StartReaderKnown, DropKnown, StopReaderKnown, KeepIsSpawned, StopIsDropped,
     ReaderRuns, OnlineReads, OfflineStops, DeafAtFirst, Moved, Waiting, OfOwner,
     OfWorker, Idle, StateSame, ReaderSame, ThreadSame, DriverSame, EnvSame
<1>16. SocketKnown'
  BY <1>1, <1>2, <1>6, <1>8, <1>9, <1>10, AllKnown, Names DEF SocketKnown, OnlineIsOpen,
     IsOnline, OpenThenOnline, Reaching, ErrorIsClosed, Actors, Has, TellsState, Made,
     Moved, Waiting, OfOwner, OfWorker, Idle, StateSame, ReaderSame, ThreadSame,
     DriverSame, EnvSame
<1>. QED
  BY <1>6, <1>7, <1>11, <1>12, <1>13, <1>14, <1>15, <1>16 DEF IInv, Known

(* The assignment of the state: by AssignsLegally the transition is still
   valid when it is made. *)
LEMMA AssignKeeps ==
  ASSUME IInv, NEW t \in Actors, Assign(t)
  PROVE  IInv'
<1>1. PICK s \in Made : Head(todo[t]) = Assigning(s) /\ Arg(t) = s /\ ~Crashed
  BY AtStep, ByName DEF Assign, IInv, Steps
<1>2. /\ ReaderSame /\ m_socket' = m_socket /\ ThreadSame /\ DriverSame /\ EnvSame
      /\ m_shuttingDown' = m_shuttingDown /\ m_statusCb' = m_statusCb /\ note' = note
      /\ m_devState' = s
  BY <1>1, Same DEF Assign
<1>3. Moved(t, Assigning(s), {}, Assigning(s)) /\ InOrder'
  BY <1>1, <1>2, Moves DEF Assign, Steps, EnvSame
<1>4. phase # "delete"
  BY <1>3, Names DEF Moved, Ending
<1>5. ~Crashed' /\ Types' /\ NoteIsState'
  BY <1>1, <1>2, <1>3, AllKnown
     DEF Crashed, Types, NoteIsState, Moved, Made, ReaderSame, ThreadSame, DriverSame, EnvSame
<1>6. /\ Valid(m_devState, s)
      /\ Assigning(s) \in Pending(t) /\ Live(t)
      /\ T("enter") \in Rest(t) /\ T("enter") \in Pending(t)' /\ Busy(t)'
  BY <1>1, <1>3, AllKnown, Names DEF AssignsLegally, AssignThenEnter, Moved, Has, Busy, Setters
<1>7. /\ Later(Assigning(s)) = {T("enter"), Telling(s)} \cup After(s)
      /\ T("join") \notin After(s)
      /\ Rest(t) \subseteq {T("enter"), Telling(s)} \cup After(s)
  BY <1>3, <1>4, AfterIs, LaterIs DEF Moved
<1>8. /\ s = "connecting" => HasOpen(t)' /\ Live(t)'
      /\ s = "error" => T("close") \in Pending(t)'
  <2>1. Reaching(t, s)
    BY <1>6 DEF Reaching
  <2>2. s = "connecting" => Opening("connect") \in Rest(t) \/ Opening("send") \in Rest(t)
    BY <1>1, <1>3, <2>1, AllKnown, Names DEF ConnectingOpens, HasOpen, Moved
  <2>3. s = "error" => T("close") \in Rest(t)
    BY <1>1, <1>3, <2>1, AllKnown, Names DEF ErrorCloses, Has, Moved
  <2>. QED
    BY <1>3, <2>2, <2>3, Names DEF Moved, HasOpen, RestLive, Setters
<1>9. InUse /\ t = "owner" =>
        /\ phase = "stop" /\ Busy("owner")
        /\ ~Has("owner", "stop") => s = "offline"
        /\ m_shuttingDown \/ kind # "ptz" => ~Busy("worker")
  <2>1. SUFFICES ASSUME InUse, t = "owner"
                 PROVE  /\ phase = "stop" /\ Busy("owner")
                        /\ ~Has("owner", "stop") => s = "offline"
                        /\ m_shuttingDown \/ kind # "ptz" => ~Busy("worker")
    OBVIOUS
  <2>2. phase = "stop" /\ Busy("owner")
    BY <1>3, <2>1 DEF Moved, OfOwner, At
  <2>3. ~Has("owner", "join")
    BY <1>1, <1>3, <2>1, AllKnown, Joining, Names DEF Moved
  <2>4. ~Has("owner", "stop") => s = "offline"
    BY <1>1, <1>6, <2>1, <2>2, AllKnown, Names DEF StopSets, Setters
  <2>5. Has("owner", "stop") => kind = "ptz" /\ ~m_shuttingDown
    BY <1>1, <1>6, <2>1, <2>2, <2>3, AllKnown, Names DEF StopIsCalm, StopSteps, Calm
  <2>6. ~Has("owner", "stop") => ~Busy("worker")
    BY <1>1, <2>2, <2>3, AllKnown DEF StopSteps, WorkerHandles
  <2>. QED
    BY <2>2, <2>4, <2>5, <2>6
<1>10. Used => s \in {"error", "offline"} /\ ~Live(t)'
  <2>1. SUFFICES ASSUME Used
                 PROVE  s \in {"error", "offline"} /\ ~Live(t)'
    OBVIOUS
  <2>2. s \in {"error", "offline"}
    BY <1>1, <1>6, <2>1, AllKnown DEF UsedAssigns
  <2>3. ~RestLive(t)
    BY <1>3, <1>7, <2>1, <2>2, AfterIs, Names
       DEF RestLive, Moved, Waiting, OfOwner, OfWorker, Used, Setters
  <2>. QED
    BY <1>3, <2>2, <2>3 DEF Moved
<1>11. Used /\ s = "offline" => ~Live("worker")' /\ (~m_shuttingDown => ~Live("owner")')
  <2>1. SUFFICES ASSUME Used, s = "offline"
                 PROVE  ~Live("worker")' /\ (~m_shuttingDown => ~Live("owner")')
    OBVIOUS
  <2>2. ASSUME ~m_shuttingDown
        PROVE  ~Live("owner") \/ ~Live("worker")
    <3>1. ~IsOnline
      BY <1>1, <1>3, <1>6, <2>1, <2>2, AllKnown, Names DEF OnlineIsGentle, Gentle, Moved
    <3>2. m_devState \in {"initialized", "offline", "error"}
      BY <1>1, <2>1, <3>1, AllKnown DEF UsedStates, Used, Types, DevStates, IsOnline
    <3>. QED
      BY <1>1, <2>1, <2>2, <3>2, AllKnown DEF ErrorIsLone, OfflineIsCalm
  <2>3. ASSUME m_shuttingDown, t = "owner"
        PROVE  ~Live("worker")
    BY <1>9, <2>1, <2>3 DEF Used, Live, Busy
  <2>. QED
    BY <1>3, <1>6, <1>10, <2>1, <2>2, <2>3 DEF Moved, OfOwner, OfWorker, Actors
<1>12. /\ s \notin {"unknown", "working"} /\ kind' = kind /\ phase' = phase
       /\ (InUse' <=> InUse) /\ (Starting' <=> Starting) /\ (Used' <=> Used)
       /\ InUse \/ Starting
  BY <1>2, <1>3, <1>4, <1>6
     DEF Made, Moved, OfOwner, OfWorker, Used, DriverSame, EnvSame, Idle, Busy, Actors
<1>13. ASSUME NEW u \in Actors \ {t}, Pending(u) # {}
       PROVE  /\ InUse /\ Pending(u)' = Pending(u) /\ (\A y : At(u, y)' <=> At(u, y))
              /\ t = "worker" => u = "owner" /\ phase = "stop"
              /\ kind # "ptz" => t = "worker" /\ Pending(u) \subseteq Calm \cup Leaving
  BY <1>3, <1>4, <1>9, <1>13 DEF Moved, OfOwner, OfWorker, Actors, Busy
<1>14. AssignsLegally'
  <2>1. SUFFICES ASSUME NEW u \in Actors, NEW r \in Made, At(u, Assigning(r))'
                 PROVE  Valid(s, r)
    BY <1>2 DEF AssignsLegally
  <2>2. Assigning(r) \notin Rest(t)
    BY <1>3 DEF Moved, Waiting
  <2>3. u # t /\ Pending(u)' # {}
    BY <1>3, <2>1, <2>2 DEF Moved, At, Busy
  <2>4. At(u, Assigning(r)) /\ Pending(u) # {} /\ Assigning(r) \in Pending(u)
    BY <1>1, <1>3, <2>1, <2>3, BusyIs, AllKnown DEF Moved, OfOwner, OfWorker, Actors, At, Busy
  <2>5. kind = "ptz"
    BY <1>13, <2>3, <2>4, Names DEF Calm, Leaving
  <2>6. Used
    BY <1>13, <2>3, <2>4, <2>5 DEF Used
  <2>7. r \in {"error", "offline"} /\ s \in {"error", "offline"}
    BY <1>1, <1>10, <2>4, <2>6, AllKnown DEF UsedAssigns
  <2>. QED
    BY <2>7, ValidIs DEF DevStates
<1>15. OnlyOnline'
  BY <1>1, <1>3, <1>9, <1>10, <1>12 DEF OnlyOnline, Moved, OfOwner, Actors, Live, Busy, Used
<1>16. s = "online" /\ kind # "sound" => Starting /\ t = "owner" /\ ~InUse
  BY <1>3, <1>10, <1>12 DEF Moved, OfOwner, OfWorker, Used
<1>17. ClosesInError'
  <2>1. SUFFICES ASSUME kind # "sound", s = "online", NEW u \in Actors, T("close") \in Pending(u)'
                 PROVE  FALSE
    BY <1>2, <1>12 DEF ClosesInError, IsOnline, Has
  <2>2. u = t
    BY <1>3, <1>13, <1>16, <2>1 DEF Moved, OfOwner, Actors
  <2>3. T("close") \in After(s)
    BY <1>3, <1>7, <2>1, <2>2, Names DEF Moved
  <2>. QED
    BY <2>1, <2>3, AfterIs
<1>18. StartSends'
  <2>1. SUFFICES ASSUME Starting, Has("owner", "send")' \/ Has("owner", "startReader")'
                 PROVE  s \in {"offline", "online"} \/ HasOpen("owner")'
    BY <1>2, <1>12 DEF StartSends
  <2>2. t = "owner"
    BY <1>3, <2>1 DEF Moved, OfWorker
  <2>3. T("send") \in After(s) \/ T("startReader") \in After(s)
    BY <1>3, <1>7, <2>1, <2>2, Names DEF Moved, Has
  <2>. QED
    BY <1>8, <2>2, <2>3, AfterIs DEF Made, DevStates
<1>19. StartReaderKnown'
  <2>1. SUFFICES ASSUME NEW u \in Actors, T("startReader") \in Pending(u)'
                 PROVE  phase = "start" /\ kind = "ptz" /\ T("send") \in Pending("owner")'
    <3>1. \A u \in Actors : At(u, T("startReader")) \/ T("startReader") \in Rest(u)
            => T("startReader") \in Pending(u)
      BY <1>1, AllKnown, BusyIs DEF At
    <3>2. \A u \in Actors : At(u, T("startReader"))' \/ T("startReader") \in Rest(u)'
            => T("startReader") \in Pending(u)'
      BY <1>3, <3>1 DEF Moved, OfOwner, OfWorker, Actors
    <3>. QED
      BY <1>12, <3>2 DEF StartReaderKnown, Has
  <2>2. T("startReader") \in Pending(u) /\ (At(u, T("startReader")) => u # t)
    BY <1>3, <2>1, Names DEF Moved, OfOwner, OfWorker, Actors
  <2>3. ~At(u, T("startReader"))
    <3>1. SUFFICES ASSUME At(u, T("startReader"))
                   PROVE  FALSE
      OBVIOUS
    <3>2. kind = "ptz" /\ InUse
      BY <1>13, <2>2, <3>1, Names DEF Calm, Leaving
    <3>. QED
      BY <1>1, <2>2, <3>2, AllKnown DEF UsedStartsNoReader, Used, Has
  <2>4. phase = "start" /\ kind = "ptz" /\ T("send") \in Pending("owner")
    BY <1>1, <2>2, <2>3, AllKnown, BusyIs DEF StartReaderKnown, Has
  <2>. QED
    BY <1>3, <2>4, Names DEF Moved, OfOwner, OfWorker
<1>20. DeafAtFirst'
  <2>1. SUFFICES ASSUME m_keepReading
                 PROVE  /\ s \notin {"unknown", "initialized"}
                        /\ s = "connecting" \/ (\E u \in Actors : Assigning("connecting") \in Pending(u)')
                             => phase = "start" /\ kind = "ptz" /\ Live("owner")'
    BY <1>2, <1>12 DEF DeafAtFirst, ReaderSame
  <2>2. s # "initialized"
    BY <1>1, <1>6, <2>1, AllKnown DEF DeafAtFirst, OwnerTasks, WorkerTasks, Reaching, Actors
  <2>3. ASSUME s = "connecting" \/ (\E u \in Actors : Assigning("connecting") \in Pending(u)')
        PROVE  phase = "start" /\ kind = "ptz" /\ Live("owner")'
    <3>1. \E u \in Actors : Assigning("connecting") \in Pending(u)
      BY <1>3, <1>6, <2>3 DEF Moved, OfOwner, OfWorker, Actors
    <3>2. phase = "start" /\ kind = "ptz" /\ Live("owner")
      BY <1>1, <2>1, <3>1, AllKnown DEF DeafAtFirst
    <3>3. t = "owner" /\ ~Busy("worker")
      BY <1>1, <1>3, <3>2, AllKnown DEF Moved, OfWorker, OfOwner, Live, Busy, InUse, Starting,
         StartsAlone
    <3>4. s = "connecting"
      BY <1>3, <2>3, <3>3 DEF Moved, OfOwner, Actors, Busy, Waiting
    <3>. QED
      BY <1>8, <3>2, <3>3, <3>4
  <2>. QED
    BY <1>12, <2>2, <2>3
<1>21. OnlineIsOpen'
  BY <1>1, <1>2, <1>6, <1>12, <1>16, AllKnown DEF OnlineIsOpen, OpenThenOnline, IsOnline,
     Reaching
<1>22. TellsState'
  <2>1. SUFFICES ASSUME kind \notin {"ptz", "sound"}, NEW u \in Actors, NEW r \in Made,
                        Telling(r) \in Pending(u)'
                 PROVE  s = r
    BY <1>2, <1>12 DEF TellsState
  <2>2. u = t
    BY <1>13, <1>3, <2>1, Names DEF Calm, Leaving, Moved, OfOwner, OfWorker, Actors
  <2>3. Telling(r) = Telling(s)
    BY <1>3, <1>7, <2>1, <2>2, AfterIs, Names DEF Moved
  <2>. QED
    BY <2>3, Names
<1>23. ThreadKnown'
  BY <1>1, <1>2, <1>3, <1>4, <1>6, <1>7, <1>8, <1>9, <1>10, <1>11, <1>12, <1>13, AfterIs,
     AllKnown, Names DEF ThreadKnown, WorkerKnown, WorkerHandles, Busy, QuitHasWorker,
     Has, OwnerTasks, Reaching, WorkerTasks, OwnerOnly, NewKnown, StartsAlone,
     NotYetShutting, NotYetStarted, StartedOnce, Moved, Waiting, OfOwner, OfWorker, Idle,
     Actors, ReaderSame, ThreadSame, DriverSame, EnvSame
<1>24. StopKnown'
  BY <1>1, <1>2, <1>3, <1>4, <1>6, <1>7, <1>8, <1>9, <1>10, <1>11, <1>12, <1>13, AfterIs,
     AllKnown, Names DEF StopKnown, QuitThenJoin, Has, JoinKnown, Leaving, StopSteps,
     Reaching, StopSets, Setters, StopIsCalm, Calm, BeatJoined, DeleteKnown, Ending,
     OnlySoundBeats, Moved, Waiting, OfOwner, OfWorker, Idle, Actors, ReaderSame,
     ThreadSame, DriverSame, EnvSame, Busy
<1>25. StateKnown'
  BY <1>1, <1>2, <1>3, <1>4, <1>6, <1>7, <1>8, <1>9, <1>10, <1>11, <1>12, <1>13, AfterIs,
     AllKnown, Names, <1>14, <1>15, <1>17 DEF StateKnown, UsedStates, Used, UsedAssigns,
     Actors, Made, OnlineIsGentle, IsOnline, Gentle, ErrorIsLone, OfflineIsCalm,
     ConnectingOpens, Reaching, HasOpen, ErrorCloses, Has, Moved, Waiting, OfOwner,
     OfWorker, Idle, ReaderSame, ThreadSame, DriverSame, EnvSame, Busy
<1>26. StartKnown'
  BY <1>1, <1>2, <1>3, <1>4, <1>6, <1>7, <1>8, <1>9, <1>10, <1>11, <1>12, <1>13, AfterIs,
     AllKnown, Names, <1>18 DEF StartKnown, StartSets, Made, StartConnects, Has, Reaching,
     StartOpens, HasOpen, StartWrites, StartStates, InitSets, Setters, Moved, Waiting,
     OfOwner, OfWorker, Idle, Actors, ReaderSame, ThreadSame, DriverSame, EnvSame, Busy
<1>27. ReaderKnown'
  BY <1>1, <1>2, <1>3, <1>4, <1>6, <1>7, <1>8, <1>9, <1>10, <1>11, <1>12, <1>13, AfterIs,
     AllKnown, Names, <1>19, <1>20 DEF ReaderKnown, AssignThenEnter, Actors, Made, Has,
     JoinThenDrop, UsedStartsNoReader, Used, IsOnline, SpawnKnown, DropKnown,
     StopReaderKnown, KeepIsSpawned, StopIsDropped, ReaderRuns, OnlineReads, OfflineStops,
     Moved, Waiting, OfOwner, OfWorker, Idle, ReaderSame, ThreadSame, DriverSame, EnvSame,
     Busy, Reaching
<1>28. SocketKnown'
  BY <1>1, <1>2, <1>3, <1>4, <1>6, <1>7, <1>8, <1>9, <1>10, <1>11, <1>12, <1>13, AfterIs,
     AllKnown, Names, <1>21, <1>22 DEF SocketKnown, OpenThenOnline, Reaching,
     ErrorIsClosed, Actors, Has, Moved, Waiting, OfOwner, OfWorker, Idle, ReaderSame,
     ThreadSame, DriverSame, EnvSame, Busy
<1>. QED
  BY <1>3, <1>5, <1>23, <1>24, <1>25, <1>26, <1>27, <1>28 DEF IInv, Known

(* OnStateEnter, online, *)
LEMMA EnterOnlineKeeps ==
  ASSUME IInv, NEW t \in Actors, OnStateEnter(t), IsOnline
  PROVE  IInv'
<1>1. Head(todo[t]) = T("enter") /\ ~Crashed
  BY AtStep, ByName DEF OnStateEnter, IInv, Steps
<1>2. StateSame /\ ReaderSame /\ m_socket' = m_socket /\ ThreadSame /\ DriverSame /\ EnvSame
  BY Same DEF OnStateEnter
<1>3. m_devState = "online"
  BY <1>1, AllKnown DEF IsOnline, Types, DevStates
<1>4. GoOn(t, <<T("startReader")>>)
  BY <1>1, <1>3 DEF OnStateEnter, Do, T, IsOnline
<1>5. T("startReader") \in Tasks /\ Room(t, T("startReader"))
  BY <1>1, LaterIs DEF Tasks, Plain, Steps, Room
<1>6. Moved(t, T("enter"), {T("startReader")}, T("startReader")) /\ InOrder'
  BY <1>1, <1>2, <1>4, <1>5, Moves DEF OnStateEnter, Steps, EnvSame
<1>7. ~Crashed' /\ Types' /\ NoteIsState'
  BY <1>1, <1>2, <1>6, AllKnown
     DEF Crashed, Types, NoteIsState, Moved, StateSame, ReaderSame, ThreadSame, DriverSame, EnvSame
<1>8. phase # "delete" /\ (Live(t)' <=> Live(t)) /\ Has(t, "enter")
  BY <1>6, Names DEF Moved, Setters, Ending, Has
<1>9. Later(T("enter")) = Tells \cup AnyAfter /\ T("join") \notin Tells \cup AnyAfter
      /\ T("enter") \notin Tells \cup AnyAfter
  BY LaterIs, Names DEF AnyAfter, Opens, StartOuter, StopOuter, StopEnd, Tells
<1>10. Used => ~IsOnline
  BY <1>1, <1>6, <1>8, AllKnown, Names DEF UsedStartsNoReader, Moved, Waiting
<1>11. ThreadKnown'
  BY <1>1, <1>2, <1>6, <1>8, <1>9, <1>10, <1>3, AllKnown, Names DEF ThreadKnown,
     WorkerKnown, WorkerHandles, Busy, QuitHasWorker, Has, OwnerTasks, Reaching,
     WorkerTasks, OwnerOnly, NewKnown, StartsAlone, NotYetShutting, NotYetStarted,
     StartedOnce, Moved, Waiting, OfOwner, OfWorker, Idle, Actors, StateSame, ReaderSame,
     ThreadSame, DriverSame, EnvSame
<1>12. StopKnown'
  BY <1>1, <1>2, <1>6, <1>8, <1>9, <1>10, <1>3, AllKnown, Names DEF StopKnown,
     QuitThenJoin, Has, JoinKnown, Leaving, StopSteps, Reaching, StopSets, Setters,
     StopIsCalm, Calm, BeatJoined, DeleteKnown, Ending, OnlySoundBeats, Moved, Waiting,
     OfOwner, OfWorker, Idle, Actors, StateSame, ReaderSame, ThreadSame, DriverSame,
     EnvSame
<1>13. StateKnown'
  BY <1>1, <1>2, <1>6, <1>8, <1>9, <1>10, <1>3, AllKnown, Names DEF StateKnown,
     AssignsLegally, Actors, Made, UsedStates, Used, UsedAssigns, OnlineIsGentle,
     IsOnline, Gentle, ErrorIsLone, OfflineIsCalm, OnlyOnline, ClosesInError, Has,
     Reaching, ConnectingOpens, HasOpen, ErrorCloses, StartStates, OwnerTasks, Moved,
     Waiting, OfOwner, OfWorker, Idle, StateSame, ReaderSame, ThreadSame, DriverSame,
     EnvSame
<1>14. StartKnown'
  BY <1>1, <1>2, <1>6, <1>8, <1>9, <1>10, <1>3, AllKnown, Names DEF StartKnown, StartSets,
     Made, StartConnects, Has, Reaching, StartOpens, HasOpen, StartWrites, StartSends,
     StartStates, InitSets, Setters, Moved, Waiting, OfOwner, OfWorker, Idle, Actors,
     StateSame, ReaderSame, ThreadSame, DriverSame, EnvSame
<1>15. ReaderKnown'
  BY <1>1, <1>2, <1>6, <1>8, <1>9, <1>10, <1>3, AllKnown, Names DEF ReaderKnown,
     AssignThenEnter, Actors, Made, Has, JoinThenDrop, UsedStartsNoReader, Used, IsOnline,
     SpawnKnown, StartReaderKnown, DropKnown, StopReaderKnown, KeepIsSpawned,
     StopIsDropped, ReaderRuns, OnlineReads, OfflineStops, DeafAtFirst, Moved, Waiting,
     OfOwner, OfWorker, Idle, StateSame, ReaderSame, ThreadSame, DriverSame, EnvSame
<1>16. SocketKnown'
  BY <1>1, <1>2, <1>6, <1>8, <1>9, <1>10, <1>3, AllKnown, Names DEF SocketKnown,
     OnlineIsOpen, IsOnline, OpenThenOnline, Reaching, ErrorIsClosed, Actors, Has,
     TellsState, Made, Moved, Waiting, OfOwner, OfWorker, Idle, StateSame, ReaderSame,
     ThreadSame, DriverSame, EnvSame
<1>. QED
  BY <1>6, <1>7, <1>11, <1>12, <1>13, <1>14, <1>15, <1>16 DEF IInv, Known

(* offline or in error, *)
LEMMA EnterOfflineKeeps ==
  ASSUME IInv, NEW t \in Actors, OnStateEnter(t), m_devState \in {"offline", "error"}
  PROVE  IInv'
<1>1. Head(todo[t]) = T("enter") /\ ~Crashed
  BY AtStep, ByName DEF OnStateEnter, IInv, Steps
<1>2. StateSame /\ ReaderSame /\ m_socket' = m_socket /\ ThreadSame /\ DriverSame /\ EnvSame
  BY Same DEF OnStateEnter
<1>3. ~IsOnline
  BY <1>1, AllKnown DEF IsOnline, Types, DevStates
<1>4. GoOn(t, <<T("stopReader")>>)
  BY <1>1, <1>3 DEF OnStateEnter, Do, T, IsOnline
<1>5. T("stopReader") \in Tasks /\ Room(t, T("stopReader"))
  BY <1>1, LaterIs DEF Tasks, Plain, Steps, Room
<1>6. Moved(t, T("enter"), {T("stopReader")}, T("stopReader")) /\ InOrder'
  BY <1>1, <1>2, <1>4, <1>5, Moves DEF OnStateEnter, Steps, EnvSame
<1>7. ~Crashed' /\ Types' /\ NoteIsState'
  BY <1>1, <1>2, <1>6, AllKnown
     DEF Crashed, Types, NoteIsState, Moved, StateSame, ReaderSame, ThreadSame, DriverSame, EnvSame
<1>8. phase # "delete" /\ (Live(t)' <=> Live(t)) /\ Has(t, "enter")
  BY <1>6, Names DEF Moved, Setters, Ending, Has
<1>9. Later(T("enter")) = Tells \cup AnyAfter /\ T("join") \notin Tells \cup AnyAfter
      /\ T("enter") \notin Tells \cup AnyAfter
  BY LaterIs, Names DEF AnyAfter, Opens, StartOuter, StopOuter, StopEnd, Tells
<1>10. Used => ~IsOnline
  BY <1>1, <1>6, <1>8, AllKnown, Names DEF UsedStartsNoReader, Moved, Waiting
<1>11. ThreadKnown'
  BY <1>1, <1>2, <1>6, <1>8, <1>9, <1>10, <1>3, AllKnown, Names DEF ThreadKnown,
     WorkerKnown, WorkerHandles, Busy, QuitHasWorker, Has, OwnerTasks, Reaching,
     WorkerTasks, OwnerOnly, NewKnown, StartsAlone, NotYetShutting, NotYetStarted,
     StartedOnce, Moved, Waiting, OfOwner, OfWorker, Idle, Actors, StateSame, ReaderSame,
     ThreadSame, DriverSame, EnvSame
<1>12. StopKnown'
  BY <1>1, <1>2, <1>6, <1>8, <1>9, <1>10, <1>3, AllKnown, Names DEF StopKnown,
     QuitThenJoin, Has, JoinKnown, Leaving, StopSteps, Reaching, StopSets, Setters,
     StopIsCalm, Calm, BeatJoined, DeleteKnown, Ending, OnlySoundBeats, Moved, Waiting,
     OfOwner, OfWorker, Idle, Actors, StateSame, ReaderSame, ThreadSame, DriverSame,
     EnvSame
<1>13. StateKnown'
  BY <1>1, <1>2, <1>6, <1>8, <1>9, <1>10, <1>3, AllKnown, Names DEF StateKnown,
     AssignsLegally, Actors, Made, UsedStates, Used, UsedAssigns, OnlineIsGentle,
     IsOnline, Gentle, ErrorIsLone, OfflineIsCalm, OnlyOnline, ClosesInError, Has,
     Reaching, ConnectingOpens, HasOpen, ErrorCloses, StartStates, OwnerTasks, Moved,
     Waiting, OfOwner, OfWorker, Idle, StateSame, ReaderSame, ThreadSame, DriverSame,
     EnvSame
<1>14. StartKnown'
  BY <1>1, <1>2, <1>6, <1>8, <1>9, <1>10, <1>3, AllKnown, Names DEF StartKnown, StartSets,
     Made, StartConnects, Has, Reaching, StartOpens, HasOpen, StartWrites, StartSends,
     StartStates, InitSets, Setters, Moved, Waiting, OfOwner, OfWorker, Idle, Actors,
     StateSame, ReaderSame, ThreadSame, DriverSame, EnvSame
<1>15. ReaderKnown'
  BY <1>1, <1>2, <1>6, <1>8, <1>9, <1>10, <1>3, AllKnown, Names DEF ReaderKnown,
     AssignThenEnter, Actors, Made, Has, JoinThenDrop, UsedStartsNoReader, Used, IsOnline,
     SpawnKnown, StartReaderKnown, DropKnown, StopReaderKnown, KeepIsSpawned,
     StopIsDropped, ReaderRuns, OnlineReads, OfflineStops, DeafAtFirst, Moved, Waiting,
     OfOwner, OfWorker, Idle, StateSame, ReaderSame, ThreadSame, DriverSame, EnvSame
<1>16. SocketKnown'
  BY <1>1, <1>2, <1>6, <1>8, <1>9, <1>10, <1>3, AllKnown, Names DEF SocketKnown,
     OnlineIsOpen, IsOnline, OpenThenOnline, Reaching, ErrorIsClosed, Actors, Has,
     TellsState, Made, Moved, Waiting, OfOwner, OfWorker, Idle, StateSame, ReaderSame,
     ThreadSame, DriverSame, EnvSame
<1>. QED
  BY <1>6, <1>7, <1>11, <1>12, <1>13, <1>14, <1>15, <1>16 DEF IInv, Known

(* and in another state. *)
LEMMA EnterOtherKeeps ==
  ASSUME IInv, NEW t \in Actors, OnStateEnter(t), ~IsOnline, m_devState \notin {"offline", "error"}
  PROVE  IInv'
<1>1. Head(todo[t]) = T("enter") /\ ~Crashed
  BY AtStep, ByName DEF OnStateEnter, IInv, Steps
<1>2. StateSame /\ ReaderSame /\ m_socket' = m_socket /\ ThreadSame /\ DriverSame /\ EnvSame
  BY Same DEF OnStateEnter
<1>3. m_devState \in {"unknown", "initialized", "connecting"}
  BY <1>1, AllKnown DEF IsOnline, Types, DevStates
<1>4. GoOn(t, <<>>)
  BY <1>1, <1>3 DEF OnStateEnter, Do, T, IsOnline
<1>5. T("enter") \in Tasks
  BY <1>1, AtStep DEF OnStateEnter, IInv, Steps
<1>6. Moved(t, T("enter"), {}, T("enter")) /\ InOrder'
  BY <1>1, <1>2, <1>4, <1>5, Moves DEF OnStateEnter, Steps, EnvSame
<1>7. ~Crashed' /\ Types' /\ NoteIsState'
  BY <1>1, <1>2, <1>6, AllKnown
     DEF Crashed, Types, NoteIsState, Moved, StateSame, ReaderSame, ThreadSame, DriverSame, EnvSame
<1>8. phase # "delete" /\ (Live(t)' <=> Live(t)) /\ Has(t, "enter")
  BY <1>6, Names DEF Moved, Setters, Ending, Has
<1>9. Later(T("enter")) = Tells \cup AnyAfter /\ T("join") \notin Tells \cup AnyAfter
      /\ T("enter") \notin Tells \cup AnyAfter
  BY LaterIs, Names DEF AnyAfter, Opens, StartOuter, StopOuter, StopEnd, Tells
<1>10. Used => ~IsOnline
  BY <1>1, <1>6, <1>8, AllKnown, Names DEF UsedStartsNoReader, Moved, Waiting
<1>11. ThreadKnown'
  BY <1>1, <1>2, <1>6, <1>8, <1>9, <1>10, <1>3, AllKnown, Names DEF ThreadKnown,
     WorkerKnown, WorkerHandles, Busy, QuitHasWorker, Has, OwnerTasks, Reaching,
     WorkerTasks, OwnerOnly, NewKnown, StartsAlone, NotYetShutting, NotYetStarted,
     StartedOnce, Moved, Waiting, OfOwner, OfWorker, Idle, Actors, StateSame, ReaderSame,
     ThreadSame, DriverSame, EnvSame
<1>12. StopKnown'
  BY <1>1, <1>2, <1>6, <1>8, <1>9, <1>10, <1>3, AllKnown, Names DEF StopKnown,
     QuitThenJoin, Has, JoinKnown, Leaving, StopSteps, Reaching, StopSets, Setters,
     StopIsCalm, Calm, BeatJoined, DeleteKnown, Ending, OnlySoundBeats, Moved, Waiting,
     OfOwner, OfWorker, Idle, Actors, StateSame, ReaderSame, ThreadSame, DriverSame,
     EnvSame
<1>13. StateKnown'
  BY <1>1, <1>2, <1>6, <1>8, <1>9, <1>10, <1>3, AllKnown, Names DEF StateKnown,
     AssignsLegally, Actors, Made, UsedStates, Used, UsedAssigns, OnlineIsGentle,
     IsOnline, Gentle, ErrorIsLone, OfflineIsCalm, OnlyOnline, ClosesInError, Has,
     Reaching, ConnectingOpens, HasOpen, ErrorCloses, StartStates, OwnerTasks, Moved,
     Waiting, OfOwner, OfWorker, Idle, StateSame, ReaderSame, ThreadSame, DriverSame,
     EnvSame
<1>14. StartKnown'
  BY <1>1, <1>2, <1>6, <1>8, <1>9, <1>10, <1>3, AllKnown, Names DEF StartKnown, StartSets,
     Made, StartConnects, Has, Reaching, StartOpens, HasOpen, StartWrites, StartSends,
     StartStates, InitSets, Setters, Moved, Waiting, OfOwner, OfWorker, Idle, Actors,
     StateSame, ReaderSame, ThreadSame, DriverSame, EnvSame
<1>15. ReaderKnown'
  BY <1>1, <1>2, <1>6, <1>8, <1>9, <1>10, <1>3, AllKnown, Names DEF ReaderKnown,
     AssignThenEnter, Actors, Made, Has, JoinThenDrop, UsedStartsNoReader, Used, IsOnline,
     SpawnKnown, StartReaderKnown, DropKnown, StopReaderKnown, KeepIsSpawned,
     StopIsDropped, ReaderRuns, OnlineReads, OfflineStops, DeafAtFirst, Moved, Waiting,
     OfOwner, OfWorker, Idle, StateSame, ReaderSame, ThreadSame, DriverSame, EnvSame
<1>16. SocketKnown'
  BY <1>1, <1>2, <1>6, <1>8, <1>9, <1>10, <1>3, AllKnown, Names DEF SocketKnown,
     OnlineIsOpen, IsOnline, OpenThenOnline, Reaching, ErrorIsClosed, Actors, Has,
     TellsState, Made, Moved, Waiting, OfOwner, OfWorker, Idle, StateSame, ReaderSame,
     ThreadSame, DriverSame, EnvSame
<1>. QED
  BY <1>6, <1>7, <1>11, <1>12, <1>13, <1>14, <1>15, <1>16 DEF IInv, Known

-----------------------------------------------------------------------------
(* StartReader, StopReader                                                 *)

(* StartReader with the reader wanted already, *)
LEMMA StartReaderAgainKeeps ==
  ASSUME IInv, NEW t \in Actors, StartReader(t), m_keepReading
  PROVE  IInv'
<1>1. Head(todo[t]) = T("startReader") /\ ~Crashed
  BY AtStep, ByName DEF StartReader, IInv, Steps
<1>2. StateSame /\ ReaderSame /\ m_socket' = m_socket /\ ThreadSame /\ DriverSame /\ EnvSame
  BY Same DEF StartReader, ReaderSame
<1>3. Moved(t, T("startReader"), {}, T("startReader")) /\ InOrder'
  BY <1>1, <1>2, Moves DEF StartReader, Steps, EnvSame
<1>4. ~Crashed' /\ Types' /\ NoteIsState'
  BY <1>1, <1>2, <1>3, AllKnown
     DEF Crashed, Types, NoteIsState, Moved, StateSame, ReaderSame, ThreadSame, DriverSame, EnvSame
<1>5. phase # "delete" /\ (Live(t)' <=> Live(t))
  BY <1>3, Names DEF Moved, Setters, Ending
<1>6. /\ Later(T("startReader")) = Tells \cup AnyAfter /\ T("join") \notin Tells \cup AnyAfter
      /\ T("enter") \notin Tells \cup AnyAfter
  BY LaterIs, Names DEF AnyAfter, Opens, StartOuter, StopOuter, StopEnd, Tells
<1>7. ThreadKnown'
  BY <1>1, <1>2, <1>3, <1>5, <1>6, AllKnown, Names DEF ThreadKnown, WorkerKnown,
     WorkerHandles, Busy, QuitHasWorker, Has, OwnerTasks, Reaching, WorkerTasks,
     OwnerOnly, NewKnown, StartsAlone, NotYetShutting, NotYetStarted, StartedOnce, Moved,
     Waiting, OfOwner, OfWorker, Idle, Actors, StateSame, ReaderSame, ThreadSame,
     DriverSame, EnvSame
<1>8. StopKnown'
  BY <1>1, <1>2, <1>3, <1>5, <1>6, AllKnown, Names DEF StopKnown, QuitThenJoin, Has,
     JoinKnown, Leaving, StopSteps, Reaching, StopSets, Setters, StopIsCalm, Calm,
     BeatJoined, DeleteKnown, Ending, OnlySoundBeats, Moved, Waiting, OfOwner, OfWorker,
     Idle, Actors, StateSame, ReaderSame, ThreadSame, DriverSame, EnvSame
<1>9. StateKnown'
  BY <1>1, <1>2, <1>3, <1>5, <1>6, AllKnown, Names DEF StateKnown, AssignsLegally, Actors,
     Made, UsedStates, Used, UsedAssigns, OnlineIsGentle, IsOnline, Gentle, ErrorIsLone,
     OfflineIsCalm, OnlyOnline, ClosesInError, Has, Reaching, ConnectingOpens, HasOpen,
     ErrorCloses, StartStates, OwnerTasks, Moved, Waiting, OfOwner, OfWorker, Idle,
     StateSame, ReaderSame, ThreadSame, DriverSame, EnvSame
<1>10. StartKnown'
  BY <1>1, <1>2, <1>3, <1>5, <1>6, AllKnown, Names DEF StartKnown, StartSets, Made,
     StartConnects, Has, Reaching, StartOpens, HasOpen, StartWrites, StartSends,
     StartStates, InitSets, Setters, Moved, Waiting, OfOwner, OfWorker, Idle, Actors,
     StateSame, ReaderSame, ThreadSame, DriverSame, EnvSame
<1>11. ReaderKnown'
  BY <1>1, <1>2, <1>3, <1>5, <1>6, AllKnown, Names DEF ReaderKnown, AssignThenEnter,
     Actors, Made, Has, JoinThenDrop, UsedStartsNoReader, Used, IsOnline, SpawnKnown,
     StartReaderKnown, DropKnown, StopReaderKnown, KeepIsSpawned, StopIsDropped,
     ReaderRuns, OnlineReads, OfflineStops, DeafAtFirst, Moved, Waiting, OfOwner,
     OfWorker, Idle, StateSame, ReaderSame, ThreadSame, DriverSame, EnvSame
<1>12. SocketKnown'
  BY <1>1, <1>2, <1>3, <1>5, <1>6, AllKnown, Names DEF SocketKnown, OnlineIsOpen,
     IsOnline, OpenThenOnline, Reaching, ErrorIsClosed, Actors, Has, TellsState, Made,
     Moved, Waiting, OfOwner, OfWorker, Idle, StateSame, ReaderSame, ThreadSame,
     DriverSame, EnvSame
<1>. QED
  BY <1>3, <1>4, <1>7, <1>8, <1>9, <1>10, <1>11, <1>12 DEF IInv, Known

(* and without. *)
LEMMA StartReaderKeeps ==
  ASSUME IInv, NEW t \in Actors, StartReader(t), ~m_keepReading
  PROVE  IInv'
<1>1. Head(todo[t]) = T("startReader") /\ ~Crashed
  BY AtStep, ByName DEF StartReader, IInv, Steps
<1>2. /\ StateSame /\ m_socket' = m_socket /\ ThreadSame /\ DriverSame /\ EnvSame
      /\ m_keepReading' = TRUE /\ m_readThread' = m_readThread /\ reader' = reader
  BY Same DEF StartReader
<1>3. T("spawnReader") \in Tasks /\ Room(t, T("spawnReader")) /\ GoOn(t, <<T("spawnReader")>>)
  BY <1>1, LaterIs DEF StartReader, Do, T, Tasks, Plain, Steps, Room
<1>4. Moved(t, T("startReader"), {T("spawnReader")}, T("spawnReader")) /\ InOrder'
  BY <1>1, <1>2, <1>3, Moves DEF StartReader, Steps, EnvSame
<1>5. ~Crashed' /\ Types' /\ NoteIsState'
  BY <1>1, <1>2, <1>4, AllKnown
     DEF Crashed, Types, NoteIsState, Moved, StateSame, ThreadSame, DriverSame, EnvSame
<1>6. phase # "delete" /\ (Live(t)' <=> Live(t)) /\ Has(t, "startReader") /\ Busy(t)'
  BY <1>4, Names DEF Moved, Setters, Ending, Has, Busy
<1>7. /\ Later(T("startReader")) = Tells \cup AnyAfter /\ T("join") \notin Tells \cup AnyAfter
      /\ T("enter") \notin Tells \cup AnyAfter /\ T("dropReader") \notin Tells \cup AnyAfter
  BY LaterIs, Names DEF AnyAfter, Opens, StartOuter, StopOuter, StopEnd, Tells
<1>8. ~Used /\ \A u \in Actors \ {t} : Busy(u) => t = "worker" /\ Pending(u) \subseteq Calm \cup Leaving
  <2>1. ~Used
    BY <1>1, <1>6, AllKnown DEF UsedStartsNoReader
  <2>2. T("startReader") \in Pending(t) /\ T("startReader") \notin Calm \cup Leaving
    BY <1>6, Names DEF Calm, Leaving, Has
  <2>3. t = "owner" => ~Busy("worker")
    BY <1>4, <2>1, <2>2 DEF Moved, OfOwner, Used
  <2>4. t = "worker" /\ Busy("owner") => Pending("owner") \subseteq Calm \cup Leaving
    BY <1>4, <2>1 DEF Moved, OfWorker, Used
  <2>. QED
    BY <2>1, <2>3, <2>4 DEF Actors
<1>9. \A u \in Actors : ~Has(u, "dropReader") /\ ~Has(u, "joinReader")
  <2>1. \A u \in Actors : ~Has(u, "dropReader")
    BY <1>4, <1>6, <1>7, <1>8, Names DEF Moved, Calm, Leaving, Has, Busy, Actors
  <2>. QED
    BY <1>1, <2>1, AllKnown DEF JoinThenDrop
<1>10. ~m_readThread
  BY <1>1, <1>9, AllKnown DEF StopIsDropped, Actors
<1>11. \A s, u : u \in Actors => Assigning(s) \notin Pending(u)'
  BY <1>4, <1>8, Names DEF Moved, Waiting, Calm, Leaving, Busy, OfOwner, OfWorker, Actors
<1>12. \/ IsOnline
       \/ phase = "start" /\ kind = "ptz" /\ t = "owner" /\ Live("owner")'
          /\ m_devState \notin {"unknown", "initialized"}
  <2>1. SUFFICES ASSUME ~IsOnline
                 PROVE  phase = "start" /\ kind = "ptz" /\ t = "owner" /\ Live("owner")'
                        /\ m_devState \notin {"unknown", "initialized"}
    OBVIOUS
  <2>2. phase = "start" /\ kind = "ptz" /\ Has("owner", "send")
    BY <1>1, <1>4, <2>1, AllKnown DEF StartReaderKnown, Moved
  <2>3. t = "owner" /\ Starting
    BY <1>4, <2>2 DEF Moved, OfWorker, Has, Busy, Starting
  <2>4. Live("owner")'
    BY <1>4, <1>6, <2>2, <2>3, Names DEF Live, Has, Setters
  <2>5. \A s \in Made : ~Reaching("owner", s)
    BY <1>4, <2>2, <2>3, Names DEF Moved, Waiting, Reaching
  <2>6. ~Has("owner", "connect")
    BY <1>4, <2>2, <2>3, Names DEF Moved, Waiting, Has, Setters
  <2>7. m_devState \in {"offline", "online", "connecting"}
    BY <1>1, <2>2, <2>3, <2>5, <2>6, AllKnown DEF StartSends, StartOpens, Made, DevStates
  <2>. QED
    BY <2>2, <2>3, <2>4, <2>7
<1>13. DeafAtFirst'
  BY <1>2, <1>11, <1>12 DEF DeafAtFirst, IsOnline, StateSame, DriverSame, EnvSame
<1>14. ThreadKnown'
  BY <1>1, <1>2, <1>4, <1>6, <1>7, <1>8, <1>9, <1>10, <1>11, <1>12, AllKnown, Names DEF
     ThreadKnown, WorkerKnown, WorkerHandles, Busy, QuitHasWorker, Has, OwnerTasks,
     Reaching, WorkerTasks, OwnerOnly, NewKnown, StartsAlone, NotYetShutting,
     NotYetStarted, StartedOnce, Moved, Waiting, OfOwner, OfWorker, Idle, Actors,
     StateSame, ThreadSame, DriverSame, EnvSame
<1>15. StopKnown'
  BY <1>1, <1>2, <1>4, <1>6, <1>7, <1>8, <1>9, <1>10, <1>11, <1>12, AllKnown, Names DEF
     StopKnown, QuitThenJoin, Has, JoinKnown, Leaving, StopSteps, Reaching, StopSets,
     Setters, StopIsCalm, Calm, BeatJoined, DeleteKnown, Ending, OnlySoundBeats, Moved,
     Waiting, OfOwner, OfWorker, Idle, Actors, StateSame, ThreadSame, DriverSame, EnvSame
<1>16. StateKnown'
  BY <1>1, <1>2, <1>4, <1>6, <1>7, <1>8, <1>9, <1>10, <1>11, <1>12, AllKnown, Names DEF
     StateKnown, AssignsLegally, Actors, Made, UsedStates, Used, UsedAssigns,
     OnlineIsGentle, IsOnline, Gentle, ErrorIsLone, OfflineIsCalm, OnlyOnline,
     ClosesInError, Has, Reaching, ConnectingOpens, HasOpen, ErrorCloses, StartStates,
     OwnerTasks, Moved, Waiting, OfOwner, OfWorker, Idle, StateSame, ThreadSame,
     DriverSame, EnvSame
<1>17. StartKnown'
  BY <1>1, <1>2, <1>4, <1>6, <1>7, <1>8, <1>9, <1>10, <1>11, <1>12, AllKnown, Names DEF
     StartKnown, StartSets, Made, StartConnects, Has, Reaching, StartOpens, HasOpen,
     StartWrites, StartSends, StartStates, InitSets, Setters, Moved, Waiting, OfOwner,
     OfWorker, Idle, Actors, StateSame, ThreadSame, DriverSame, EnvSame
<1>18. ReaderKnown'
  BY <1>1, <1>2, <1>4, <1>6, <1>7, <1>8, <1>9, <1>10, <1>11, <1>12, AllKnown, Names, <1>13
     DEF ReaderKnown, AssignThenEnter, Actors, Made, Has, JoinThenDrop,
     UsedStartsNoReader, Used, IsOnline, SpawnKnown, StartReaderKnown, DropKnown,
     StopReaderKnown, KeepIsSpawned, StopIsDropped, ReaderRuns, OnlineReads, OfflineStops,
     Moved, Waiting, OfOwner, OfWorker, Idle, StateSame, ThreadSame, DriverSame, EnvSame
<1>19. SocketKnown'
  BY <1>1, <1>2, <1>4, <1>6, <1>7, <1>8, <1>9, <1>10, <1>11, <1>12, AllKnown, Names DEF
     SocketKnown, OnlineIsOpen, IsOnline, OpenThenOnline, Reaching, ErrorIsClosed, Actors,
     Has, TellsState, Made, Moved, Waiting, OfOwner, OfWorker, Idle, StateSame,
     ThreadSame, DriverSame, EnvSame
<1>. QED
  BY <1>4, <1>5, <1>14, <1>15, <1>16, <1>17, <1>18, <1>19 DEF IInv, Known

(* The new reader. *)
LEMMA SpawnReaderKeeps ==
  ASSUME IInv, NEW t \in Actors, SpawnReader(t)
  PROVE  IInv'
<1>1. Head(todo[t]) = T("spawnReader") /\ ~Crashed
  BY AtStep, ByName DEF SpawnReader, IInv, Steps
<1>2. /\ StateSame /\ m_socket' = m_socket /\ ThreadSame /\ DriverSame /\ EnvSame
      /\ m_keepReading' = m_keepReading /\ m_readThread' = TRUE /\ reader' = "looping"
  BY Same DEF SpawnReader
<1>3. Moved(t, T("spawnReader"), {}, T("spawnReader")) /\ InOrder'
  BY <1>1, <1>2, Moves DEF SpawnReader, Steps, EnvSame
<1>4. ~Crashed' /\ Types' /\ NoteIsState'
  <2>3. m_keepReading' \in BOOLEAN /\ m_readThread' \in BOOLEAN
    BY <1>1, <1>2, AllKnown DEF Types
  <2>4. /\ StateSame /\ m_socket' = m_socket /\ ThreadSame /\ DriverSame /\ EnvSame
        /\ reader' \in {"none", "looping", "reading", "done"}
    BY <1>1, <1>2, AllKnown DEF Types
  <2>1. Types'
    BY <1>1, <2>3, <2>4, <1>3, AllKnown DEF Types, Moved, StateSame, ThreadSame, DriverSame,
       EnvSame
  <2>2. ~Crashed' /\ NoteIsState'
    BY <1>1, <1>2, <1>3, AllKnown DEF Crashed, NoteIsState, StateSame, DriverSame, EnvSame
  <2>. QED
    BY <2>1, <2>2
<1>5. phase \notin {"new", "delete"} /\ (Live(t)' <=> Live(t)) /\ Has(t, "spawnReader")
  BY <1>3, Names DEF Moved, OfOwner, OfWorker, Setters, Ending, Has
<1>6. m_keepReading /\ ~m_readThread
  BY <1>1, <1>5, AllKnown DEF SpawnKnown
<1>7. /\ Later(T("spawnReader")) = Tells \cup AnyAfter /\ T("join") \notin Tells \cup AnyAfter
      /\ T("enter") \notin Tells \cup AnyAfter
  BY LaterIs, Names DEF AnyAfter, Opens, StartOuter, StopOuter, StopEnd, Tells
<1>8. \A u \in Actors \ {t} : Has(u, "spawnReader") => FALSE
  <2>1. T("spawnReader") \in Pending(t) /\ T("spawnReader") \notin Calm \cup Leaving
        /\ T("spawnReader") \notin Calm \cup Leaving
    BY <1>3, Names DEF Calm, Leaving, Moved
  <2>2. ASSUME Used
        PROVE  \A u \in Actors : ~Has(u, "spawnReader")
    BY <1>1, <2>2, AllKnown DEF UsedStartsNoReader
  <2>3. ~Used /\ t = "owner" => ~Busy("worker")
    BY <1>3, <2>1 DEF Moved, OfOwner, Used
  <2>4. ~Used /\ t = "worker" /\ Busy("owner") => Pending("owner") \subseteq Calm \cup Leaving
    BY <1>3 DEF Moved, OfWorker, Used
  <2>. QED
    BY <2>1, <2>2, <2>3, <2>4 DEF Actors, Has, Busy
<1>9. ThreadKnown'
  BY <1>1, <1>2, <1>3, <1>5, <1>6, <1>7, <1>8, AllKnown, Names DEF ThreadKnown,
     WorkerKnown, WorkerHandles, Busy, QuitHasWorker, Has, OwnerTasks, Reaching,
     WorkerTasks, OwnerOnly, NewKnown, StartsAlone, NotYetShutting, NotYetStarted,
     StartedOnce, Moved, Waiting, OfOwner, OfWorker, Idle, Actors, StateSame, ThreadSame,
     DriverSame, EnvSame
<1>10. StopKnown'
  BY <1>1, <1>2, <1>3, <1>5, <1>6, <1>7, <1>8, AllKnown, Names DEF StopKnown,
     QuitThenJoin, Has, JoinKnown, Leaving, StopSteps, Reaching, StopSets, Setters,
     StopIsCalm, Calm, BeatJoined, DeleteKnown, Ending, OnlySoundBeats, Moved, Waiting,
     OfOwner, OfWorker, Idle, Actors, StateSame, ThreadSame, DriverSame, EnvSame
<1>11. StateKnown'
  BY <1>1, <1>2, <1>3, <1>5, <1>6, <1>7, <1>8, AllKnown, Names DEF StateKnown,
     AssignsLegally, Actors, Made, UsedStates, Used, UsedAssigns, OnlineIsGentle,
     IsOnline, Gentle, ErrorIsLone, OfflineIsCalm, OnlyOnline, ClosesInError, Has,
     Reaching, ConnectingOpens, HasOpen, ErrorCloses, StartStates, OwnerTasks, Moved,
     Waiting, OfOwner, OfWorker, Idle, StateSame, ThreadSame, DriverSame, EnvSame
<1>12. StartKnown'
  BY <1>1, <1>2, <1>3, <1>5, <1>6, <1>7, <1>8, AllKnown, Names DEF StartKnown, StartSets,
     Made, StartConnects, Has, Reaching, StartOpens, HasOpen, StartWrites, StartSends,
     StartStates, InitSets, Setters, Moved, Waiting, OfOwner, OfWorker, Idle, Actors,
     StateSame, ThreadSame, DriverSame, EnvSame
<1>13. ReaderKnown'
  BY <1>1, <1>2, <1>3, <1>5, <1>6, <1>7, <1>8, AllKnown, Names DEF ReaderKnown,
     AssignThenEnter, Actors, Made, Has, JoinThenDrop, UsedStartsNoReader, Used, IsOnline,
     SpawnKnown, StartReaderKnown, DropKnown, StopReaderKnown, KeepIsSpawned,
     StopIsDropped, ReaderRuns, OnlineReads, OfflineStops, DeafAtFirst, Moved, Waiting,
     OfOwner, OfWorker, Idle, StateSame, ThreadSame, DriverSame, EnvSame
<1>14. SocketKnown'
  BY <1>1, <1>2, <1>3, <1>5, <1>6, <1>7, <1>8, AllKnown, Names DEF SocketKnown,
     OnlineIsOpen, IsOnline, OpenThenOnline, Reaching, ErrorIsClosed, Actors, Has,
     TellsState, Made, Moved, Waiting, OfOwner, OfWorker, Idle, StateSame, ThreadSame,
     DriverSame, EnvSame
<1>. QED
  BY <1>3, <1>4, <1>9, <1>10, <1>11, <1>12, <1>13, <1>14 DEF IInv, Known

(* StopReader without a reader, *)
LEMMA StopReaderKeeps ==
  ASSUME IInv, NEW t \in Actors, StopReader(t), ~m_readThread
  PROVE  IInv'
<1>1. Head(todo[t]) = T("stopReader") /\ ~Crashed
  BY AtStep, ByName DEF StopReader, IInv, Steps
<1>2. /\ StateSame /\ m_socket' = m_socket /\ ThreadSame /\ DriverSame /\ EnvSame
      /\ m_keepReading' = FALSE /\ m_readThread' = m_readThread /\ reader' = reader
  BY Same DEF StopReader
<1>3. GoOn(t, <<>>)
  BY DEF StopReader
<1>4. Moved(t, T("stopReader"), {}, T("stopReader")) /\ InOrder'
  BY <1>1, <1>2, <1>3, Moves DEF StopReader, Steps, EnvSame
<1>5. ~Crashed' /\ Types' /\ NoteIsState'
  <2>3. m_keepReading' \in BOOLEAN /\ m_readThread' \in BOOLEAN
    BY <1>1, <1>2, AllKnown DEF Types
  <2>4. /\ StateSame /\ m_socket' = m_socket /\ ThreadSame /\ DriverSame /\ EnvSame
        /\ reader' \in {"none", "looping", "reading", "done"}
    BY <1>1, <1>2, AllKnown DEF Types
  <2>1. Types'
    BY <1>1, <2>3, <2>4, <1>4, AllKnown DEF Types, Moved, StateSame, ThreadSame, DriverSame,
       EnvSame
  <2>2. ~Crashed' /\ NoteIsState'
    BY <1>1, <1>2, <1>4, AllKnown DEF Crashed, NoteIsState, StateSame, DriverSame, EnvSame
  <2>. QED
    BY <2>1, <2>2
<1>6. /\ phase \notin {"new", "delete"} /\ (Live(t)' <=> Live(t)) /\ Has(t, "stopReader")
      /\ \A s \in Made : (Reaching(t, s)' <=> Reaching(t, s))
           /\ (Assigning(s) \in Pending(t)' <=> Assigning(s) \in Pending(t))
  BY <1>4, Names DEF Moved, OfOwner, OfWorker, Setters, Ending, Has, Reaching
<1>7. /\ Later(T("stopReader")) = Tells \cup AnyAfter /\ T("join") \notin Tells \cup AnyAfter
      /\ T("enter") \notin Tells \cup AnyAfter
  BY LaterIs, Names DEF AnyAfter, Opens, StartOuter, StopOuter, StopEnd, Tells
<1>8. \A u \in Actors \ {t} : Has(u, "spawnReader") => FALSE
  <2>1. T("stopReader") \in Pending(t) /\ T("stopReader") \notin Calm \cup Leaving
        /\ T("spawnReader") \notin Calm \cup Leaving
    BY <1>4, Names DEF Calm, Leaving, Moved
  <2>2. ASSUME Used
        PROVE  \A u \in Actors : ~Has(u, "spawnReader")
    BY <1>1, <2>2, AllKnown DEF UsedStartsNoReader
  <2>3. ~Used /\ t = "owner" => ~Busy("worker")
    BY <1>4, <2>1 DEF Moved, OfOwner, Used
  <2>4. ~Used /\ t = "worker" /\ Busy("owner") => Pending("owner") \subseteq Calm \cup Leaving
    BY <1>4 DEF Moved, OfWorker, Used
  <2>. QED
    BY <2>1, <2>2, <2>3, <2>4 DEF Actors, Has, Busy
<1>9. ThreadKnown'
  BY <1>1, <1>2, <1>4, <1>6, <1>7, <1>8, AllKnown, Names DEF ThreadKnown, WorkerKnown,
     WorkerHandles, Busy, QuitHasWorker, Has, OwnerTasks, Reaching, WorkerTasks,
     OwnerOnly, NewKnown, StartsAlone, NotYetShutting, NotYetStarted, StartedOnce, Moved,
     Waiting, OfOwner, OfWorker, Idle, Actors, StateSame, ThreadSame, DriverSame, EnvSame
<1>10. StopKnown'
  BY <1>1, <1>2, <1>4, <1>6, <1>7, <1>8, AllKnown, Names DEF StopKnown, QuitThenJoin, Has,
     JoinKnown, Leaving, StopSteps, Reaching, StopSets, Setters, StopIsCalm, Calm,
     BeatJoined, DeleteKnown, Ending, OnlySoundBeats, Moved, Waiting, OfOwner, OfWorker,
     Idle, Actors, StateSame, ThreadSame, DriverSame, EnvSame
<1>11. StateKnown'
  BY <1>1, <1>2, <1>4, <1>6, <1>7, <1>8, AllKnown, Names DEF StateKnown, AssignsLegally,
     Actors, Made, UsedStates, Used, UsedAssigns, OnlineIsGentle, IsOnline, Gentle,
     ErrorIsLone, OfflineIsCalm, OnlyOnline, ClosesInError, Has, Reaching,
     ConnectingOpens, HasOpen, ErrorCloses, StartStates, OwnerTasks, Moved, Waiting,
     OfOwner, OfWorker, Idle, StateSame, ThreadSame, DriverSame, EnvSame
<1>12. StartKnown'
  BY <1>1, <1>2, <1>4, <1>6, <1>7, <1>8, AllKnown, Names DEF StartKnown, StartSets, Made,
     StartConnects, Has, Reaching, StartOpens, HasOpen, StartWrites, StartSends,
     StartStates, InitSets, Setters, Moved, Waiting, OfOwner, OfWorker, Idle, Actors,
     StateSame, ThreadSame, DriverSame, EnvSame
<1>13. ReaderKnown'
  BY <1>1, <1>2, <1>4, <1>6, <1>7, <1>8, AllKnown, Names DEF ReaderKnown, AssignThenEnter,
     Actors, Made, Has, JoinThenDrop, UsedStartsNoReader, Used, IsOnline, SpawnKnown,
     StartReaderKnown, DropKnown, StopReaderKnown, KeepIsSpawned, StopIsDropped,
     ReaderRuns, OnlineReads, OfflineStops, DeafAtFirst, Moved, Waiting, OfOwner,
     OfWorker, Idle, StateSame, ThreadSame, DriverSame, EnvSame
<1>14. SocketKnown'
  BY <1>1, <1>2, <1>4, <1>6, <1>7, <1>8, AllKnown, Names DEF SocketKnown, OnlineIsOpen,
     IsOnline, OpenThenOnline, Reaching, ErrorIsClosed, Actors, Has, TellsState, Made,
     Moved, Waiting, OfOwner, OfWorker, Idle, StateSame, ThreadSame, DriverSame, EnvSame
<1>. QED
  BY <1>4, <1>5, <1>9, <1>10, <1>11, <1>12, <1>13, <1>14 DEF IInv, Known

(* and with one. *)
LEMMA StopReaderJoinsKeeps ==
  ASSUME IInv, NEW t \in Actors, StopReader(t), m_readThread
  PROVE  IInv'
<1>1. Head(todo[t]) = T("stopReader") /\ ~Crashed
  BY AtStep, ByName DEF StopReader, IInv, Steps
<1>2. /\ StateSame /\ m_socket' = m_socket /\ ThreadSame /\ DriverSame /\ EnvSame
      /\ m_keepReading' = FALSE /\ m_readThread' = m_readThread /\ reader' = reader
  BY Same DEF StopReader
<1>3. phase # "delete"
  BY <1>1, AtTheEnd, AtStep, BusyIs, AllKnown, Names DEF StopReader, Steps, Ending
<1>4. Inner \subseteq Rests(t)
  BY <1>1, <1>3, InnerRests, AtStep, BusyIs, AllKnown DEF StopReader, Steps
<1>5. /\ T("joinReader") \in Tasks /\ T("dropReader") \in Tasks /\ T("joinReader") # T("dropReader")
      /\ Room(t, T("joinReader")) /\ Room(t, T("dropReader"))
      /\ T("dropReader") \in Later(T("joinReader")) \cap Rests(t)
      /\ GoOn(t, <<T("joinReader")>> \o <<T("dropReader")>>)
  <2>1. T("joinReader") # T("dropReader") /\ T("joinReader") \in Tasks /\ T("dropReader") \in Tasks
    BY Names DEF Tasks, Plain, Steps
  <2>2. GoOn(t, <<T("joinReader")>> \o <<T("dropReader")>>)
    BY DEF StopReader, Do, T
  <2>. QED
    BY <1>1, <1>4, <2>1, <2>2, LaterIs DEF Room, Inner
<1>6. Moved(t, T("stopReader"), {T("joinReader"), T("dropReader")}, T("joinReader")) /\ InOrder'
  BY <1>1, <1>2, <1>5, Moves DEF StopReader, Steps, EnvSame
<1>7. ~Crashed' /\ Types' /\ NoteIsState'
  <2>3. m_keepReading' \in BOOLEAN /\ m_readThread' \in BOOLEAN
    BY <1>1, <1>2, AllKnown DEF Types
  <2>4. /\ StateSame /\ m_socket' = m_socket /\ ThreadSame /\ DriverSame /\ EnvSame
        /\ reader' \in {"none", "looping", "reading", "done"}
    BY <1>1, <1>2, AllKnown DEF Types
  <2>1. Types'
    BY <1>1, <2>3, <2>4, <1>6, AllKnown DEF Types, Moved, StateSame, ThreadSame, DriverSame,
       EnvSame
  <2>2. ~Crashed' /\ NoteIsState'
    BY <1>1, <1>2, <1>6, AllKnown DEF Crashed, NoteIsState, StateSame, DriverSame, EnvSame
  <2>. QED
    BY <2>1, <2>2
<1>8. /\ phase \notin {"new", "delete"} /\ (Live(t)' <=> Live(t)) /\ Has(t, "stopReader")
      /\ \A s \in Made : (Reaching(t, s)' <=> Reaching(t, s))
           /\ (Assigning(s) \in Pending(t)' <=> Assigning(s) \in Pending(t))
  BY <1>6, Names DEF Moved, OfOwner, OfWorker, Setters, Ending, Has, Reaching
<1>9. /\ Later(T("stopReader")) = Tells \cup AnyAfter /\ T("join") \notin Tells \cup AnyAfter
      /\ T("enter") \notin Tells \cup AnyAfter
  BY LaterIs, Names DEF AnyAfter, Opens, StartOuter, StopOuter, StopEnd, Tells
<1>10. \A u \in Actors \ {t} : Has(u, "spawnReader") => FALSE
  <2>1. T("stopReader") \in Pending(t) /\ T("stopReader") \notin Calm \cup Leaving
        /\ T("spawnReader") \notin Calm \cup Leaving
    BY <1>6, Names DEF Calm, Leaving, Moved
  <2>2. ASSUME Used
        PROVE  \A u \in Actors : ~Has(u, "spawnReader")
    BY <1>1, <2>2, AllKnown DEF UsedStartsNoReader
  <2>3. ~Used /\ t = "owner" => ~Busy("worker")
    BY <1>6, <2>1 DEF Moved, OfOwner, Used
  <2>4. ~Used /\ t = "worker" /\ Busy("owner") => Pending("owner") \subseteq Calm \cup Leaving
    BY <1>6 DEF Moved, OfWorker, Used
  <2>. QED
    BY <2>1, <2>2, <2>3, <2>4 DEF Actors, Has, Busy
<1>11. ThreadKnown'
  BY <1>1, <1>2, <1>6, <1>8, <1>9, <1>10, AllKnown, Names DEF ThreadKnown, WorkerKnown,
     WorkerHandles, Busy, QuitHasWorker, Has, OwnerTasks, Reaching, WorkerTasks,
     OwnerOnly, NewKnown, StartsAlone, NotYetShutting, NotYetStarted, StartedOnce, Moved,
     Waiting, OfOwner, OfWorker, Idle, Actors, StateSame, ThreadSame, DriverSame, EnvSame
<1>12. StopKnown'
  BY <1>1, <1>2, <1>6, <1>8, <1>9, <1>10, AllKnown, Names DEF StopKnown, QuitThenJoin, Has,
     JoinKnown, Leaving, StopSteps, Reaching, StopSets, Setters, StopIsCalm, Calm,
     BeatJoined, DeleteKnown, Ending, OnlySoundBeats, Moved, Waiting, OfOwner, OfWorker,
     Idle, Actors, StateSame, ThreadSame, DriverSame, EnvSame
<1>13. StateKnown'
  BY <1>1, <1>2, <1>6, <1>8, <1>9, <1>10, AllKnown, Names DEF StateKnown, AssignsLegally,
     Actors, Made, UsedStates, Used, UsedAssigns, OnlineIsGentle, IsOnline, Gentle,
     ErrorIsLone, OfflineIsCalm, OnlyOnline, ClosesInError, Has, Reaching,
     ConnectingOpens, HasOpen, ErrorCloses, StartStates, OwnerTasks, Moved, Waiting,
     OfOwner, OfWorker, Idle, StateSame, ThreadSame, DriverSame, EnvSame
<1>14. StartKnown'
  BY <1>1, <1>2, <1>6, <1>8, <1>9, <1>10, AllKnown, Names DEF StartKnown, StartSets, Made,
     StartConnects, Has, Reaching, StartOpens, HasOpen, StartWrites, StartSends,
     StartStates, InitSets, Setters, Moved, Waiting, OfOwner, OfWorker, Idle, Actors,
     StateSame, ThreadSame, DriverSame, EnvSame
<1>15. ReaderKnown'
  BY <1>1, <1>2, <1>6, <1>8, <1>9, <1>10, AllKnown, Names DEF ReaderKnown, AssignThenEnter,
     Actors, Made, Has, JoinThenDrop, UsedStartsNoReader, Used, IsOnline, SpawnKnown,
     StartReaderKnown, DropKnown, StopReaderKnown, KeepIsSpawned, StopIsDropped,
     ReaderRuns, OnlineReads, OfflineStops, DeafAtFirst, Moved, Waiting, OfOwner,
     OfWorker, Idle, StateSame, ThreadSame, DriverSame, EnvSame
<1>16. SocketKnown'
  BY <1>1, <1>2, <1>6, <1>8, <1>9, <1>10, AllKnown, Names DEF SocketKnown, OnlineIsOpen,
     IsOnline, OpenThenOnline, Reaching, ErrorIsClosed, Actors, Has, TellsState, Made,
     Moved, Waiting, OfOwner, OfWorker, Idle, StateSame, ThreadSame, DriverSame, EnvSame
<1>. QED
  BY <1>6, <1>7, <1>11, <1>12, <1>13, <1>14, <1>15, <1>16 DEF IInv, Known

(* Its join, *)
LEMMA JoinReaderKeeps ==
  ASSUME IInv, NEW t \in Actors, JoinReader(t), ~Crashed'
  PROVE  IInv'
<1>1. Head(todo[t]) = T("joinReader") /\ ~Crashed
  BY AtStep, ByName DEF JoinReader, IInv, Steps
<1>2. /\ StateSame /\ ReaderSame /\ m_socket' = m_socket /\ ThreadSame /\ DriverSame /\ EnvSame
      /\ reader = "done" /\ GoOn(t, <<>>)
  BY Same DEF JoinReader, EnvSame, Crashed
<1>3. Moved(t, T("joinReader"), {}, T("joinReader")) /\ InOrder'
  BY <1>1, <1>2, Moves DEF JoinReader, Steps, EnvSame
<1>4. ~Crashed' /\ Types' /\ NoteIsState'
  BY <1>1, <1>2, <1>3, AllKnown
     DEF Crashed, Types, NoteIsState, Moved, StateSame, ReaderSame, ThreadSame, DriverSame, EnvSame
<1>5. phase # "delete" /\ (Live(t)' <=> Live(t))
  BY <1>3, Names DEF Moved, Setters, Ending
<1>6. /\ Later(T("joinReader")) = {T("dropReader")} \cup Tells \cup AnyAfter
      /\ T("join") \notin Tells \cup AnyAfter /\ T("enter") \notin Tells \cup AnyAfter
  BY LaterIs, Names DEF AnyAfter, Opens, StartOuter, StopOuter, StopEnd, Tells
<1>7. ThreadKnown'
  BY <1>1, <1>2, <1>3, <1>5, <1>6, AllKnown, Names DEF ThreadKnown, WorkerKnown,
     WorkerHandles, Busy, QuitHasWorker, Has, OwnerTasks, Reaching, WorkerTasks,
     OwnerOnly, NewKnown, StartsAlone, NotYetShutting, NotYetStarted, StartedOnce, Moved,
     Waiting, OfOwner, OfWorker, Idle, Actors, StateSame, ReaderSame, ThreadSame,
     DriverSame, EnvSame
<1>8. StopKnown'
  BY <1>1, <1>2, <1>3, <1>5, <1>6, AllKnown, Names DEF StopKnown, QuitThenJoin, Has,
     JoinKnown, Leaving, StopSteps, Reaching, StopSets, Setters, StopIsCalm, Calm,
     BeatJoined, DeleteKnown, Ending, OnlySoundBeats, Moved, Waiting, OfOwner, OfWorker,
     Idle, Actors, StateSame, ReaderSame, ThreadSame, DriverSame, EnvSame
<1>9. StateKnown'
  BY <1>1, <1>2, <1>3, <1>5, <1>6, AllKnown, Names DEF StateKnown, AssignsLegally, Actors,
     Made, UsedStates, Used, UsedAssigns, OnlineIsGentle, IsOnline, Gentle, ErrorIsLone,
     OfflineIsCalm, OnlyOnline, ClosesInError, Has, Reaching, ConnectingOpens, HasOpen,
     ErrorCloses, StartStates, OwnerTasks, Moved, Waiting, OfOwner, OfWorker, Idle,
     StateSame, ReaderSame, ThreadSame, DriverSame, EnvSame
<1>10. StartKnown'
  BY <1>1, <1>2, <1>3, <1>5, <1>6, AllKnown, Names DEF StartKnown, StartSets, Made,
     StartConnects, Has, Reaching, StartOpens, HasOpen, StartWrites, StartSends,
     StartStates, InitSets, Setters, Moved, Waiting, OfOwner, OfWorker, Idle, Actors,
     StateSame, ReaderSame, ThreadSame, DriverSame, EnvSame
<1>11. ReaderKnown'
  BY <1>1, <1>2, <1>3, <1>5, <1>6, AllKnown, Names DEF ReaderKnown, AssignThenEnter,
     Actors, Made, Has, JoinThenDrop, UsedStartsNoReader, Used, IsOnline, SpawnKnown,
     StartReaderKnown, DropKnown, StopReaderKnown, KeepIsSpawned, StopIsDropped,
     ReaderRuns, OnlineReads, OfflineStops, DeafAtFirst, Moved, Waiting, OfOwner,
     OfWorker, Idle, StateSame, ReaderSame, ThreadSame, DriverSame, EnvSame
<1>12. SocketKnown'
  BY <1>1, <1>2, <1>3, <1>5, <1>6, AllKnown, Names DEF SocketKnown, OnlineIsOpen,
     IsOnline, OpenThenOnline, Reaching, ErrorIsClosed, Actors, Has, TellsState, Made,
     Moved, Waiting, OfOwner, OfWorker, Idle, StateSame, ReaderSame, ThreadSame,
     DriverSame, EnvSame
<1>. QED
  BY <1>3, <1>4, <1>7, <1>8, <1>9, <1>10, <1>11, <1>12 DEF IInv, Known

(* the end of the program there, *)
LEMMA JoinReaderCrashes ==
  ASSUME IInv, NEW t \in Actors, JoinReader(t), Crashed'
  PROVE  IInv'
<1>1. ~Crashed /\ todo[t] # <<>>
  BY AtStep DEF JoinReader, IInv, Steps
<1>2. /\ StateSame /\ ReaderSame /\ m_socket' = m_socket /\ ThreadSame /\ DriverSame
      /\ packets' = packets /\ beats' = beats /\ phase' = "crashed" /\ todo' = todo
  BY <1>1, Same DEF JoinReader, Crashed
<1>3. Types' /\ NoteIsState'
  BY <1>1, <1>2, AllKnown DEF Types, NoteIsState, StateSame, ReaderSame, ThreadSame, DriverSame
<1>4. Busy(t)'
  BY <1>1, <1>2, AllKnown, BusyIs DEF Busy, Pending
<1>. QED
  BY <1>3, <1>4 DEF IInv

(* and the reset of its pointer. *)
LEMMA DropReaderKeeps ==
  ASSUME IInv, NEW t \in Actors, DropReader(t)
  PROVE  IInv'
<1>1. Head(todo[t]) = T("dropReader") /\ ~Crashed
  BY AtStep, ByName DEF DropReader, IInv, Steps
<1>2. /\ StateSame /\ m_socket' = m_socket /\ ThreadSame /\ DriverSame /\ EnvSame
      /\ m_keepReading' = m_keepReading /\ m_readThread' = FALSE /\ reader' = reader
  BY Same DEF DropReader
<1>3. Moved(t, T("dropReader"), {}, T("dropReader")) /\ InOrder'
  BY <1>1, <1>2, Moves DEF DropReader, Steps, EnvSame
<1>4. ~Crashed' /\ Types' /\ NoteIsState'
  <2>3. m_keepReading' \in BOOLEAN /\ m_readThread' \in BOOLEAN
    BY <1>1, <1>2, AllKnown DEF Types
  <2>4. /\ StateSame /\ m_socket' = m_socket /\ ThreadSame /\ DriverSame /\ EnvSame
        /\ reader' \in {"none", "looping", "reading", "done"}
    BY <1>1, <1>2, AllKnown DEF Types
  <2>1. Types'
    BY <1>1, <2>3, <2>4, <1>3, AllKnown DEF Types, Moved, StateSame, ThreadSame, DriverSame,
       EnvSame
  <2>2. ~Crashed' /\ NoteIsState'
    BY <1>1, <1>2, <1>3, AllKnown DEF Crashed, NoteIsState, StateSame, DriverSame, EnvSame
  <2>. QED
    BY <2>1, <2>2
<1>5. phase # "delete" /\ (Live(t)' <=> Live(t)) /\ Has(t, "dropReader")
  BY <1>3, Names DEF Moved, Setters, Ending, Has
<1>6. ~m_keepReading /\ reader = "done"
  BY <1>1, <1>3, <1>5, AllKnown, Names DEF DropKnown, Moved, Waiting, Has
<1>7. /\ Later(T("dropReader")) = Tells \cup AnyAfter /\ T("join") \notin Tells \cup AnyAfter
      /\ T("enter") \notin Tells \cup AnyAfter
  BY LaterIs, Names DEF AnyAfter, Opens, StartOuter, StopOuter, StopEnd, Tells
<1>8. ThreadKnown'
  BY <1>1, <1>2, <1>3, <1>5, <1>6, <1>7, AllKnown, Names DEF ThreadKnown, WorkerKnown,
     WorkerHandles, Busy, QuitHasWorker, Has, OwnerTasks, Reaching, WorkerTasks,
     OwnerOnly, NewKnown, StartsAlone, NotYetShutting, NotYetStarted, StartedOnce, Moved,
     Waiting, OfOwner, OfWorker, Idle, Actors, StateSame, ThreadSame, DriverSame, EnvSame
<1>9. StopKnown'
  BY <1>1, <1>2, <1>3, <1>5, <1>6, <1>7, AllKnown, Names DEF StopKnown, QuitThenJoin, Has,
     JoinKnown, Leaving, StopSteps, Reaching, StopSets, Setters, StopIsCalm, Calm,
     BeatJoined, DeleteKnown, Ending, OnlySoundBeats, Moved, Waiting, OfOwner, OfWorker,
     Idle, Actors, StateSame, ThreadSame, DriverSame, EnvSame
<1>10. StateKnown'
  BY <1>1, <1>2, <1>3, <1>5, <1>6, <1>7, AllKnown, Names DEF StateKnown, AssignsLegally,
     Actors, Made, UsedStates, Used, UsedAssigns, OnlineIsGentle, IsOnline, Gentle,
     ErrorIsLone, OfflineIsCalm, OnlyOnline, ClosesInError, Has, Reaching,
     ConnectingOpens, HasOpen, ErrorCloses, StartStates, OwnerTasks, Moved, Waiting,
     OfOwner, OfWorker, Idle, StateSame, ThreadSame, DriverSame, EnvSame
<1>11. StartKnown'
  BY <1>1, <1>2, <1>3, <1>5, <1>6, <1>7, AllKnown, Names DEF StartKnown, StartSets, Made,
     StartConnects, Has, Reaching, StartOpens, HasOpen, StartWrites, StartSends,
     StartStates, InitSets, Setters, Moved, Waiting, OfOwner, OfWorker, Idle, Actors,
     StateSame, ThreadSame, DriverSame, EnvSame
<1>12. ReaderKnown'
  BY <1>1, <1>2, <1>3, <1>5, <1>6, <1>7, AllKnown, Names DEF ReaderKnown, AssignThenEnter,
     Actors, Made, Has, JoinThenDrop, UsedStartsNoReader, Used, IsOnline, SpawnKnown,
     StartReaderKnown, DropKnown, StopReaderKnown, KeepIsSpawned, StopIsDropped,
     ReaderRuns, OnlineReads, OfflineStops, DeafAtFirst, Moved, Waiting, OfOwner,
     OfWorker, Idle, StateSame, ThreadSame, DriverSame, EnvSame
<1>13. SocketKnown'
  BY <1>1, <1>2, <1>3, <1>5, <1>6, <1>7, AllKnown, Names DEF SocketKnown, OnlineIsOpen,
     IsOnline, OpenThenOnline, Reaching, ErrorIsClosed, Actors, Has, TellsState, Made,
     Moved, Waiting, OfOwner, OfWorker, Idle, StateSame, ThreadSame, DriverSame, EnvSame
<1>. QED
  BY <1>3, <1>4, <1>8, <1>9, <1>10, <1>11, <1>12, <1>13 DEF IInv, Known

-----------------------------------------------------------------------------
(* Connect and the Send... calls                                           *)

(* Connect with a connection: nothing, *)
LEMMA ConnectAgainKeeps ==
  ASSUME IInv, NEW t \in Actors, Connect(t), Step(t) = "connect", IsOnline, m_socket = "open"
  PROVE  IInv'
<1>1. Head(todo[t]) = T("connect") /\ ~Crashed /\ Busy(t)
  BY AtStep, ByName, BusyIs DEF Connect, IInv, Steps
<1>2. StateSame /\ ReaderSame /\ ThreadSame /\ DriverSame /\ EnvSame
      /\ m_socket' = m_socket
  BY <1>1, Same DEF Connect
<1>3. GoOn(t, <<>>)
  BY DEF Connect, WriteAfter
<1>4. Moved(t, T("connect"), {}, T("connect")) /\ InOrder'
  BY <1>1, <1>2, <1>3, Moves DEF Connect, Steps, EnvSame
<1>5. ~Crashed' /\ Types' /\ NoteIsState'
  BY <1>1, <1>2, <1>4, AllKnown
     DEF Crashed, Types, NoteIsState, Moved, StateSame, ReaderSame, ThreadSame, DriverSame, EnvSame
<1>6. phase # "delete" /\ Live(t) /\ Has(t, "connect")
      /\ Later(T("connect")) = StartOuter
  BY <1>1, <1>4, BusyIs, AllKnown, LaterIs, Names DEF Moved, Setters, Ending, Has, Actors
<1>7. Rest("owner") \subseteq Pending("owner") /\ Rest("worker") \subseteq Pending("worker")
  BY <1>1, AllKnown, BusyIs DEF Actors
<1>8. m_devState = "online"
  BY <1>1, AllKnown DEF IsOnline, Types, DevStates
<1>9. DeafAtFirst'
  <2>1. t = "owner"
    BY <1>1, <1>6, AllKnown DEF WorkerTasks, OwnerOnly, Actors
  <2>2. \A u \in Actors : Assigning("connecting") \in Pending(u)'
          => Assigning("connecting") \in Pending(u) /\ u # t
    BY <1>4, <2>1, Names DEF Moved, Waiting, OfOwner, Actors
  <2>3. ASSUME phase = "start", Live("owner")
        PROVE  ~Busy("worker")
    BY <1>1, <2>3, AllKnown DEF StartsAlone, Starting, Live, Busy
  <2>. QED
    BY <1>1, <1>2, <1>8, <2>1, <2>2, <2>3, AllKnown
       DEF DeafAtFirst, Busy, Actors, StateSame, ReaderSame, DriverSame, EnvSame
<1>10. ThreadKnown'
  BY <1>1, <1>2, <1>4, <1>6, <1>7, <1>8, AllKnown, Names DEF ThreadKnown, WorkerKnown,
     WorkerHandles, Busy, QuitHasWorker, Has, OwnerTasks, Reaching, WorkerTasks,
     OwnerOnly, NewKnown, StartsAlone, NotYetShutting, NotYetStarted, StartedOnce, Moved,
     Waiting, OfOwner, OfWorker, Idle, Actors, StateSame, ReaderSame, ThreadSame,
     DriverSame, EnvSame
<1>11. StopKnown'
  BY <1>1, <1>2, <1>4, <1>6, <1>7, <1>8, AllKnown, Names DEF StopKnown, QuitThenJoin, Has,
     JoinKnown, Leaving, StopSteps, Reaching, StopSets, Setters, StopIsCalm, Calm,
     BeatJoined, DeleteKnown, Ending, OnlySoundBeats, Moved, Waiting, OfOwner, OfWorker,
     Idle, Actors, StateSame, ReaderSame, ThreadSame, DriverSame, EnvSame
<1>12. StateKnown'
  BY <1>1, <1>2, <1>4, <1>6, <1>7, <1>8, AllKnown, Names DEF StateKnown, AssignsLegally,
     Actors, Made, UsedStates, Used, UsedAssigns, OnlineIsGentle, IsOnline, Gentle,
     ErrorIsLone, OfflineIsCalm, OnlyOnline, ClosesInError, Has, Reaching,
     ConnectingOpens, HasOpen, ErrorCloses, StartStates, OwnerTasks, Moved, Waiting,
     OfOwner, OfWorker, Idle, StateSame, ReaderSame, ThreadSame, DriverSame, EnvSame
<1>13. StartKnown'
  BY <1>1, <1>2, <1>4, <1>6, <1>7, <1>8, AllKnown, Names DEF StartKnown, StartSets, Made,
     StartConnects, Has, Reaching, StartOpens, HasOpen, StartWrites, StartSends,
     StartStates, InitSets, Setters, Moved, Waiting, OfOwner, OfWorker, Idle, Actors,
     StateSame, ReaderSame, ThreadSame, DriverSame, EnvSame
<1>14. ReaderKnown'
  BY <1>1, <1>2, <1>4, <1>6, <1>7, <1>8, AllKnown, Names, <1>9 DEF ReaderKnown,
     AssignThenEnter, Actors, Made, Has, JoinThenDrop, UsedStartsNoReader, Used, IsOnline,
     SpawnKnown, StartReaderKnown, DropKnown, StopReaderKnown, KeepIsSpawned,
     StopIsDropped, ReaderRuns, OnlineReads, OfflineStops, DeafAtFirst, Moved, Waiting,
     OfOwner, OfWorker, Idle, StateSame, ReaderSame, ThreadSame, DriverSame, EnvSame
<1>15. SocketKnown'
  BY <1>1, <1>2, <1>4, <1>6, <1>7, <1>8, AllKnown, Names DEF SocketKnown, OnlineIsOpen,
     IsOnline, OpenThenOnline, Reaching, ErrorIsClosed, Actors, Has, TellsState, Made,
     Moved, Waiting, OfOwner, OfWorker, Idle, StateSame, ReaderSame, ThreadSame,
     DriverSame, EnvSame
<1>. QED
  BY <1>4, <1>5, <1>10, <1>11, <1>12, <1>13, <1>14, <1>15 DEF IInv, Known

(* a Send... call with one: the write. *)
LEMMA SendAgainKeeps ==
  ASSUME IInv, NEW t \in Actors, Connect(t), Step(t) = "send", IsOnline, m_socket = "open"
  PROVE  IInv'
<1>1. Head(todo[t]) = T("send") /\ ~Crashed /\ Busy(t)
  BY AtStep, ByName, BusyIs DEF Connect, IInv, Steps
<1>2. StateSame /\ ReaderSame /\ ThreadSame /\ DriverSame /\ EnvSame
      /\ m_socket' = m_socket
  BY <1>1, Same DEF Connect
<1>3. GoOn(t, <<T("write")>>) /\ T("write") \in Tasks /\ Room(t, T("write"))
  BY <1>1, LaterIs DEF Connect, WriteAfter, Do, T, Tasks, Plain, Steps, Room
<1>4. Moved(t, T("send"), {T("write")}, T("write")) /\ InOrder'
  BY <1>1, <1>2, <1>3, Moves DEF Connect, Steps, EnvSame
<1>5. ~Crashed' /\ Types' /\ NoteIsState'
  BY <1>1, <1>2, <1>4, AllKnown
     DEF Crashed, Types, NoteIsState, Moved, StateSame, ReaderSame, ThreadSame, DriverSame, EnvSame
<1>6. phase # "delete" /\ Live(t) /\ Live(t)' /\ Has(t, "send")
      /\ Later(T("send")) = StopEnd
  BY <1>1, <1>4, BusyIs, AllKnown, LaterIs, Names DEF Moved, Setters, Ending, Has, Actors
<1>7. Rest("owner") \subseteq Pending("owner") /\ Rest("worker") \subseteq Pending("worker")
  BY <1>1, AllKnown, BusyIs DEF Actors
<1>8. m_devState = "online"
  BY <1>1, AllKnown DEF IsOnline, Types, DevStates
<1>9. StartReaderKnown'
  <2>1. SUFFICES ASSUME NEW u \in Actors,
                        (At(u, T("startReader"))' /\ ~IsOnline) \/ T("startReader") \in Rest(u)'
                 PROVE  FALSE
    BY <1>2 DEF StartReaderKnown, IsOnline, StateSame
  <2>2. u # t
    BY <1>4, <1>6, <2>1, Names DEF Moved, StopEnd
  <2>3. (At(u, T("startReader")) /\ ~IsOnline) \/ T("startReader") \in Rest(u)
    BY <1>4, <2>1, <2>2 DEF Moved, OfOwner, OfWorker, Actors
  <2>4. phase = "start" /\ Busy("owner") /\ Busy(u)
    BY <1>1, <1>7, <2>3, AllKnown DEF StartReaderKnown, Has, At, Busy, Actors
  <2>5. Starting
    BY <2>4 DEF Starting
  <2>. QED
    BY <1>4, <2>2, <2>4, <2>5 DEF Moved, OfOwner, OfWorker, Actors
<1>10. ThreadKnown'
  BY <1>1, <1>2, <1>4, <1>6, <1>7, <1>8, AllKnown, Names DEF ThreadKnown, WorkerKnown,
     WorkerHandles, Busy, QuitHasWorker, Has, OwnerTasks, Reaching, WorkerTasks,
     OwnerOnly, NewKnown, StartsAlone, NotYetShutting, NotYetStarted, StartedOnce, Moved,
     Waiting, OfOwner, OfWorker, Idle, Actors, StateSame, ReaderSame, ThreadSame,
     DriverSame, EnvSame
<1>11. StopKnown'
  BY <1>1, <1>2, <1>4, <1>6, <1>7, <1>8, AllKnown, Names DEF StopKnown, QuitThenJoin, Has,
     JoinKnown, Leaving, StopSteps, Reaching, StopSets, Setters, StopIsCalm, Calm,
     BeatJoined, DeleteKnown, Ending, OnlySoundBeats, Moved, Waiting, OfOwner, OfWorker,
     Idle, Actors, StateSame, ReaderSame, ThreadSame, DriverSame, EnvSame
<1>12. StateKnown'
  BY <1>1, <1>2, <1>4, <1>6, <1>7, <1>8, AllKnown, Names DEF StateKnown, AssignsLegally,
     Actors, Made, UsedStates, Used, UsedAssigns, OnlineIsGentle, IsOnline, Gentle,
     ErrorIsLone, OfflineIsCalm, OnlyOnline, ClosesInError, Has, Reaching,
     ConnectingOpens, HasOpen, ErrorCloses, StartStates, OwnerTasks, Moved, Waiting,
     OfOwner, OfWorker, Idle, StateSame, ReaderSame, ThreadSame, DriverSame, EnvSame
<1>13. StartKnown'
  BY <1>1, <1>2, <1>4, <1>6, <1>7, <1>8, AllKnown, Names DEF StartKnown, StartSets, Made,
     StartConnects, Has, Reaching, StartOpens, HasOpen, StartWrites, StartSends,
     StartStates, InitSets, Setters, Moved, Waiting, OfOwner, OfWorker, Idle, Actors,
     StateSame, ReaderSame, ThreadSame, DriverSame, EnvSame
<1>14. ReaderKnown'
  BY <1>1, <1>2, <1>4, <1>6, <1>7, <1>8, AllKnown, Names, <1>9 DEF ReaderKnown,
     AssignThenEnter, Actors, Made, Has, JoinThenDrop, UsedStartsNoReader, Used, IsOnline,
     SpawnKnown, DropKnown, StopReaderKnown, KeepIsSpawned, StopIsDropped, ReaderRuns,
     OnlineReads, OfflineStops, DeafAtFirst, Moved, Waiting, OfOwner, OfWorker, Idle,
     StateSame, ReaderSame, ThreadSame, DriverSame, EnvSame
<1>15. SocketKnown'
  BY <1>1, <1>2, <1>4, <1>6, <1>7, <1>8, AllKnown, Names DEF SocketKnown, OnlineIsOpen,
     IsOnline, OpenThenOnline, Reaching, ErrorIsClosed, Actors, Has, TellsState, Made,
     Moved, Waiting, OfOwner, OfWorker, Idle, StateSame, ReaderSame, ThreadSame,
     DriverSame, EnvSame
<1>. QED
  BY <1>4, <1>5, <1>10, <1>11, <1>12, <1>13, <1>14, <1>15 DEF IInv, Known

(* Connect without one, *)
LEMMA ConnectKeeps ==
  ASSUME IInv, NEW t \in Actors, Connect(t), Step(t) = "connect", ~(IsOnline /\ m_socket = "open")
  PROVE  IInv'
<1>1. Head(todo[t]) = T("connect") /\ ~Crashed /\ Busy(t)
  BY AtStep, ByName, BusyIs DEF Connect, IInv, Steps
<1>2. StateSame /\ ReaderSame /\ ThreadSame /\ DriverSame /\ EnvSame
      /\ m_socket' = m_socket
  BY <1>1, Same DEF Connect
<1>3. phase # "delete" /\ Opening("connect") \in Rests(t)
  <2>1. phase # "delete"
    BY <1>1, AtTheEnd, Names DEF Ending
  <2>2. t = "owner" /\ phase \in {"init", "start"}
    BY <1>1, AllKnown, BusyIs DEF OwnerTasks, WorkerTasks, OwnerOnly, Has, Actors
  <2>. QED
    BY <1>1, <2>1, <2>2, InnerRests DEF Inner, Rests, Actors
<1>4. /\ Setting("connecting") \in Tasks /\ Opening("connect") \in Tasks
      /\ Setting("connecting") # Opening("connect")
      /\ Room(t, Setting("connecting")) /\ Room(t, Opening("connect"))
      /\ Opening("connect") \in Later(Setting("connecting")) \cap Rests(t)
      /\ GoOn(t, <<Setting("connecting")>> \o <<Opening("connect")>>)
  <2>1. Setting("connecting") # Opening("connect")
    BY Names
  <2>2. Setting("connecting") \in Tasks /\ Opening("connect") \in Tasks
    BY DEF Tasks, Made, DevStates
  <2>3. GoOn(t, <<Setting("connecting")>> \o <<Opening("connect")>>)
    BY DEF Connect, SetTo, Setting, Opening
  <2>4. /\ Later(T("connect")) = StartOuter /\ Later(Opening("connect")) = StartOuter
        /\ Later(Setting("connecting")) = Opens \cup StartOuter \cup StopEnd
    BY LaterIs DEF After
  <2>. QED
    BY <1>1, <1>3, <2>1, <2>2, <2>3, <2>4 DEF Room, Opens
<1>5. Moved(t, T("connect"), {Setting("connecting"), Opening("connect")}, Setting("connecting"))
      /\ InOrder'
  BY <1>1, <1>2, <1>4, Moves DEF Connect, Steps, EnvSame
<1>6. ~Crashed' /\ Types' /\ NoteIsState'
  BY <1>1, <1>2, <1>5, AllKnown
     DEF Crashed, Types, NoteIsState, Moved, StateSame, ReaderSame, ThreadSame, DriverSame, EnvSame
<1>7. phase # "delete" /\ Live(t) /\ Live(t)' /\ Has(t, "connect")
      /\ Later(T("connect")) = StartOuter
  BY <1>1, <1>5, BusyIs, AllKnown, LaterIs, Names DEF Moved, Setters, Ending, Has, Actors
<1>8. Rest("owner") \subseteq Pending("owner") /\ Rest("worker") \subseteq Pending("worker")
  BY <1>1, AllKnown, BusyIs DEF Actors
<1>9. \A s \in Made : Setting(s) \in Rest(t) => s = "offline" /\ t = "owner" /\ phase = "stop"
  BY <1>5 DEF Moved, Waiting
<1>10. Starting => Valid(m_devState, "connecting") /\ m_devState # "connecting"
  <2>1. SUFFICES ASSUME Starting
                 PROVE  m_devState \in {"initialized", "offline"}
    BY ValidIs
  <2>2. t = "owner"
    BY <1>5, <2>1 DEF Moved, OfWorker
  <2>3. \A s \in Made : ~Reaching("owner", s)
    BY <1>5, <2>1, <2>2, Names DEF Moved, Waiting, Reaching, OfOwner
  <2>. QED
    BY <1>1, <1>7, <2>1, <2>2, <2>3, AllKnown DEF StartConnects, Made, DevStates
<1>11. /\ kind # "sound" /\ IsOnline => m_shuttingDown
       /\ phase = "init" => kind = "light" \/ t = "worker"
  <2>1. phase = "init" /\ t = "owner" => kind = "light"
    BY <1>1, <1>5, AllKnown, Names, PlainOf DEF InitSets, Moved, Setters
  <2>. QED
    BY <1>1, <2>1, AllKnown DEF OnlineIsOpen, Actors
<1>12. ThreadKnown'
  BY <1>1, <1>2, <1>5, <1>7, <1>8, <1>10, <1>11, AllKnown, Names DEF ThreadKnown,
     WorkerKnown, WorkerHandles, Busy, QuitHasWorker, Has, OwnerTasks, Reaching,
     WorkerTasks, OwnerOnly, NewKnown, StartsAlone, NotYetShutting, NotYetStarted,
     StartedOnce, Moved, Waiting, OfOwner, OfWorker, Idle, Actors, StateSame, ReaderSame,
     ThreadSame, DriverSame, EnvSame
<1>13. StopKnown'
  BY <1>1, <1>2, <1>5, <1>7, <1>8, <1>10, <1>11, AllKnown, Names DEF StopKnown,
     QuitThenJoin, Has, JoinKnown, Leaving, StopSteps, Reaching, StopSets, Setters,
     StopIsCalm, Calm, BeatJoined, DeleteKnown, Ending, OnlySoundBeats, Moved, Waiting,
     OfOwner, OfWorker, Idle, Actors, StateSame, ReaderSame, ThreadSame, DriverSame,
     EnvSame
<1>14. StateKnown'
  BY <1>1, <1>2, <1>5, <1>7, <1>8, <1>10, <1>11, AllKnown, Names DEF StateKnown,
     AssignsLegally, Actors, Made, UsedStates, Used, UsedAssigns, OnlineIsGentle,
     IsOnline, Gentle, ErrorIsLone, OfflineIsCalm, OnlyOnline, ClosesInError, Has,
     Reaching, ConnectingOpens, HasOpen, ErrorCloses, StartStates, OwnerTasks, Moved,
     Waiting, OfOwner, OfWorker, Idle, StateSame, ReaderSame, ThreadSame, DriverSame,
     EnvSame
<1>15. StartKnown'
  BY <1>1, <1>2, <1>5, <1>7, <1>8, <1>10, <1>11, AllKnown, Names DEF StartKnown,
     StartSets, Made, StartConnects, Has, Reaching, StartOpens, HasOpen, StartWrites,
     StartSends, StartStates, InitSets, Setters, Moved, Waiting, OfOwner, OfWorker, Idle,
     Actors, StateSame, ReaderSame, ThreadSame, DriverSame, EnvSame
<1>16. ReaderKnown'
  BY <1>1, <1>2, <1>5, <1>7, <1>8, <1>10, <1>11, AllKnown, Names DEF ReaderKnown,
     AssignThenEnter, Actors, Made, Has, JoinThenDrop, UsedStartsNoReader, Used, IsOnline,
     SpawnKnown, StartReaderKnown, DropKnown, StopReaderKnown, KeepIsSpawned,
     StopIsDropped, ReaderRuns, OnlineReads, OfflineStops, DeafAtFirst, Moved, Waiting,
     OfOwner, OfWorker, Idle, StateSame, ReaderSame, ThreadSame, DriverSame, EnvSame
<1>17. SocketKnown'
  BY <1>1, <1>2, <1>5, <1>7, <1>8, <1>10, <1>11, AllKnown, Names DEF SocketKnown,
     OnlineIsOpen, IsOnline, OpenThenOnline, Reaching, ErrorIsClosed, Actors, Has,
     TellsState, Made, Moved, Waiting, OfOwner, OfWorker, Idle, StateSame, ReaderSame,
     ThreadSame, DriverSame, EnvSame
<1>. QED
  BY <1>5, <1>6, <1>12, <1>13, <1>14, <1>15, <1>16, <1>17 DEF IInv, Known

(* and a Send... call without one. *)
LEMMA SendKeeps ==
  ASSUME IInv, NEW t \in Actors, Connect(t), Step(t) = "send", ~(IsOnline /\ m_socket = "open")
  PROVE  IInv'
<1>1. Head(todo[t]) = T("send") /\ ~Crashed /\ Busy(t)
  BY AtStep, ByName, BusyIs DEF Connect, IInv, Steps
<1>2. StateSame /\ ReaderSame /\ ThreadSame /\ DriverSame /\ EnvSame
      /\ m_socket' = m_socket
  BY <1>1, Same DEF Connect
<1>3. phase # "delete" /\ Opening("send") \in Rests(t)
  <2>1. phase # "delete"
    BY <1>1, AtTheEnd, Names DEF Ending
  <2>2. Busy(t)
    BY <1>1
  <2>. QED
    BY <1>1, <2>1, <2>2, InnerRests DEF Inner, Rests, Actors
<1>4. /\ Setting("connecting") \in Tasks /\ Opening("send") \in Tasks
      /\ Setting("connecting") # Opening("send")
      /\ Room(t, Setting("connecting")) /\ Room(t, Opening("send"))
      /\ Opening("send") \in Later(Setting("connecting")) \cap Rests(t)
      /\ GoOn(t, <<Setting("connecting")>> \o <<Opening("send")>>)
  <2>1. Setting("connecting") # Opening("send")
    BY Names
  <2>2. Setting("connecting") \in Tasks /\ Opening("send") \in Tasks
    BY DEF Tasks, Made, DevStates
  <2>3. GoOn(t, <<Setting("connecting")>> \o <<Opening("send")>>)
    BY DEF Connect, SetTo, Setting, Opening
  <2>4. /\ Later(T("send")) = StopEnd /\ Later(Opening("send")) = StopEnd
        /\ Later(Setting("connecting")) = Opens \cup StartOuter \cup StopEnd
    BY LaterIs DEF After
  <2>. QED
    BY <1>1, <1>3, <2>1, <2>2, <2>3, <2>4 DEF Room, Opens
<1>5. Moved(t, T("send"), {Setting("connecting"), Opening("send")}, Setting("connecting")) /\ InOrder'
  BY <1>1, <1>2, <1>4, Moves DEF Connect, Steps, EnvSame
<1>6. ~Crashed' /\ Types' /\ NoteIsState'
  BY <1>1, <1>2, <1>5, AllKnown
     DEF Crashed, Types, NoteIsState, Moved, StateSame, ReaderSame, ThreadSame, DriverSame, EnvSame
<1>7. phase # "delete" /\ Live(t) /\ Live(t)' /\ Has(t, "send")
      /\ Later(T("send")) = StopEnd
  BY <1>1, <1>5, BusyIs, AllKnown, LaterIs, Names DEF Moved, Setters, Ending, Has, Actors
<1>8. Rest("owner") \subseteq Pending("owner") /\ Rest("worker") \subseteq Pending("worker")
  BY <1>1, AllKnown, BusyIs DEF Actors
<1>9. \A s \in Made : Setting(s) \in Rest(t) => s = "offline" /\ t = "owner" /\ phase = "stop"
  BY <1>5 DEF Moved, Waiting
<1>10. Starting => Valid(m_devState, "connecting") /\ m_devState # "connecting"
  <2>1. SUFFICES ASSUME Starting
                 PROVE  m_devState \in {"initialized", "offline"}
    BY ValidIs
  <2>2. t = "owner"
    BY <1>5, <2>1 DEF Moved, OfWorker
  <2>3. \A s \in Made : ~Reaching("owner", s)
    BY <1>5, <2>1, <2>2, Names DEF Moved, Waiting, Reaching, OfOwner
  <2>. QED
    <3>1. ~Has("owner", "connect") /\ ~HasOpen("owner")
      BY <1>5, <1>7, <2>2, Names DEF Moved, Has, HasOpen, StopEnd
    <3>2. m_devState \in {"offline", "online"}
      BY <1>1, <1>7, <2>1, <2>2, <2>3, <3>1, AllKnown DEF StartSends
    <3>3. kind = "ptz" /\ ~m_shuttingDown
      BY <1>1, <1>7, <2>1, <2>2, AllKnown DEF OwnerTasks, NotYetShutting, Starting
    <3>. QED
      BY <1>1, <3>2, <3>3, AllKnown DEF OnlineIsOpen, IsOnline
<1>11. /\ kind # "sound" /\ IsOnline => m_shuttingDown
       /\ phase = "init" => kind = "light" \/ t = "worker"
  <2>1. phase = "init" /\ t = "owner" => kind = "light"
    BY <1>1, <1>5, AllKnown, Names, PlainOf DEF InitSets, Moved, Setters
  <2>. QED
    BY <1>1, <2>1, AllKnown DEF OnlineIsOpen, Actors
<1>12. StartReaderKnown'
  <2>1. SUFFICES ASSUME NEW u \in Actors,
                        (At(u, T("startReader"))' /\ ~IsOnline) \/ T("startReader") \in Rest(u)'
                 PROVE  FALSE
    BY <1>2 DEF StartReaderKnown, IsOnline, StateSame
  <2>2. u # t
    BY <1>5, <1>7, <2>1, Names DEF Moved, StopEnd
  <2>3. (At(u, T("startReader")) /\ ~IsOnline) \/ T("startReader") \in Rest(u)
    BY <1>5, <2>1, <2>2 DEF Moved, OfOwner, OfWorker, Actors
  <2>4. phase = "start" /\ Busy("owner") /\ Busy(u)
    BY <1>1, <1>8, <2>3, AllKnown DEF StartReaderKnown, Has, At, Busy, Actors
  <2>5. Starting
    BY <2>4 DEF Starting
  <2>. QED
    BY <1>5, <2>2, <2>4, <2>5 DEF Moved, OfOwner, OfWorker, Actors
<1>13. ThreadKnown'
  BY <1>1, <1>2, <1>5, <1>7, <1>8, <1>10, <1>11, AllKnown, Names DEF ThreadKnown,
     WorkerKnown, WorkerHandles, Busy, QuitHasWorker, Has, OwnerTasks, Reaching,
     WorkerTasks, OwnerOnly, NewKnown, StartsAlone, NotYetShutting, NotYetStarted,
     StartedOnce, Moved, Waiting, OfOwner, OfWorker, Idle, Actors, StateSame, ReaderSame,
     ThreadSame, DriverSame, EnvSame
<1>14. StopKnown'
  BY <1>1, <1>2, <1>5, <1>7, <1>8, <1>10, <1>11, AllKnown, Names DEF StopKnown,
     QuitThenJoin, Has, JoinKnown, Leaving, StopSteps, Reaching, StopSets, Setters,
     StopIsCalm, Calm, BeatJoined, DeleteKnown, Ending, OnlySoundBeats, Moved, Waiting,
     OfOwner, OfWorker, Idle, Actors, StateSame, ReaderSame, ThreadSame, DriverSame,
     EnvSame
<1>15. StateKnown'
  BY <1>1, <1>2, <1>5, <1>7, <1>8, <1>10, <1>11, AllKnown, Names DEF StateKnown,
     AssignsLegally, Actors, Made, UsedStates, Used, UsedAssigns, OnlineIsGentle,
     IsOnline, Gentle, ErrorIsLone, OfflineIsCalm, OnlyOnline, ClosesInError, Has,
     Reaching, ConnectingOpens, HasOpen, ErrorCloses, StartStates, OwnerTasks, Moved,
     Waiting, OfOwner, OfWorker, Idle, StateSame, ReaderSame, ThreadSame, DriverSame,
     EnvSame
<1>16. StartKnown'
  BY <1>1, <1>2, <1>5, <1>7, <1>8, <1>10, <1>11, AllKnown, Names DEF StartKnown,
     StartSets, Made, StartConnects, Has, Reaching, StartOpens, HasOpen, StartWrites,
     StartSends, StartStates, InitSets, Setters, Moved, Waiting, OfOwner, OfWorker, Idle,
     Actors, StateSame, ReaderSame, ThreadSame, DriverSame, EnvSame
<1>17. ReaderKnown'
  BY <1>1, <1>2, <1>5, <1>7, <1>8, <1>10, <1>11, AllKnown, Names, <1>12 DEF ReaderKnown,
     AssignThenEnter, Actors, Made, Has, JoinThenDrop, UsedStartsNoReader, Used, IsOnline,
     SpawnKnown, DropKnown, StopReaderKnown, KeepIsSpawned, StopIsDropped, ReaderRuns,
     OnlineReads, OfflineStops, DeafAtFirst, Moved, Waiting, OfOwner, OfWorker, Idle,
     StateSame, ReaderSame, ThreadSame, DriverSame, EnvSame
<1>18. SocketKnown'
  BY <1>1, <1>2, <1>5, <1>7, <1>8, <1>10, <1>11, AllKnown, Names DEF SocketKnown,
     OnlineIsOpen, IsOnline, OpenThenOnline, Reaching, ErrorIsClosed, Actors, Has,
     TellsState, Made, Moved, Waiting, OfOwner, OfWorker, Idle, StateSame, ReaderSame,
     ThreadSame, DriverSame, EnvSame
<1>. QED
  BY <1>5, <1>6, <1>13, <1>14, <1>15, <1>16, <1>17, <1>18 DEF IInv, Known

(* A body of one task written as two parts. *)
LEMMA NothingBehind ==
  ASSUME NEW x
  PROVE  <<x>> \o <<>> = <<x>>
<1>. DEFINE s == <<x>>
<1>1. s \in Seq({x})
  OBVIOUS
<1>. HIDE DEF s
<1>2. s \o <<>> = s
  BY <1>1, ConcatEmptySeq
<1>. QED
  BY <1>2 DEF s

(* The open that succeeds in Connect, *)
LEMMA OpenConnectsKeeps ==
  ASSUME IInv, NEW t \in Actors, Open(t), m_socket' = "open", Arg(t) = "connect"
  PROVE  IInv'
<1>1. Head(todo[t]) = Opening("connect") /\ ~Crashed /\ Busy(t)
  BY AtStep, ByName, BusyIs DEF Open, IInv, Steps, Opens
<1>2. StateSame /\ ReaderSame /\ ThreadSame /\ DriverSame /\ EnvSame
      /\ m_socket' = "open"
  BY <1>1, Same DEF Open
<1>3. phase # "delete" /\ Inner \subseteq Rests(t)
  BY <1>1, AtTheEnd, InnerRests, Names DEF Ending
<1>4. Setting("online") \in Tasks /\ Room(t, Setting("online")) /\ GoOn(t, <<Setting("online")>>)
  <2>1. Setting("online") \in Tasks
    BY DEF Tasks, Made, DevStates
  <2>2. GoOn(t, <<Setting("online")>>)
    BY NothingBehind DEF Open, SetTo, Setting, WriteAfter, Do, T
  <2>3. Later(Opening("connect")) \subseteq StartOuter \cup StopEnd /\ StartOuter
          \cup StopEnd \subseteq Later(Setting("online"))
    BY <1>1, LaterIs DEF After, Opens
  <2>. QED
    BY <1>1, <2>1, <2>2, <2>3 DEF Room
<1>5. Moved(t, Opening("connect"), {Setting("online")}, Setting("online")) /\ InOrder'
  BY <1>1, <1>2, <1>4, Moves DEF Open, Steps, EnvSame
<1>6. ~Crashed' /\ Types' /\ NoteIsState'
  BY <1>1, <1>2, <1>5, AllKnown
     DEF Crashed, Types, NoteIsState, Moved, StateSame, ReaderSame, ThreadSame, DriverSame, EnvSame
<1>7. phase # "delete" /\ Live(t) /\ Live(t)'
      /\ Later(Opening("connect")) \subseteq StartOuter \cup StopEnd
      /\ Opening("connect") \in Opens /\ HasOpen(t)
  BY <1>1, <1>5, BusyIs, AllKnown, LaterIs, Names DEF Moved, Setters, Ending, Has, Actors,
     Opens, HasOpen
<1>8. Rest("owner") \subseteq Pending("owner") /\ Rest("worker") \subseteq Pending("worker")
  BY <1>1, AllKnown, BusyIs DEF Actors
<1>9. \A s \in Made : ~Reaching(t, s) \/ (s = "offline" /\ t = "owner" /\ phase = "stop")
  BY <1>5, <1>7, Names DEF Moved, Waiting, Reaching, Opens
<1>10. Starting => m_devState = "connecting" /\ Valid(m_devState, "online") /\ t = "owner"
  <2>1. SUFFICES ASSUME Starting
                 PROVE  m_devState = "connecting" /\ t = "owner"
    BY ValidIs
  <2>2. t = "owner" /\ phase # "stop"
    BY <1>5, <2>1 DEF Moved, OfWorker, Starting
  <2>. QED
    BY <1>1, <1>7, <1>9, <2>1, <2>2, AllKnown DEF StartOpens, Made, DevStates
<1>11. /\ Used /\ IsOnline => m_shuttingDown
       /\ Used /\ m_devState = "error" => phase = "stop"
  <2>1. ~Gentle(t)
    BY <1>5, <1>7, Names DEF Gentle, Moved, Opens
  <2>2. Used /\ IsOnline => m_shuttingDown
    BY <1>1, <1>7, <2>1, AllKnown DEF OnlineIsGentle
  <2>3. Used /\ m_devState = "error" => phase = "stop"
    BY <1>1, <1>5, <1>7, AllKnown DEF OnlyOnline, IsOnline, Moved, OfOwner, OfWorker, Used,
       InUse
  <2>. QED
    BY <2>2, <2>3
<1>12. Used \/ Starting \/ kind = "sound"
  BY <1>5, <1>7 DEF Moved, OfOwner, OfWorker, Used
<1>13. Reaching(t, "online")' /\ "online" \in Made
  BY <1>5 DEF Moved, Reaching, Made, DevStates
<1>14. ThreadKnown'
  BY <1>1, <1>2, <1>5, <1>7, <1>8, <1>9, <1>10, <1>11, <1>12, <1>13, AllKnown, Names DEF
     ThreadKnown, WorkerKnown, WorkerHandles, Busy, QuitHasWorker, Has, OwnerTasks,
     Reaching, WorkerTasks, OwnerOnly, NewKnown, StartsAlone, NotYetShutting,
     NotYetStarted, StartedOnce, Moved, Waiting, OfOwner, OfWorker, Idle, Actors,
     StateSame, ReaderSame, ThreadSame, DriverSame, EnvSame
<1>15. StopKnown'
  BY <1>1, <1>2, <1>5, <1>7, <1>8, <1>9, <1>10, <1>11, <1>12, <1>13, AllKnown, Names DEF
     StopKnown, QuitThenJoin, Has, JoinKnown, Leaving, StopSteps, Reaching, StopSets,
     Setters, StopIsCalm, Calm, BeatJoined, DeleteKnown, Ending, OnlySoundBeats, Moved,
     Waiting, OfOwner, OfWorker, Idle, Actors, StateSame, ReaderSame, ThreadSame,
     DriverSame, EnvSame
<1>16. StateKnown'
  BY <1>1, <1>2, <1>5, <1>7, <1>8, <1>9, <1>10, <1>11, <1>12, <1>13, AllKnown, Names DEF
     StateKnown, AssignsLegally, Actors, Made, UsedStates, Used, UsedAssigns,
     OnlineIsGentle, IsOnline, Gentle, ErrorIsLone, OfflineIsCalm, OnlyOnline,
     ClosesInError, Has, Reaching, ConnectingOpens, HasOpen, ErrorCloses, StartStates,
     OwnerTasks, Moved, Waiting, OfOwner, OfWorker, Idle, StateSame, ReaderSame,
     ThreadSame, DriverSame, EnvSame
<1>17. StartKnown'
  BY <1>1, <1>2, <1>5, <1>7, <1>8, <1>9, <1>10, <1>11, <1>12, <1>13, AllKnown, Names DEF
     StartKnown, StartSets, Made, StartConnects, Has, Reaching, StartOpens, HasOpen,
     StartWrites, StartSends, StartStates, InitSets, Setters, Moved, Waiting, OfOwner,
     OfWorker, Idle, Actors, StateSame, ReaderSame, ThreadSame, DriverSame, EnvSame
<1>18. ReaderKnown'
  BY <1>1, <1>2, <1>5, <1>7, <1>8, <1>9, <1>10, <1>11, <1>12, <1>13, AllKnown, Names DEF
     ReaderKnown, AssignThenEnter, Actors, Made, Has, JoinThenDrop, UsedStartsNoReader,
     Used, IsOnline, SpawnKnown, StartReaderKnown, DropKnown, StopReaderKnown,
     KeepIsSpawned, StopIsDropped, ReaderRuns, OnlineReads, OfflineStops, DeafAtFirst,
     Moved, Waiting, OfOwner, OfWorker, Idle, StateSame, ReaderSame, ThreadSame,
     DriverSame, EnvSame
<1>19. SocketKnown'
  BY <1>1, <1>2, <1>5, <1>7, <1>8, <1>9, <1>10, <1>11, <1>12, <1>13, AllKnown, Names DEF
     SocketKnown, OnlineIsOpen, IsOnline, OpenThenOnline, Reaching, ErrorIsClosed, Actors,
     Has, TellsState, Made, Moved, Waiting, OfOwner, OfWorker, Idle, StateSame,
     ReaderSame, ThreadSame, DriverSame, EnvSame
<1>. QED
  BY <1>5, <1>6, <1>14, <1>15, <1>16, <1>17, <1>18, <1>19 DEF IInv, Known

(* in a Send... call, *)
LEMMA OpenSendsKeeps ==
  ASSUME IInv, NEW t \in Actors, Open(t), m_socket' = "open", Arg(t) = "send"
  PROVE  IInv'
<1>1. Head(todo[t]) = Opening("send") /\ ~Crashed /\ Busy(t)
  BY AtStep, ByName, BusyIs DEF Open, IInv, Steps, Opens
<1>2. StateSame /\ ReaderSame /\ ThreadSame /\ DriverSame /\ EnvSame
      /\ m_socket' = "open"
  BY <1>1, Same DEF Open
<1>3. phase # "delete" /\ Inner \subseteq Rests(t)
  BY <1>1, AtTheEnd, InnerRests, Names DEF Ending
<1>4. /\ Setting("online") \in Tasks /\ T("write") \in Tasks
      /\ Setting("online") # T("write")
      /\ Room(t, Setting("online")) /\ Room(t, T("write"))
      /\ T("write") \in Later(Setting("online")) \cap Rests(t)
      /\ GoOn(t, <<Setting("online")>> \o <<T("write")>>)
  <2>1. Setting("online") # T("write")
    BY Names
  <2>2. Setting("online") \in Tasks /\ T("write") \in Tasks
    BY DEF Tasks, Made, DevStates, Plain, Steps
  <2>3. GoOn(t, <<Setting("online")>> \o <<T("write")>>)
    BY DEF Open, SetTo, Setting, WriteAfter, Do, T
  <2>4. /\ Later(Opening("send")) = StopEnd /\ Later(T("write")) = StopEnd
        /\ Later(Setting("online")) = {T("write")} \cup StartOuter \cup StopEnd
    BY LaterIs DEF After
  <2>. QED
    BY <1>1, <1>3, <2>1, <2>2, <2>3, <2>4 DEF Room, Inner
<1>5. Moved(t, Opening("send"), {Setting("online"), T("write")}, Setting("online")) /\ InOrder'
  BY <1>1, <1>2, <1>4, Moves DEF Open, Steps, EnvSame
<1>6. ~Crashed' /\ Types' /\ NoteIsState'
  BY <1>1, <1>2, <1>5, AllKnown
     DEF Crashed, Types, NoteIsState, Moved, StateSame, ReaderSame, ThreadSame, DriverSame, EnvSame
<1>7. phase # "delete" /\ Live(t) /\ Live(t)'
      /\ Later(Opening("send")) \subseteq StartOuter \cup StopEnd
      /\ Opening("send") \in Opens /\ HasOpen(t)
  BY <1>1, <1>5, BusyIs, AllKnown, LaterIs, Names DEF Moved, Setters, Ending, Has, Actors,
     Opens, HasOpen
<1>8. Rest("owner") \subseteq Pending("owner") /\ Rest("worker") \subseteq Pending("worker")
  BY <1>1, AllKnown, BusyIs DEF Actors
<1>9. \A s \in Made : ~Reaching(t, s) \/ (s = "offline" /\ t = "owner" /\ phase = "stop")
  BY <1>5, <1>7, Names DEF Moved, Waiting, Reaching, Opens
<1>10. Starting => m_devState = "connecting" /\ Valid(m_devState, "online") /\ t = "owner"
  <2>1. SUFFICES ASSUME Starting
                 PROVE  m_devState = "connecting" /\ t = "owner"
    BY ValidIs
  <2>2. t = "owner" /\ phase # "stop"
    BY <1>5, <2>1 DEF Moved, OfWorker, Starting
  <2>. QED
    BY <1>1, <1>7, <1>9, <2>1, <2>2, AllKnown DEF StartOpens, Made, DevStates
<1>11. /\ Used /\ IsOnline => m_shuttingDown
       /\ Used /\ m_devState = "error" => phase = "stop"
  <2>1. ~Gentle(t)
    BY <1>5, <1>7, Names DEF Gentle, Moved, Opens
  <2>2. Used /\ IsOnline => m_shuttingDown
    BY <1>1, <1>7, <2>1, AllKnown DEF OnlineIsGentle
  <2>3. Used /\ m_devState = "error" => phase = "stop"
    BY <1>1, <1>5, <1>7, AllKnown DEF OnlyOnline, IsOnline, Moved, OfOwner, OfWorker, Used,
       InUse
  <2>. QED
    BY <2>2, <2>3
<1>12. Used \/ Starting \/ kind = "sound"
  BY <1>5, <1>7 DEF Moved, OfOwner, OfWorker, Used
<1>13. Reaching(t, "online")' /\ "online" \in Made
  BY <1>5 DEF Moved, Reaching, Made, DevStates
<1>14. ThreadKnown'
  BY <1>1, <1>2, <1>5, <1>7, <1>8, <1>9, <1>10, <1>11, <1>12, <1>13, AllKnown, Names DEF
     ThreadKnown, WorkerKnown, WorkerHandles, Busy, QuitHasWorker, Has, OwnerTasks,
     Reaching, WorkerTasks, OwnerOnly, NewKnown, StartsAlone, NotYetShutting,
     NotYetStarted, StartedOnce, Moved, Waiting, OfOwner, OfWorker, Idle, Actors,
     StateSame, ReaderSame, ThreadSame, DriverSame, EnvSame
<1>15. StopKnown'
  BY <1>1, <1>2, <1>5, <1>7, <1>8, <1>9, <1>10, <1>11, <1>12, <1>13, AllKnown, Names DEF
     StopKnown, QuitThenJoin, Has, JoinKnown, Leaving, StopSteps, Reaching, StopSets,
     Setters, StopIsCalm, Calm, BeatJoined, DeleteKnown, Ending, OnlySoundBeats, Moved,
     Waiting, OfOwner, OfWorker, Idle, Actors, StateSame, ReaderSame, ThreadSame,
     DriverSame, EnvSame
<1>16. StateKnown'
  BY <1>1, <1>2, <1>5, <1>7, <1>8, <1>9, <1>10, <1>11, <1>12, <1>13, AllKnown, Names DEF
     StateKnown, AssignsLegally, Actors, Made, UsedStates, Used, UsedAssigns,
     OnlineIsGentle, IsOnline, Gentle, ErrorIsLone, OfflineIsCalm, OnlyOnline,
     ClosesInError, Has, Reaching, ConnectingOpens, HasOpen, ErrorCloses, StartStates,
     OwnerTasks, Moved, Waiting, OfOwner, OfWorker, Idle, StateSame, ReaderSame,
     ThreadSame, DriverSame, EnvSame
<1>17. StartKnown'
  BY <1>1, <1>2, <1>5, <1>7, <1>8, <1>9, <1>10, <1>11, <1>12, <1>13, AllKnown, Names DEF
     StartKnown, StartSets, Made, StartConnects, Has, Reaching, StartOpens, HasOpen,
     StartWrites, StartSends, StartStates, InitSets, Setters, Moved, Waiting, OfOwner,
     OfWorker, Idle, Actors, StateSame, ReaderSame, ThreadSame, DriverSame, EnvSame
<1>18. ReaderKnown'
  BY <1>1, <1>2, <1>5, <1>7, <1>8, <1>9, <1>10, <1>11, <1>12, <1>13, AllKnown, Names DEF
     ReaderKnown, AssignThenEnter, Actors, Made, Has, JoinThenDrop, UsedStartsNoReader,
     Used, IsOnline, SpawnKnown, StartReaderKnown, DropKnown, StopReaderKnown,
     KeepIsSpawned, StopIsDropped, ReaderRuns, OnlineReads, OfflineStops, DeafAtFirst,
     Moved, Waiting, OfOwner, OfWorker, Idle, StateSame, ReaderSame, ThreadSame,
     DriverSame, EnvSame
<1>19. SocketKnown'
  BY <1>1, <1>2, <1>5, <1>7, <1>8, <1>9, <1>10, <1>11, <1>12, <1>13, AllKnown, Names DEF
     SocketKnown, OnlineIsOpen, IsOnline, OpenThenOnline, Reaching, ErrorIsClosed, Actors,
     Has, TellsState, Made, Moved, Waiting, OfOwner, OfWorker, Idle, StateSame,
     ReaderSame, ThreadSame, DriverSame, EnvSame
<1>. QED
  BY <1>5, <1>6, <1>14, <1>15, <1>16, <1>17, <1>18, <1>19 DEF IInv, Known

(* and the one that throws. *)
LEMMA OpenFailsKeeps ==
  ASSUME IInv, NEW t \in Actors, Open(t), m_socket' = "closed"
  PROVE  IInv'
<1>1. Head(todo[t]) = Opening(Arg(t)) /\ ~Crashed /\ Busy(t) /\ Opening(Arg(t)) \in Opens
  BY AtStep, ByName, BusyIs DEF Open, IInv, Steps, Opens
<1>2. StateSame /\ ReaderSame /\ ThreadSame /\ DriverSame /\ EnvSame
      /\ m_socket' = "closed"
  BY <1>1, Same DEF Open
<1>3. phase # "delete" /\ Inner \subseteq Rests(t)
  BY <1>1, AtTheEnd, InnerRests, Names DEF Ending
<1>4. Setting("offline") \in Tasks /\ Room(t, Setting("offline")) /\ GoOn(t, <<Setting("offline")>>)
  <2>1. Setting("offline") \in Tasks
    BY DEF Tasks, Made, DevStates
  <2>2. GoOn(t, <<Setting("offline")>>)
    BY DEF Open, SetTo, Setting, WriteAfter, Do, T
  <2>3. Later(Opening(Arg(t))) \subseteq StartOuter \cup StopEnd /\ StartOuter
          \cup StopEnd \subseteq Later(Setting("offline"))
    BY <1>1, LaterIs DEF After, Opens
  <2>. QED
    BY <1>1, <2>1, <2>2, <2>3 DEF Room
<1>5. Moved(t, Opening(Arg(t)), {Setting("offline")}, Setting("offline")) /\ InOrder'
  BY <1>1, <1>2, <1>4, Moves DEF Open, Steps, EnvSame
<1>6. ~Crashed' /\ Types' /\ NoteIsState'
  BY <1>1, <1>2, <1>5, AllKnown
     DEF Crashed, Types, NoteIsState, Moved, StateSame, ReaderSame, ThreadSame, DriverSame, EnvSame
<1>7. phase # "delete" /\ Live(t) /\ Live(t)'
      /\ Later(Opening(Arg(t))) \subseteq StartOuter \cup StopEnd
      /\ Opening(Arg(t)) \in Opens /\ HasOpen(t)
  BY <1>1, <1>5, BusyIs, AllKnown, LaterIs, Names DEF Moved, Setters, Ending, Has, Actors,
     Opens, HasOpen
<1>8. Rest("owner") \subseteq Pending("owner") /\ Rest("worker") \subseteq Pending("worker")
  BY <1>1, AllKnown, BusyIs DEF Actors
<1>9. \A s \in Made : ~Reaching(t, s) \/ (s = "offline" /\ t = "owner" /\ phase = "stop")
  BY <1>5, <1>7, Names DEF Moved, Waiting, Reaching, Opens
<1>10. Starting => m_devState = "connecting" /\ Valid(m_devState, "offline") /\ t = "owner"
  <2>1. SUFFICES ASSUME Starting
                 PROVE  m_devState = "connecting" /\ t = "owner"
    BY ValidIs
  <2>2. t = "owner" /\ phase # "stop"
    BY <1>5, <2>1 DEF Moved, OfWorker, Starting
  <2>. QED
    BY <1>1, <1>7, <1>9, <2>1, <2>2, AllKnown DEF StartOpens, Made, DevStates
<1>11. /\ Used /\ IsOnline => m_shuttingDown
       /\ Used /\ m_devState = "error" => phase = "stop"
  <2>1. ~Gentle(t)
    BY <1>5, <1>7, Names DEF Gentle, Moved, Opens
  <2>2. Used /\ IsOnline => m_shuttingDown
    BY <1>1, <1>7, <2>1, AllKnown DEF OnlineIsGentle
  <2>3. Used /\ m_devState = "error" => phase = "stop"
    BY <1>1, <1>5, <1>7, AllKnown DEF OnlyOnline, IsOnline, Moved, OfOwner, OfWorker, Used,
       InUse
  <2>. QED
    BY <2>2, <2>3
<1>12. Used \/ Starting \/ kind = "sound"
  BY <1>5, <1>7 DEF Moved, OfOwner, OfWorker, Used
<1>13. Reaching(t, "offline")' /\ "offline" \in Made
  BY <1>5 DEF Moved, Reaching, Made, DevStates
<1>14. ThreadKnown'
  BY <1>1, <1>2, <1>5, <1>7, <1>8, <1>9, <1>10, <1>11, <1>12, <1>13, AllKnown, Names DEF
     ThreadKnown, WorkerKnown, WorkerHandles, Busy, QuitHasWorker, Has, OwnerTasks,
     Reaching, WorkerTasks, OwnerOnly, NewKnown, StartsAlone, NotYetShutting,
     NotYetStarted, StartedOnce, Moved, Waiting, OfOwner, OfWorker, Idle, Actors,
     StateSame, ReaderSame, ThreadSame, DriverSame, EnvSame
<1>15. StopKnown'
  BY <1>1, <1>2, <1>5, <1>7, <1>8, <1>9, <1>10, <1>11, <1>12, <1>13, AllKnown, Names DEF
     StopKnown, QuitThenJoin, Has, JoinKnown, Leaving, StopSteps, Reaching, StopSets,
     Setters, StopIsCalm, Calm, BeatJoined, DeleteKnown, Ending, OnlySoundBeats, Moved,
     Waiting, OfOwner, OfWorker, Idle, Actors, StateSame, ReaderSame, ThreadSame,
     DriverSame, EnvSame
<1>16. StateKnown'
  BY <1>1, <1>2, <1>5, <1>7, <1>8, <1>9, <1>10, <1>11, <1>12, <1>13, AllKnown, Names DEF
     StateKnown, AssignsLegally, Actors, Made, UsedStates, Used, UsedAssigns,
     OnlineIsGentle, IsOnline, Gentle, ErrorIsLone, OfflineIsCalm, OnlyOnline,
     ClosesInError, Has, Reaching, ConnectingOpens, HasOpen, ErrorCloses, StartStates,
     OwnerTasks, Moved, Waiting, OfOwner, OfWorker, Idle, StateSame, ReaderSame,
     ThreadSame, DriverSame, EnvSame
<1>17. StartKnown'
  BY <1>1, <1>2, <1>5, <1>7, <1>8, <1>9, <1>10, <1>11, <1>12, <1>13, AllKnown, Names DEF
     StartKnown, StartSets, Made, StartConnects, Has, Reaching, StartOpens, HasOpen,
     StartWrites, StartSends, StartStates, InitSets, Setters, Moved, Waiting, OfOwner,
     OfWorker, Idle, Actors, StateSame, ReaderSame, ThreadSame, DriverSame, EnvSame
<1>18. ReaderKnown'
  BY <1>1, <1>2, <1>5, <1>7, <1>8, <1>9, <1>10, <1>11, <1>12, <1>13, AllKnown, Names DEF
     ReaderKnown, AssignThenEnter, Actors, Made, Has, JoinThenDrop, UsedStartsNoReader,
     Used, IsOnline, SpawnKnown, StartReaderKnown, DropKnown, StopReaderKnown,
     KeepIsSpawned, StopIsDropped, ReaderRuns, OnlineReads, OfflineStops, DeafAtFirst,
     Moved, Waiting, OfOwner, OfWorker, Idle, StateSame, ReaderSame, ThreadSame,
     DriverSame, EnvSame
<1>19. SocketKnown'
  BY <1>1, <1>2, <1>5, <1>7, <1>8, <1>9, <1>10, <1>11, <1>12, <1>13, AllKnown, Names DEF
     SocketKnown, OnlineIsOpen, IsOnline, OpenThenOnline, Reaching, ErrorIsClosed, Actors,
     Has, TellsState, Made, Moved, Waiting, OfOwner, OfWorker, Idle, StateSame,
     ReaderSame, ThreadSame, DriverSame, EnvSame
<1>. QED
  BY <1>5, <1>6, <1>14, <1>15, <1>16, <1>17, <1>18, <1>19 DEF IInv, Known

(* The write that succeeds, *)
LEMMA WriteKeeps ==
  ASSUME IInv, NEW t \in Actors, Write(t), GoOn(t, <<>>), m_socket = "open"
  PROVE  IInv'
<1>1. Head(todo[t]) = T("write") /\ ~Crashed /\ Busy(t)
  BY AtStep, ByName, BusyIs DEF Write, IInv, Steps
<1>2. StateSame /\ ReaderSame /\ ThreadSame /\ DriverSame /\ EnvSame
      /\ m_socket' = m_socket
  BY <1>1, Same DEF Write
<1>3. GoOn(t, <<>>)
  OBVIOUS
<1>4. Moved(t, T("write"), {}, T("write")) /\ InOrder'
  BY <1>1, <1>2, <1>3, Moves DEF Write, Steps, EnvSame
<1>5. ~Crashed' /\ Types' /\ NoteIsState'
  BY <1>1, <1>2, <1>4, AllKnown
     DEF Crashed, Types, NoteIsState, Moved, StateSame, ReaderSame, ThreadSame, DriverSame, EnvSame
<1>6. phase # "delete" /\ Live(t) /\ Has(t, "write")
      /\ Later(T("write")) = StopEnd
  BY <1>1, <1>4, BusyIs, AllKnown, LaterIs, Names DEF Moved, Setters, Ending, Has, Actors
<1>7. Rest("owner") \subseteq Pending("owner") /\ Rest("worker") \subseteq Pending("worker")
  BY <1>1, AllKnown, BusyIs DEF Actors
<1>8. \A s \in Made : ~Reaching(t, s) \/ (s = "offline" /\ t = "owner" /\ phase = "stop")
  BY <1>4, <1>6, Names DEF Moved, Waiting, Reaching, Opens
<1>9. Starting => m_devState = "online" /\ t = "owner"
  <2>1. SUFFICES ASSUME Starting
                 PROVE  m_devState = "online" /\ t = "owner"
    OBVIOUS
  <2>2. t = "owner" /\ phase # "stop"
    BY <1>4, <2>1 DEF Moved, OfWorker, Starting
  <2>. QED
    BY <1>1, <1>6, <1>8, <2>1, <2>2, AllKnown DEF StartWrites, Made, DevStates
<1>10. ~Live(t)'
  BY <1>4, <1>6, Names DEF Moved, RestLive, StopEnd, Setters
<1>11. DeafAtFirst'
  <2>1. \A u \in Actors : Assigning("connecting") \in Pending(u)'
          => Assigning("connecting") \in Pending(u) /\ u # t
    BY <1>4, Names DEF Moved, Waiting, OfOwner, OfWorker, Actors
  <2>2. ASSUME phase = "start", Live("owner")
        PROVE  Starting /\ ~Busy("worker")
    BY <1>1, <2>2, AllKnown DEF StartsAlone, Starting, Live, Busy
  <2>. QED
    BY <1>1, <1>2, <1>9, <2>1, <2>2, AllKnown
       DEF DeafAtFirst, Busy, Actors, StateSame, ReaderSame, DriverSame, EnvSame
<1>12. ThreadKnown'
  BY <1>1, <1>2, <1>4, <1>6, <1>7, <1>8, <1>9, <1>10, AllKnown, Names DEF ThreadKnown,
     WorkerKnown, WorkerHandles, Busy, QuitHasWorker, Has, OwnerTasks, Reaching,
     WorkerTasks, OwnerOnly, NewKnown, StartsAlone, NotYetShutting, NotYetStarted,
     StartedOnce, Moved, Waiting, OfOwner, OfWorker, Idle, Actors, StateSame, ReaderSame,
     ThreadSame, DriverSame, EnvSame
<1>13. StopKnown'
  BY <1>1, <1>2, <1>4, <1>6, <1>7, <1>8, <1>9, <1>10, AllKnown, Names DEF StopKnown,
     QuitThenJoin, Has, JoinKnown, Leaving, StopSteps, Reaching, StopSets, Setters,
     StopIsCalm, Calm, BeatJoined, DeleteKnown, Ending, OnlySoundBeats, Moved, Waiting,
     OfOwner, OfWorker, Idle, Actors, StateSame, ReaderSame, ThreadSame, DriverSame,
     EnvSame
<1>14. StateKnown'
  BY <1>1, <1>2, <1>4, <1>6, <1>7, <1>8, <1>9, <1>10, AllKnown, Names DEF StateKnown,
     AssignsLegally, Actors, Made, UsedStates, Used, UsedAssigns, OnlineIsGentle,
     IsOnline, Gentle, ErrorIsLone, OfflineIsCalm, OnlyOnline, ClosesInError, Has,
     Reaching, ConnectingOpens, HasOpen, ErrorCloses, StartStates, OwnerTasks, Moved,
     Waiting, OfOwner, OfWorker, Idle, StateSame, ReaderSame, ThreadSame, DriverSame,
     EnvSame
<1>15. StartKnown'
  BY <1>1, <1>2, <1>4, <1>6, <1>7, <1>8, <1>9, <1>10, AllKnown, Names DEF StartKnown,
     StartSets, Made, StartConnects, Has, Reaching, StartOpens, HasOpen, StartWrites,
     StartSends, StartStates, InitSets, Setters, Moved, Waiting, OfOwner, OfWorker, Idle,
     Actors, StateSame, ReaderSame, ThreadSame, DriverSame, EnvSame
<1>16. ReaderKnown'
  BY <1>1, <1>2, <1>4, <1>6, <1>7, <1>8, <1>9, <1>10, AllKnown, Names, <1>11 DEF
     ReaderKnown, AssignThenEnter, Actors, Made, Has, JoinThenDrop, UsedStartsNoReader,
     Used, IsOnline, SpawnKnown, StartReaderKnown, DropKnown, StopReaderKnown,
     KeepIsSpawned, StopIsDropped, ReaderRuns, OnlineReads, OfflineStops, DeafAtFirst,
     Moved, Waiting, OfOwner, OfWorker, Idle, StateSame, ReaderSame, ThreadSame,
     DriverSame, EnvSame
<1>17. SocketKnown'
  BY <1>1, <1>2, <1>4, <1>6, <1>7, <1>8, <1>9, <1>10, AllKnown, Names DEF SocketKnown,
     OnlineIsOpen, IsOnline, OpenThenOnline, Reaching, ErrorIsClosed, Actors, Has,
     TellsState, Made, Moved, Waiting, OfOwner, OfWorker, Idle, StateSame, ReaderSame,
     ThreadSame, DriverSame, EnvSame
<1>. QED
  BY <1>4, <1>5, <1>12, <1>13, <1>14, <1>15, <1>16, <1>17 DEF IInv, Known

(* and the one that throws. *)
LEMMA WriteFailsKeeps ==
  ASSUME IInv, NEW t \in Actors, Write(t), GoOn(t, SetTo("error") \o Do("close"))
  PROVE  IInv'
<1>1. Head(todo[t]) = T("write") /\ ~Crashed /\ Busy(t)
  BY AtStep, ByName, BusyIs DEF Write, IInv, Steps
<1>2. StateSame /\ ReaderSame /\ ThreadSame /\ DriverSame /\ EnvSame
      /\ m_socket' = m_socket
  BY <1>1, Same DEF Write
<1>3. phase # "delete" /\ Inner \subseteq Rests(t)
  BY <1>1, AtTheEnd, InnerRests, Names DEF Ending
<1>4. /\ Setting("error") \in Tasks /\ T("close") \in Tasks
      /\ Setting("error") # T("close")
      /\ Room(t, Setting("error")) /\ Room(t, T("close"))
      /\ T("close") \in Later(Setting("error")) \cap Rests(t)
      /\ GoOn(t, <<Setting("error")>> \o <<T("close")>>)
  <2>1. Setting("error") # T("close")
    BY Names
  <2>2. Setting("error") \in Tasks /\ T("close") \in Tasks
    BY DEF Tasks, Made, DevStates, Plain, Steps
  <2>3. GoOn(t, <<Setting("error")>> \o <<T("close")>>)
    BY DEF SetTo, Setting, Do, T
  <2>4. /\ Later(T("write")) = StopEnd /\ Later(T("close")) = StopEnd
        /\ Later(Setting("error")) = {T("close")} \cup StopEnd
    BY LaterIs DEF After
  <2>. QED
    BY <1>1, <1>3, <2>1, <2>2, <2>3, <2>4 DEF Room, Inner
<1>5. Moved(t, T("write"), {Setting("error"), T("close")}, Setting("error")) /\ InOrder'
  BY <1>1, <1>2, <1>4, Moves DEF Write, Steps, EnvSame
<1>6. ~Crashed' /\ Types' /\ NoteIsState'
  BY <1>1, <1>2, <1>5, AllKnown
     DEF Crashed, Types, NoteIsState, Moved, StateSame, ReaderSame, ThreadSame, DriverSame, EnvSame
<1>7. phase # "delete" /\ Live(t) /\ Live(t)' /\ Has(t, "write")
      /\ Later(T("write")) = StopEnd
  BY <1>1, <1>5, BusyIs, AllKnown, LaterIs, Names DEF Moved, Setters, Ending, Has, Actors
<1>8. Rest("owner") \subseteq Pending("owner") /\ Rest("worker") \subseteq Pending("worker")
  BY <1>1, AllKnown, BusyIs DEF Actors
<1>9. \A s \in Made : ~Reaching(t, s) \/ (s = "offline" /\ t = "owner" /\ phase = "stop")
  BY <1>5, <1>7, Names DEF Moved, Waiting, Reaching, Opens
<1>10. Starting => m_devState = "online" /\ t = "owner" /\ Valid(m_devState, "error")
  <2>1. SUFFICES ASSUME Starting
                 PROVE  m_devState = "online" /\ t = "owner"
    BY ValidIs
  <2>2. t = "owner" /\ phase # "stop"
    BY <1>5, <2>1 DEF Moved, OfWorker, Starting
  <2>. QED
    BY <1>1, <1>7, <1>9, <2>1, <2>2, AllKnown DEF StartWrites, Made, DevStates
<1>11. /\ Reaching(t, "error")' /\ "error" \in Made
       /\ phase = "init" => kind = "light" \/ t = "worker"
  <2>1. Reaching(t, "error")' /\ "error" \in Made
    BY <1>5 DEF Moved, Reaching, Made, DevStates
  <2>2. phase = "init" /\ t = "owner" => kind = "light"
    BY <1>1, <1>5, <1>7, AllKnown, Names, PlainOf DEF InitSets, Moved, Setters, Has
  <2>. QED
    BY <1>1, <1>5, <2>1, <2>2 DEF Actors
<1>12. t = "owner" => ~Has("owner", "join") /\ (phase = "stop" => kind = "ptz" \/ ~Has("owner", "stop"))
  BY <1>1, <1>7, AllKnown, Names DEF JoinKnown, StopIsCalm, Leaving, Calm, Has
<1>13. ThreadKnown'
  BY <1>1, <1>2, <1>5, <1>7, <1>8, <1>9, <1>10, <1>11, <1>12, AllKnown, Names DEF
     ThreadKnown, WorkerKnown, WorkerHandles, Busy, QuitHasWorker, Has, OwnerTasks,
     Reaching, WorkerTasks, OwnerOnly, NewKnown, StartsAlone, NotYetShutting,
     NotYetStarted, StartedOnce, Moved, Waiting, OfOwner, OfWorker, Idle, Actors,
     StateSame, ReaderSame, ThreadSame, DriverSame, EnvSame
<1>14. StopKnown'
  BY <1>1, <1>2, <1>5, <1>7, <1>8, <1>9, <1>10, <1>11, <1>12, AllKnown, Names DEF
     StopKnown, QuitThenJoin, Has, JoinKnown, Leaving, StopSteps, Reaching, StopSets,
     Setters, StopIsCalm, Calm, BeatJoined, DeleteKnown, Ending, OnlySoundBeats, Moved,
     Waiting, OfOwner, OfWorker, Idle, Actors, StateSame, ReaderSame, ThreadSame,
     DriverSame, EnvSame
<1>15. StateKnown'
  BY <1>1, <1>2, <1>5, <1>7, <1>8, <1>9, <1>10, <1>11, <1>12, AllKnown, Names DEF
     StateKnown, AssignsLegally, Actors, Made, UsedStates, Used, UsedAssigns,
     OnlineIsGentle, IsOnline, Gentle, ErrorIsLone, OfflineIsCalm, OnlyOnline,
     ClosesInError, Has, Reaching, ConnectingOpens, HasOpen, ErrorCloses, StartStates,
     OwnerTasks, Moved, Waiting, OfOwner, OfWorker, Idle, StateSame, ReaderSame,
     ThreadSame, DriverSame, EnvSame
<1>16. StartKnown'
  BY <1>1, <1>2, <1>5, <1>7, <1>8, <1>9, <1>10, <1>11, <1>12, AllKnown, Names DEF
     StartKnown, StartSets, Made, StartConnects, Has, Reaching, StartOpens, HasOpen,
     StartWrites, StartSends, StartStates, InitSets, Setters, Moved, Waiting, OfOwner,
     OfWorker, Idle, Actors, StateSame, ReaderSame, ThreadSame, DriverSame, EnvSame
<1>17. ReaderKnown'
  BY <1>1, <1>2, <1>5, <1>7, <1>8, <1>9, <1>10, <1>11, <1>12, AllKnown, Names DEF
     ReaderKnown, AssignThenEnter, Actors, Made, Has, JoinThenDrop, UsedStartsNoReader,
     Used, IsOnline, SpawnKnown, StartReaderKnown, DropKnown, StopReaderKnown,
     KeepIsSpawned, StopIsDropped, ReaderRuns, OnlineReads, OfflineStops, DeafAtFirst,
     Moved, Waiting, OfOwner, OfWorker, Idle, StateSame, ReaderSame, ThreadSame,
     DriverSame, EnvSame
<1>18. SocketKnown'
  BY <1>1, <1>2, <1>5, <1>7, <1>8, <1>9, <1>10, <1>11, <1>12, AllKnown, Names DEF
     SocketKnown, OnlineIsOpen, IsOnline, OpenThenOnline, Reaching, ErrorIsClosed, Actors,
     Has, TellsState, Made, Moved, Waiting, OfOwner, OfWorker, Idle, StateSame,
     ReaderSame, ThreadSame, DriverSame, EnvSame
<1>. QED
  BY <1>5, <1>6, <1>13, <1>14, <1>15, <1>16, <1>17, <1>18 DEF IInv, Known

(* The close. *)
LEMMA CloseKeeps ==
  ASSUME IInv, NEW t \in Actors, Close(t), TRUE
  PROVE  IInv'
<1>1. Head(todo[t]) = T("close") /\ ~Crashed /\ Busy(t)
  BY AtStep, ByName, BusyIs DEF Close, IInv, Steps
<1>2. StateSame /\ ReaderSame /\ ThreadSame /\ DriverSame /\ EnvSame
      /\ m_socket' \in {"null", "closed"}
  BY <1>1, Same DEF Close
<1>3. GoOn(t, <<>>)
  BY DEF Close
<1>4. Moved(t, T("close"), {}, T("close")) /\ InOrder'
  BY <1>1, <1>2, <1>3, Moves DEF Close, Steps, EnvSame
<1>5. ~Crashed' /\ Types' /\ NoteIsState'
  BY <1>1, <1>2, <1>4, AllKnown
     DEF Crashed, Types, NoteIsState, Moved, StateSame, ReaderSame, ThreadSame, DriverSame, EnvSame
<1>6. (Live(t)' <=> Live(t)) /\ Has(t, "close")
      /\ Later(T("close")) = StopEnd
  BY <1>1, <1>4, BusyIs, AllKnown, LaterIs, Names DEF Moved, Setters, Ending, Has, Actors
<1>7. Rest("owner") \subseteq Pending("owner") /\ Rest("worker") \subseteq Pending("worker")
  BY <1>1, AllKnown, BusyIs DEF Actors
<1>8. \A s \in Made : ~Reaching(t, s) \/ (s = "offline" /\ t = "owner" /\ phase = "stop")
  BY <1>4, <1>6, Names DEF Moved, Waiting, Reaching
<1>9. \A s \in Made : Reaching(t, s)' => Reaching(t, s)
  BY <1>4 DEF Moved, Reaching
<1>10. kind # "sound" /\ ~m_shuttingDown => ~IsOnline
  <2>1. ~Reaching(t, "error")
    BY <1>8 DEF Made, DevStates
  <2>. QED
    BY <1>1, <1>6, <2>1, AllKnown DEF ClosesInError
<1>11. Starting => \A s \in Made : ~Reaching("owner", s)
  BY <1>4, <1>8 DEF Moved, OfWorker, Starting
<1>12. ThreadKnown'
  BY <1>1, <1>2, <1>4, <1>6, <1>7, <1>8, <1>9, <1>10, <1>11, AllKnown, Names DEF
     ThreadKnown, WorkerKnown, WorkerHandles, Busy, QuitHasWorker, Has, OwnerTasks,
     Reaching, WorkerTasks, OwnerOnly, NewKnown, StartsAlone, NotYetShutting,
     NotYetStarted, StartedOnce, Moved, Waiting, OfOwner, OfWorker, Idle, Actors,
     StateSame, ReaderSame, ThreadSame, DriverSame, EnvSame
<1>13. StopKnown'
  BY <1>1, <1>2, <1>4, <1>6, <1>7, <1>8, <1>9, <1>10, <1>11, AllKnown, Names DEF
     StopKnown, QuitThenJoin, Has, JoinKnown, Leaving, StopSteps, Reaching, StopSets,
     Setters, StopIsCalm, Calm, BeatJoined, DeleteKnown, Ending, OnlySoundBeats, Moved,
     Waiting, OfOwner, OfWorker, Idle, Actors, StateSame, ReaderSame, ThreadSame,
     DriverSame, EnvSame
<1>14. StateKnown'
  BY <1>1, <1>2, <1>4, <1>6, <1>7, <1>8, <1>9, <1>10, <1>11, AllKnown, Names DEF
     StateKnown, AssignsLegally, Actors, Made, UsedStates, Used, UsedAssigns,
     OnlineIsGentle, IsOnline, Gentle, ErrorIsLone, OfflineIsCalm, OnlyOnline,
     ClosesInError, Has, Reaching, ConnectingOpens, HasOpen, ErrorCloses, StartStates,
     OwnerTasks, Moved, Waiting, OfOwner, OfWorker, Idle, StateSame, ReaderSame,
     ThreadSame, DriverSame, EnvSame
<1>15. StartKnown'
  BY <1>1, <1>2, <1>4, <1>6, <1>7, <1>8, <1>9, <1>10, <1>11, AllKnown, Names DEF
     StartKnown, StartSets, Made, StartConnects, Has, Reaching, StartOpens, HasOpen,
     StartWrites, StartSends, StartStates, InitSets, Setters, Moved, Waiting, OfOwner,
     OfWorker, Idle, Actors, StateSame, ReaderSame, ThreadSame, DriverSame, EnvSame
<1>16. ReaderKnown'
  BY <1>1, <1>2, <1>4, <1>6, <1>7, <1>8, <1>9, <1>10, <1>11, AllKnown, Names DEF
     ReaderKnown, AssignThenEnter, Actors, Made, Has, JoinThenDrop, UsedStartsNoReader,
     Used, IsOnline, SpawnKnown, StartReaderKnown, DropKnown, StopReaderKnown,
     KeepIsSpawned, StopIsDropped, ReaderRuns, OnlineReads, OfflineStops, DeafAtFirst,
     Moved, Waiting, OfOwner, OfWorker, Idle, StateSame, ReaderSame, ThreadSame,
     DriverSame, EnvSame
<1>17. SocketKnown'
  BY <1>1, <1>2, <1>4, <1>6, <1>7, <1>8, <1>9, <1>10, <1>11, AllKnown, Names DEF
     SocketKnown, OnlineIsOpen, IsOnline, OpenThenOnline, Reaching, ErrorIsClosed, Actors,
     Has, TellsState, Made, Moved, Waiting, OfOwner, OfWorker, Idle, StateSame,
     ReaderSame, ThreadSame, DriverSame, EnvSame
<1>. QED
  BY <1>4, <1>5, <1>12, <1>13, <1>14, <1>15, <1>16, <1>17 DEF IInv, Known

-----------------------------------------------------------------------------
(* The owner: Start, Stop, delete                                          *)

(* DeviceBase::Start. *)
LEMMA ThreadStartKeeps ==
  ASSUME IInv, ThreadStart
  PROVE  IInv'
<1>. DEFINE t == "owner"
<1>1. t \in Actors
  BY DEF Actors
<1>2. Head(todo[t]) = T("start") /\ ~Crashed /\ Busy(t)
  BY <1>1, AtStep, ByName, BusyIs DEF ThreadStart, IInv, Steps, t
<1>3. StateSame /\ ReaderSame /\ DriverSame /\ EnvSame
      /\ m_socket' = m_socket /\ m_state' = m_state /\ m_eq' = m_eq
      /\ IF m_state = "uninit" /\ ~m_thread
           THEN m_thread' = TRUE /\ worker' = "entering"
           ELSE m_thread' = m_thread /\ worker' = worker
  BY <1>2, Same DEF ThreadStart
<1>. HIDE DEF t
<1>4. GoOn(t, <<>>)
  BY DEF ThreadStart, t
<1>5. Moved(t, T("start"), {}, T("start")) /\ InOrder'
  BY <1>1, <1>2, <1>3, <1>4, Moves DEF ThreadStart, Steps, EnvSame, t
<1>6. ~Crashed' /\ Types' /\ NoteIsState'
  <2>1. /\ m_thread' \in BOOLEAN
        /\ worker' \in {"none", "entering", "testing", "popping", "handling",
                       "leaving", "done"}
        /\ m_state' = m_state
        /\ m_eq' = m_eq
    BY <1>2, <1>3, AllKnown DEF Types
  <2>3. StateSame /\ ReaderSame /\ DriverSame /\ EnvSame /\ m_socket' = m_socket
    BY <1>3
  <2>2. Types'
    BY <1>2, <2>1, <2>3, <1>5, AllKnown DEF Types, Moved, StateSame, ReaderSame, DriverSame,
       EnvSame
  <2>4. ~Crashed' /\ NoteIsState'
    BY <1>2, <1>3, AllKnown DEF Crashed, NoteIsState, StateSame, DriverSame, EnvSame
  <2>. QED
    BY <2>2, <2>4
<1>7. (Live(t)' <=> Live(t)) /\ Has(t, "start") /\ ~Has(t, "start")'
      /\ Later(T("start")) = StartOuter \ {T("start")}
  BY <1>1, <1>2, <1>5, BusyIs, AllKnown, LaterIs, Names DEF Moved, Setters, Ending, Has
<1>8. Rest("owner") \subseteq Pending("owner") /\ Rest("worker") \subseteq Pending("worker")
  BY <1>2, AllKnown, BusyIs DEF Actors
<1>9. phase = "start" /\ ~m_thread /\ m_state = "uninit" /\ worker = "none"
  <2>1. phase # "delete"
    BY <1>5, Names DEF Moved, Ending
  <2>2. phase = "start"
    BY <1>2, <1>7, AllKnown DEF OwnerTasks, t
  <2>. QED
    BY <1>2, <1>7, <2>2, AllKnown DEF StartedOnce, WorkerKnown, t
<1>10. m_thread' /\ worker' = "entering"
  BY <1>3, <1>9
<1>11. ThreadKnown'
  BY <1>1, <1>2, <1>3, <1>5, <1>7, <1>8, <1>9, <1>10, AllKnown, Names DEF ThreadKnown,
     WorkerKnown, WorkerHandles, Busy, QuitHasWorker, Has, OwnerTasks, Reaching,
     WorkerTasks, OwnerOnly, NewKnown, StartsAlone, NotYetShutting, NotYetStarted,
     StartedOnce, Moved, Waiting, OfOwner, OfWorker, Idle, Actors, StateSame, ReaderSame,
     DriverSame, EnvSame, t
<1>12. StopKnown'
  BY <1>1, <1>2, <1>3, <1>5, <1>7, <1>8, <1>9, <1>10, AllKnown, Names DEF StopKnown,
     QuitThenJoin, Has, JoinKnown, Leaving, StopSteps, Reaching, StopSets, Setters,
     StopIsCalm, Calm, BeatJoined, DeleteKnown, Ending, OnlySoundBeats, Moved, Waiting,
     OfOwner, OfWorker, Idle, Actors, StateSame, ReaderSame, DriverSame, EnvSame, t
<1>13. StateKnown'
  BY <1>1, <1>2, <1>3, <1>5, <1>7, <1>8, <1>9, <1>10, AllKnown, Names DEF StateKnown,
     AssignsLegally, Actors, Made, UsedStates, Used, UsedAssigns, OnlineIsGentle,
     IsOnline, Gentle, ErrorIsLone, OfflineIsCalm, OnlyOnline, ClosesInError, Has,
     Reaching, ConnectingOpens, HasOpen, ErrorCloses, StartStates, OwnerTasks, Moved,
     Waiting, OfOwner, OfWorker, Idle, StateSame, ReaderSame, DriverSame, EnvSame, t
<1>14. StartKnown'
  BY <1>1, <1>2, <1>3, <1>5, <1>7, <1>8, <1>9, <1>10, AllKnown, Names DEF StartKnown,
     StartSets, Made, StartConnects, Has, Reaching, StartOpens, HasOpen, StartWrites,
     StartSends, StartStates, InitSets, Setters, Moved, Waiting, OfOwner, OfWorker, Idle,
     Actors, StateSame, ReaderSame, DriverSame, EnvSame, t
<1>15. ReaderKnown'
  BY <1>1, <1>2, <1>3, <1>5, <1>7, <1>8, <1>9, <1>10, AllKnown, Names DEF ReaderKnown,
     AssignThenEnter, Actors, Made, Has, JoinThenDrop, UsedStartsNoReader, Used, IsOnline,
     SpawnKnown, StartReaderKnown, DropKnown, StopReaderKnown, KeepIsSpawned,
     StopIsDropped, ReaderRuns, OnlineReads, OfflineStops, DeafAtFirst, Moved, Waiting,
     OfOwner, OfWorker, Idle, StateSame, ReaderSame, DriverSame, EnvSame, t
<1>16. SocketKnown'
  BY <1>1, <1>2, <1>3, <1>5, <1>7, <1>8, <1>9, <1>10, AllKnown, Names DEF SocketKnown,
     OnlineIsOpen, IsOnline, OpenThenOnline, Reaching, ErrorIsClosed, Actors, Has,
     TellsState, Made, Moved, Waiting, OfOwner, OfWorker, Idle, StateSame, ReaderSame,
     DriverSame, EnvSame, t
<1>. QED
  BY <1>5, <1>6, <1>11, <1>12, <1>13, <1>14, <1>15, <1>16 DEF IInv, Known

(* quit() when there is nothing to quit, *)
LEMMA QuitTestKeeps ==
  ASSUME IInv, QuitTest, ~(m_thread /\ m_state = "running")
  PROVE  IInv'
<1>. DEFINE t == "owner"
<1>1. t \in Actors
  BY DEF Actors
<1>2. Head(todo[t]) = T("quit") /\ ~Crashed /\ Busy(t)
  BY <1>1, AtStep, ByName, BusyIs DEF QuitTest, IInv, Steps, t
<1>3. StateSame /\ ReaderSame /\ ThreadSame /\ DriverSame /\ EnvSame
      /\ m_socket' = m_socket
  BY <1>2, Same DEF QuitTest
<1>. HIDE DEF t
<1>4. GoOn(t, <<>>)
  BY DEF QuitTest, t
<1>5. Moved(t, T("quit"), {}, T("quit")) /\ InOrder'
  BY <1>1, <1>2, <1>3, <1>4, Moves DEF QuitTest, Steps, EnvSame, t
<1>6. ~Crashed' /\ Types' /\ NoteIsState'
  BY <1>2, <1>3, <1>5, AllKnown
     DEF Crashed, Types, NoteIsState, Moved, StateSame, ReaderSame, ThreadSame, DriverSame, EnvSame
<1>7. (Live(t)' <=> Live(t)) /\ Has(t, "quit")
      /\ Later(T("quit")) = AfterQuit
  BY <1>1, <1>2, <1>5, BusyIs, AllKnown, LaterIs, Names DEF Moved, Setters, Ending, Has
<1>8. Rest("owner") \subseteq Pending("owner") /\ Rest("worker") \subseteq Pending("worker")
  BY <1>2, AllKnown, BusyIs DEF Actors
<1>9. phase = "stop"
  BY <1>2, AllKnown, BusyIs DEF QuitThenJoin, JoinKnown, Has, t, Actors
<1>10. ThreadKnown'
  BY <1>1, <1>2, <1>3, <1>5, <1>7, <1>8, <1>9, AllKnown, Names DEF ThreadKnown,
     WorkerKnown, WorkerHandles, Busy, QuitHasWorker, Has, OwnerTasks, Reaching,
     WorkerTasks, OwnerOnly, NewKnown, StartsAlone, NotYetShutting, NotYetStarted,
     StartedOnce, Moved, Waiting, OfOwner, OfWorker, Idle, Actors, StateSame, ReaderSame,
     ThreadSame, DriverSame, EnvSame, t
<1>11. StopKnown'
  BY <1>1, <1>2, <1>3, <1>5, <1>7, <1>8, <1>9, AllKnown, Names DEF StopKnown,
     QuitThenJoin, Has, JoinKnown, Leaving, StopSteps, Reaching, StopSets, Setters,
     StopIsCalm, Calm, BeatJoined, DeleteKnown, Ending, OnlySoundBeats, Moved, Waiting,
     OfOwner, OfWorker, Idle, Actors, StateSame, ReaderSame, ThreadSame, DriverSame,
     EnvSame, t
<1>12. StateKnown'
  BY <1>1, <1>2, <1>3, <1>5, <1>7, <1>8, <1>9, AllKnown, Names DEF StateKnown,
     AssignsLegally, Actors, Made, UsedStates, Used, UsedAssigns, OnlineIsGentle,
     IsOnline, Gentle, ErrorIsLone, OfflineIsCalm, OnlyOnline, ClosesInError, Has,
     Reaching, ConnectingOpens, HasOpen, ErrorCloses, StartStates, OwnerTasks, Moved,
     Waiting, OfOwner, OfWorker, Idle, StateSame, ReaderSame, ThreadSame, DriverSame,
     EnvSame, t
<1>13. StartKnown'
  BY <1>1, <1>2, <1>3, <1>5, <1>7, <1>8, <1>9, AllKnown, Names DEF StartKnown, StartSets,
     Made, StartConnects, Has, Reaching, StartOpens, HasOpen, StartWrites, StartSends,
     StartStates, InitSets, Setters, Moved, Waiting, OfOwner, OfWorker, Idle, Actors,
     StateSame, ReaderSame, ThreadSame, DriverSame, EnvSame, t
<1>14. ReaderKnown'
  BY <1>1, <1>2, <1>3, <1>5, <1>7, <1>8, <1>9, AllKnown, Names DEF ReaderKnown,
     AssignThenEnter, Actors, Made, Has, JoinThenDrop, UsedStartsNoReader, Used, IsOnline,
     SpawnKnown, StartReaderKnown, DropKnown, StopReaderKnown, KeepIsSpawned,
     StopIsDropped, ReaderRuns, OnlineReads, OfflineStops, DeafAtFirst, Moved, Waiting,
     OfOwner, OfWorker, Idle, StateSame, ReaderSame, ThreadSame, DriverSame, EnvSame, t
<1>15. SocketKnown'
  BY <1>1, <1>2, <1>3, <1>5, <1>7, <1>8, <1>9, AllKnown, Names DEF SocketKnown,
     OnlineIsOpen, IsOnline, OpenThenOnline, Reaching, ErrorIsClosed, Actors, Has,
     TellsState, Made, Moved, Waiting, OfOwner, OfWorker, Idle, StateSame, ReaderSame,
     ThreadSame, DriverSame, EnvSame, t
<1>. QED
  BY <1>5, <1>6, <1>10, <1>11, <1>12, <1>13, <1>14, <1>15 DEF IInv, Known

(* and when there is; *)
LEMMA QuitTestPostsKeeps ==
  ASSUME IInv, QuitTest, m_thread, m_state = "running"
  PROVE  IInv'
<1>. DEFINE t == "owner"
<1>1. t \in Actors
  BY DEF Actors
<1>2. Head(todo[t]) = T("quit") /\ ~Crashed /\ Busy(t)
  BY <1>1, AtStep, ByName, BusyIs DEF QuitTest, IInv, Steps, t
<1>3. StateSame /\ ReaderSame /\ ThreadSame /\ DriverSame /\ EnvSame
      /\ m_socket' = m_socket
  BY <1>2, Same DEF QuitTest
<1>. HIDE DEF t
<1>4. phase = "stop"
  BY <1>2, AllKnown, BusyIs DEF QuitThenJoin, JoinKnown, Has, t, Actors
<1>5. /\ T("quitPost") \in Tasks /\ T("quitMark") \in Tasks /\ T("quitPost") # T("quitMark")
      /\ Room(t, T("quitPost")) /\ Room(t, T("quitMark"))
      /\ T("quitMark") \in Later(T("quitPost")) \cap Rests(t)
      /\ GoOn(t, <<T("quitPost")>> \o <<T("quitMark")>>)
  <2>1. T("quitPost") # T("quitMark")
    BY Names
  <2>2. T("quitPost") \in Tasks /\ T("quitMark") \in Tasks
    BY DEF Tasks, Plain, Steps
  <2>3. GoOn(t, <<T("quitPost")>> \o <<T("quitMark")>>)
    BY DEF QuitTest, Do, T, t
  <2>. QED
    BY <1>2, <1>4, <2>1, <2>2, <2>3, LaterIs DEF Room, Rests, t
<1>6. Moved(t, T("quit"), {T("quitPost"), T("quitMark")}, T("quitPost")) /\ InOrder'
  BY <1>1, <1>2, <1>3, <1>5, Moves DEF QuitTest, Steps, EnvSame, t
<1>7. ~Crashed' /\ Types' /\ NoteIsState'
  BY <1>2, <1>3, <1>6, AllKnown
     DEF Crashed, Types, NoteIsState, Moved, StateSame, ReaderSame, ThreadSame, DriverSame, EnvSame
<1>8. (Live(t)' <=> Live(t)) /\ Has(t, "quit")
      /\ Later(T("quit")) = AfterQuit
  BY <1>1, <1>2, <1>6, BusyIs, AllKnown, LaterIs, Names DEF Moved, Setters, Ending, Has
<1>9. Rest("owner") \subseteq Pending("owner") /\ Rest("worker") \subseteq Pending("worker")
  BY <1>2, AllKnown, BusyIs DEF Actors
<1>10. ThreadKnown'
  BY <1>1, <1>2, <1>3, <1>6, <1>8, <1>9, <1>4, AllKnown, Names DEF ThreadKnown,
     WorkerKnown, WorkerHandles, Busy, QuitHasWorker, Has, OwnerTasks, Reaching,
     WorkerTasks, OwnerOnly, NewKnown, StartsAlone, NotYetShutting, NotYetStarted,
     StartedOnce, Moved, Waiting, OfOwner, OfWorker, Idle, Actors, StateSame, ReaderSame,
     ThreadSame, DriverSame, EnvSame, t
<1>11. StopKnown'
  BY <1>1, <1>2, <1>3, <1>6, <1>8, <1>9, <1>4, AllKnown, Names DEF StopKnown,
     QuitThenJoin, Has, JoinKnown, Leaving, StopSteps, Reaching, StopSets, Setters,
     StopIsCalm, Calm, BeatJoined, DeleteKnown, Ending, OnlySoundBeats, Moved, Waiting,
     OfOwner, OfWorker, Idle, Actors, StateSame, ReaderSame, ThreadSame, DriverSame,
     EnvSame, t
<1>12. StateKnown'
  BY <1>1, <1>2, <1>3, <1>6, <1>8, <1>9, <1>4, AllKnown, Names DEF StateKnown,
     AssignsLegally, Actors, Made, UsedStates, Used, UsedAssigns, OnlineIsGentle,
     IsOnline, Gentle, ErrorIsLone, OfflineIsCalm, OnlyOnline, ClosesInError, Has,
     Reaching, ConnectingOpens, HasOpen, ErrorCloses, StartStates, OwnerTasks, Moved,
     Waiting, OfOwner, OfWorker, Idle, StateSame, ReaderSame, ThreadSame, DriverSame,
     EnvSame, t
<1>13. StartKnown'
  BY <1>1, <1>2, <1>3, <1>6, <1>8, <1>9, <1>4, AllKnown, Names DEF StartKnown, StartSets,
     Made, StartConnects, Has, Reaching, StartOpens, HasOpen, StartWrites, StartSends,
     StartStates, InitSets, Setters, Moved, Waiting, OfOwner, OfWorker, Idle, Actors,
     StateSame, ReaderSame, ThreadSame, DriverSame, EnvSame, t
<1>14. ReaderKnown'
  BY <1>1, <1>2, <1>3, <1>6, <1>8, <1>9, <1>4, AllKnown, Names DEF ReaderKnown,
     AssignThenEnter, Actors, Made, Has, JoinThenDrop, UsedStartsNoReader, Used, IsOnline,
     SpawnKnown, StartReaderKnown, DropKnown, StopReaderKnown, KeepIsSpawned,
     StopIsDropped, ReaderRuns, OnlineReads, OfflineStops, DeafAtFirst, Moved, Waiting,
     OfOwner, OfWorker, Idle, StateSame, ReaderSame, ThreadSame, DriverSame, EnvSame, t
<1>15. SocketKnown'
  BY <1>1, <1>2, <1>3, <1>6, <1>8, <1>9, <1>4, AllKnown, Names DEF SocketKnown,
     OnlineIsOpen, IsOnline, OpenThenOnline, Reaching, ErrorIsClosed, Actors, Has,
     TellsState, Made, Moved, Waiting, OfOwner, OfWorker, Idle, StateSame, ReaderSame,
     ThreadSame, DriverSame, EnvSame, t
<1>. QED
  BY <1>6, <1>7, <1>10, <1>11, <1>12, <1>13, <1>14, <1>15 DEF IInv, Known

(* its post *)
LEMMA QuitPostKeeps ==
  ASSUME IInv, QuitPost
  PROVE  IInv'
<1>. DEFINE t == "owner"
<1>1. t \in Actors
  BY DEF Actors
<1>2. Head(todo[t]) = T("quitPost") /\ ~Crashed /\ Busy(t)
  BY <1>1, AtStep, ByName, BusyIs DEF QuitPost, IInv, Steps, t
<1>3. StateSame /\ ReaderSame /\ DriverSame /\ EnvSame
      /\ m_socket' = m_socket /\ m_state' = m_state /\ m_thread' = m_thread /\ worker' = worker
      /\ m_eq' = Append(m_eq, "quit")
  BY <1>2, Same DEF QuitPost
<1>. HIDE DEF t
<1>4. GoOn(t, <<>>)
  BY DEF QuitPost, t
<1>5. phase = "stop"
  BY <1>2, AllKnown, BusyIs DEF QuitThenJoin, JoinKnown, Has, t, Actors
<1>6. Moved(t, T("quitPost"), {}, T("quitPost")) /\ InOrder'
  BY <1>1, <1>2, <1>3, <1>4, Moves DEF QuitPost, Steps, EnvSame, t
<1>7. ~Crashed' /\ Types' /\ NoteIsState'
  BY <1>2, <1>3, <1>6, AllKnown
     DEF Crashed, Types, NoteIsState, Moved, StateSame, ReaderSame, DriverSame, EnvSame
<1>8. (Live(t)' <=> Live(t)) /\ Has(t, "quitPost")
      /\ Later(T("quitPost")) = {T("quitMark")} \cup AfterQuit
  BY <1>1, <1>2, <1>6, BusyIs, AllKnown, LaterIs, Names DEF Moved, Setters, Ending, Has
<1>9. Rest("owner") \subseteq Pending("owner") /\ Rest("worker") \subseteq Pending("worker")
  BY <1>2, AllKnown, BusyIs DEF Actors
<1>10. \A i \in 1..Len(m_eq') : m_eq'[i] = "quit" \/ (i \in 1..Len(m_eq) /\ m_eq'[i] = m_eq[i])
  BY <1>2, <1>3, AllKnown, AppendProperties DEF Types
<1>11. ThreadKnown'
  BY <1>1, <1>2, <1>3, <1>6, <1>8, <1>9, <1>5, <1>10, AllKnown, Names DEF ThreadKnown,
     WorkerKnown, WorkerHandles, Busy, QuitHasWorker, Has, OwnerTasks, Reaching,
     WorkerTasks, OwnerOnly, NewKnown, StartsAlone, NotYetShutting, NotYetStarted,
     StartedOnce, Moved, Waiting, OfOwner, OfWorker, Idle, Actors, StateSame, ReaderSame,
     DriverSame, EnvSame, t
<1>12. StopKnown'
  BY <1>1, <1>2, <1>3, <1>6, <1>8, <1>9, <1>5, <1>10, AllKnown, Names DEF StopKnown,
     QuitThenJoin, Has, JoinKnown, Leaving, StopSteps, Reaching, StopSets, Setters,
     StopIsCalm, Calm, BeatJoined, DeleteKnown, Ending, OnlySoundBeats, Moved, Waiting,
     OfOwner, OfWorker, Idle, Actors, StateSame, ReaderSame, DriverSame, EnvSame, t
<1>13. StateKnown'
  BY <1>1, <1>2, <1>3, <1>6, <1>8, <1>9, <1>5, <1>10, AllKnown, Names DEF StateKnown,
     AssignsLegally, Actors, Made, UsedStates, Used, UsedAssigns, OnlineIsGentle,
     IsOnline, Gentle, ErrorIsLone, OfflineIsCalm, OnlyOnline, ClosesInError, Has,
     Reaching, ConnectingOpens, HasOpen, ErrorCloses, StartStates, OwnerTasks, Moved,
     Waiting, OfOwner, OfWorker, Idle, StateSame, ReaderSame, DriverSame, EnvSame, t
<1>14. StartKnown'
  BY <1>1, <1>2, <1>3, <1>6, <1>8, <1>9, <1>5, <1>10, AllKnown, Names DEF StartKnown,
     StartSets, Made, StartConnects, Has, Reaching, StartOpens, HasOpen, StartWrites,
     StartSends, StartStates, InitSets, Setters, Moved, Waiting, OfOwner, OfWorker, Idle,
     Actors, StateSame, ReaderSame, DriverSame, EnvSame, t
<1>15. ReaderKnown'
  BY <1>1, <1>2, <1>3, <1>6, <1>8, <1>9, <1>5, <1>10, AllKnown, Names DEF ReaderKnown,
     AssignThenEnter, Actors, Made, Has, JoinThenDrop, UsedStartsNoReader, Used, IsOnline,
     SpawnKnown, StartReaderKnown, DropKnown, StopReaderKnown, KeepIsSpawned,
     StopIsDropped, ReaderRuns, OnlineReads, OfflineStops, DeafAtFirst, Moved, Waiting,
     OfOwner, OfWorker, Idle, StateSame, ReaderSame, DriverSame, EnvSame, t
<1>16. SocketKnown'
  BY <1>1, <1>2, <1>3, <1>6, <1>8, <1>9, <1>5, <1>10, AllKnown, Names DEF SocketKnown,
     OnlineIsOpen, IsOnline, OpenThenOnline, Reaching, ErrorIsClosed, Actors, Has,
     TellsState, Made, Moved, Waiting, OfOwner, OfWorker, Idle, StateSame, ReaderSame,
     DriverSame, EnvSame, t
<1>. QED
  BY <1>6, <1>7, <1>11, <1>12, <1>13, <1>14, <1>15, <1>16 DEF IInv, Known

(* and its mark. *)
LEMMA QuitMarkKeeps ==
  ASSUME IInv, QuitMark
  PROVE  IInv'
<1>. DEFINE t == "owner"
<1>1. t \in Actors
  BY DEF Actors
<1>2. Head(todo[t]) = T("quitMark") /\ ~Crashed /\ Busy(t)
  BY <1>1, AtStep, ByName, BusyIs DEF QuitMark, IInv, Steps, t
<1>3. StateSame /\ ReaderSame /\ DriverSame /\ EnvSame
      /\ m_socket' = m_socket /\ m_eq' = m_eq /\ m_thread' = m_thread /\ worker' = worker
      /\ m_state' = "quit"
  BY <1>2, Same DEF QuitMark
<1>. HIDE DEF t
<1>4. GoOn(t, <<>>)
  BY DEF QuitMark, t
<1>5. phase = "stop"
  BY <1>2, AllKnown, BusyIs DEF QuitThenJoin, JoinKnown, Has, t, Actors
<1>6. Moved(t, T("quitMark"), {}, T("quitMark")) /\ InOrder'
  BY <1>1, <1>2, <1>3, <1>4, Moves DEF QuitMark, Steps, EnvSame, t
<1>7. ~Crashed' /\ Types' /\ NoteIsState'
  BY <1>2, <1>3, <1>6, AllKnown
     DEF Crashed, Types, NoteIsState, Moved, StateSame, ReaderSame, DriverSame, EnvSame
<1>8. (Live(t)' <=> Live(t)) /\ Has(t, "quitMark")
      /\ Later(T("quitMark")) = AfterQuit
  BY <1>1, <1>2, <1>6, BusyIs, AllKnown, LaterIs, Names DEF Moved, Setters, Ending, Has
<1>9. Rest("owner") \subseteq Pending("owner") /\ Rest("worker") \subseteq Pending("worker")
  BY <1>2, AllKnown, BusyIs DEF Actors
<1>10. ThreadKnown'
  BY <1>1, <1>2, <1>3, <1>6, <1>8, <1>9, <1>5, AllKnown, Names DEF ThreadKnown,
     WorkerKnown, WorkerHandles, Busy, QuitHasWorker, Has, OwnerTasks, Reaching,
     WorkerTasks, OwnerOnly, NewKnown, StartsAlone, NotYetShutting, NotYetStarted,
     StartedOnce, Types, Moved, Waiting, OfOwner, OfWorker, Idle, Actors, StateSame,
     ReaderSame, DriverSame, EnvSame, t
<1>11. StopKnown'
  BY <1>1, <1>2, <1>3, <1>6, <1>8, <1>9, <1>5, AllKnown, Names DEF StopKnown,
     QuitThenJoin, Has, JoinKnown, Leaving, StopSteps, Reaching, StopSets, Setters,
     StopIsCalm, Calm, BeatJoined, DeleteKnown, Ending, OnlySoundBeats, Moved, Waiting,
     OfOwner, OfWorker, Idle, Actors, StateSame, ReaderSame, DriverSame, EnvSame, t
<1>12. StateKnown'
  BY <1>1, <1>2, <1>3, <1>6, <1>8, <1>9, <1>5, AllKnown, Names DEF StateKnown,
     AssignsLegally, Actors, Made, UsedStates, Used, UsedAssigns, OnlineIsGentle,
     IsOnline, Gentle, ErrorIsLone, OfflineIsCalm, OnlyOnline, ClosesInError, Has,
     Reaching, ConnectingOpens, HasOpen, ErrorCloses, StartStates, OwnerTasks, Moved,
     Waiting, OfOwner, OfWorker, Idle, StateSame, ReaderSame, DriverSame, EnvSame, t
<1>13. StartKnown'
  BY <1>1, <1>2, <1>3, <1>6, <1>8, <1>9, <1>5, AllKnown, Names DEF StartKnown, StartSets,
     Made, StartConnects, Has, Reaching, StartOpens, HasOpen, StartWrites, StartSends,
     StartStates, InitSets, Setters, Moved, Waiting, OfOwner, OfWorker, Idle, Actors,
     StateSame, ReaderSame, DriverSame, EnvSame, t
<1>14. ReaderKnown'
  BY <1>1, <1>2, <1>3, <1>6, <1>8, <1>9, <1>5, AllKnown, Names DEF ReaderKnown,
     AssignThenEnter, Actors, Made, Has, JoinThenDrop, UsedStartsNoReader, Used, IsOnline,
     SpawnKnown, StartReaderKnown, DropKnown, StopReaderKnown, KeepIsSpawned,
     StopIsDropped, ReaderRuns, OnlineReads, OfflineStops, DeafAtFirst, Moved, Waiting,
     OfOwner, OfWorker, Idle, StateSame, ReaderSame, DriverSame, EnvSame, t
<1>15. SocketKnown'
  BY <1>1, <1>2, <1>3, <1>6, <1>8, <1>9, <1>5, AllKnown, Names DEF SocketKnown,
     OnlineIsOpen, IsOnline, OpenThenOnline, Reaching, ErrorIsClosed, Actors, Has,
     TellsState, Made, Moved, Waiting, OfOwner, OfWorker, Idle, StateSame, ReaderSame,
     DriverSame, EnvSame, t
<1>. QED
  BY <1>6, <1>7, <1>10, <1>11, <1>12, <1>13, <1>14, <1>15 DEF IInv, Known

(* The join of the worker: it is done. *)
LEMMA JoinKeeps ==
  ASSUME IInv, Join
  PROVE  IInv'
<1>. DEFINE t == "owner"
<1>1. t \in Actors
  BY DEF Actors
<1>2. Head(todo[t]) = T("join") /\ ~Crashed /\ Busy(t)
  BY <1>1, AtStep, ByName, BusyIs DEF Join, IInv, Steps, t
<1>3. StateSame /\ ReaderSame /\ DriverSame /\ EnvSame
      /\ m_socket' = m_socket /\ m_eq' = m_eq /\ m_state' = m_state /\ worker' = worker
      /\ m_thread' = FALSE
  BY <1>2, Same DEF Join
<1>. HIDE DEF t
<1>4. GoOn(t, <<>>)
  BY DEF Join, t
<1>5. Moved(t, T("join"), {}, T("join")) /\ InOrder'
  BY <1>1, <1>2, <1>3, <1>4, Moves DEF Join, Steps, EnvSame, t
<1>6. ~Crashed' /\ Types' /\ NoteIsState'
  <2>1. m_thread' \in BOOLEAN /\ worker' = worker /\ m_state' = m_state /\ m_eq' = m_eq
    BY <1>2, <1>3, AllKnown DEF Types
  <2>3. StateSame /\ ReaderSame /\ DriverSame /\ EnvSame /\ m_socket' = m_socket
    BY <1>3
  <2>2. Types'
    BY <1>2, <2>1, <2>3, <1>5, AllKnown DEF Types, Moved, StateSame, ReaderSame, DriverSame,
       EnvSame
  <2>4. ~Crashed' /\ NoteIsState'
    BY <1>2, <1>3, AllKnown DEF Crashed, NoteIsState, StateSame, DriverSame, EnvSame
  <2>. QED
    BY <2>2, <2>4
<1>7. (Live(t)' <=> Live(t)) /\ Has(t, "join") /\ ~Has(t, "join")'
      /\ Later(T("join")) = {Setting("offline")} \cup StopOuter
  BY <1>1, <1>2, <1>5, BusyIs, AllKnown, LaterIs, Names DEF Moved, Setters, Ending, Has,
     StopOuter, StopEnd
<1>8. Rest("owner") \subseteq Pending("owner") /\ Rest("worker") \subseteq Pending("worker")
  BY <1>2, AllKnown, BusyIs DEF Actors
<1>9. phase = "stop" /\ m_thread /\ worker = "done" /\ m_shuttingDown
  BY <1>2, <1>7, AllKnown DEF JoinKnown, Join, t
<1>10. Setting("offline") \in Pending("owner")'
  BY <1>2, <1>5, <1>7, AllKnown, Names DEF JoinKnown, Moved, t
<1>11. ThreadKnown'
  BY <1>1, <1>2, <1>3, <1>5, <1>7, <1>8, <1>9, <1>10, AllKnown, Names DEF ThreadKnown,
     WorkerKnown, WorkerHandles, Busy, QuitHasWorker, Has, OwnerTasks, Reaching,
     WorkerTasks, OwnerOnly, NewKnown, StartsAlone, NotYetShutting, NotYetStarted,
     StartedOnce, Moved, Waiting, OfOwner, OfWorker, Idle, Actors, StateSame, ReaderSame,
     DriverSame, EnvSame, t
<1>12. StopKnown'
  BY <1>1, <1>2, <1>3, <1>5, <1>7, <1>8, <1>9, <1>10, AllKnown, Names DEF StopKnown,
     QuitThenJoin, Has, JoinKnown, Leaving, StopSteps, Reaching, StopSets, Setters,
     StopIsCalm, Calm, BeatJoined, DeleteKnown, Ending, OnlySoundBeats, StopOuter,
     StopEnd, Moved, Waiting, OfOwner, OfWorker, Idle, Actors, StateSame, ReaderSame,
     DriverSame, EnvSame, t
<1>13. StateKnown'
  BY <1>1, <1>2, <1>3, <1>5, <1>7, <1>8, <1>9, <1>10, AllKnown, Names DEF StateKnown,
     AssignsLegally, Actors, Made, UsedStates, Used, UsedAssigns, OnlineIsGentle,
     IsOnline, Gentle, ErrorIsLone, OfflineIsCalm, OnlyOnline, ClosesInError, Has,
     Reaching, ConnectingOpens, HasOpen, ErrorCloses, StartStates, OwnerTasks, Moved,
     Waiting, OfOwner, OfWorker, Idle, StateSame, ReaderSame, DriverSame, EnvSame, t
<1>14. StartKnown'
  BY <1>1, <1>2, <1>3, <1>5, <1>7, <1>8, <1>9, <1>10, AllKnown, Names DEF StartKnown,
     StartSets, Made, StartConnects, Has, Reaching, StartOpens, HasOpen, StartWrites,
     StartSends, StartStates, InitSets, Setters, Moved, Waiting, OfOwner, OfWorker, Idle,
     Actors, StateSame, ReaderSame, DriverSame, EnvSame, t
<1>15. ReaderKnown'
  BY <1>1, <1>2, <1>3, <1>5, <1>7, <1>8, <1>9, <1>10, AllKnown, Names DEF ReaderKnown,
     AssignThenEnter, Actors, Made, Has, JoinThenDrop, UsedStartsNoReader, Used, IsOnline,
     SpawnKnown, StartReaderKnown, DropKnown, StopReaderKnown, KeepIsSpawned,
     StopIsDropped, ReaderRuns, OnlineReads, OfflineStops, DeafAtFirst, Moved, Waiting,
     OfOwner, OfWorker, Idle, StateSame, ReaderSame, DriverSame, EnvSame, t
<1>16. SocketKnown'
  BY <1>1, <1>2, <1>3, <1>5, <1>7, <1>8, <1>9, <1>10, AllKnown, Names DEF SocketKnown,
     OnlineIsOpen, IsOnline, OpenThenOnline, Reaching, ErrorIsClosed, Actors, Has,
     TellsState, Made, Moved, Waiting, OfOwner, OfWorker, Idle, StateSame, ReaderSame,
     DriverSame, EnvSame, t
<1>. QED
  BY <1>5, <1>6, <1>11, <1>12, <1>13, <1>14, <1>15, <1>16 DEF IInv, Known

(* DeviceBase::Stop and ~Thread in a delete find nothing to stop; *)
LEMMA BaseStopEndsKeeps ==
  ASSUME IInv, BaseStop, phase = "delete"
  PROVE  IInv'
<1>. DEFINE t == "owner"
<1>1. t \in Actors
  BY DEF Actors
<1>2. Head(todo[t]) = T(Step("owner")) /\ ~Crashed /\ Busy(t)
  BY <1>1, AtStep, ByName, BusyIs DEF BaseStop, IInv, Steps, t
<1>3. ReaderSame /\ ThreadSame /\ DriverSame /\ EnvSame
      /\ m_socket' = m_socket /\ m_devState' = m_devState /\ m_statusCb' = m_statusCb /\ note' = note
      /\ Step("owner") \in {"stop", "endThread"}
  BY <1>2, Same DEF BaseStop
<1>. HIDE DEF t
<1>4. ~(m_state = "running" \/ m_thread)
  BY <1>2, AllKnown DEF DeleteKnown, WorkerKnown
<1>5. m_shuttingDown' = m_shuttingDown
  BY <1>2, <1>4, AllKnown DEF BaseStop, Types
<1>6. GoOn(t, <<>>) /\ Step("owner") \in Steps
  <2>1. GoOn(t, <<>> \o <<>>)
    BY <1>4 DEF BaseStop, t
  <2>2. <<>> \o <<>> = <<>>
    OBVIOUS
  <2>. QED
    BY <1>3, <2>1, <2>2 DEF Steps
<1>7. Moved(t, T(Step("owner")), {}, T(Step("owner"))) /\ InOrder'
  BY <1>1, <1>2, <1>3, <1>6, Moves DEF BaseStop, Steps, EnvSame, t
<1>8. ~Crashed' /\ Types' /\ NoteIsState'
  <2>1. m_shuttingDown' \in BOOLEAN
    BY <1>2, <1>5, AllKnown DEF Types
  <2>2. /\ ReaderSame /\ ThreadSame /\ DriverSame /\ EnvSame /\ m_socket' = m_socket
        /\ m_devState' = m_devState /\ m_statusCb' = m_statusCb /\ note' = note
    BY <1>3
  <2>3. Types'
    BY <1>2, <2>1, <2>2, <1>7, AllKnown DEF Types, Moved, ReaderSame, ThreadSame, DriverSame,
       EnvSame
  <2>4. ~Crashed' /\ NoteIsState'
    BY <1>2, <2>2, AllKnown DEF Crashed, NoteIsState, DriverSame, EnvSame
  <2>. QED
    BY <2>3, <2>4
<1>9. (Live(t)' <=> Live(t)) /\ Has(t, Step("owner"))
  BY <1>1, <1>2, <1>7, BusyIs, AllKnown, <1>3, LaterIs, Names DEF Moved, Setters, Ending, Has, t
<1>10. Rest("owner") \subseteq Pending("owner") /\ Rest("worker") \subseteq Pending("worker")
  BY <1>2, AllKnown, BusyIs DEF Actors
<1>11. ThreadKnown'
  BY <1>1, <1>2, <1>3, <1>7, <1>9, <1>10, <1>4, <1>5, AllKnown, Names DEF ThreadKnown,
     WorkerKnown, WorkerHandles, Busy, QuitHasWorker, Has, OwnerTasks, Reaching,
     WorkerTasks, OwnerOnly, NewKnown, StartsAlone, NotYetShutting, NotYetStarted,
     StartedOnce, Moved, Waiting, OfOwner, OfWorker, Idle, Actors, ReaderSame, ThreadSame,
     DriverSame, EnvSame, t
<1>12. StopKnown'
  BY <1>1, <1>2, <1>3, <1>7, <1>9, <1>10, <1>4, <1>5, AllKnown, Names DEF StopKnown,
     QuitThenJoin, Has, JoinKnown, Leaving, StopSteps, Reaching, StopSets, Setters,
     StopIsCalm, Calm, BeatJoined, DeleteKnown, Ending, OnlySoundBeats, Moved, Waiting,
     OfOwner, OfWorker, Idle, Actors, ReaderSame, ThreadSame, DriverSame, EnvSame, t
<1>13. StateKnown'
  BY <1>1, <1>2, <1>3, <1>7, <1>9, <1>10, <1>4, <1>5, AllKnown, Names DEF StateKnown,
     AssignsLegally, Actors, Made, UsedStates, Used, UsedAssigns, OnlineIsGentle,
     IsOnline, Gentle, ErrorIsLone, OfflineIsCalm, OnlyOnline, ClosesInError, Has,
     Reaching, ConnectingOpens, HasOpen, ErrorCloses, StartStates, OwnerTasks, Moved,
     Waiting, OfOwner, OfWorker, Idle, ReaderSame, ThreadSame, DriverSame, EnvSame, t
<1>14. StartKnown'
  BY <1>1, <1>2, <1>3, <1>7, <1>9, <1>10, <1>4, <1>5, AllKnown, Names DEF StartKnown,
     StartSets, Made, StartConnects, Has, Reaching, StartOpens, HasOpen, StartWrites,
     StartSends, StartStates, InitSets, Setters, Moved, Waiting, OfOwner, OfWorker, Idle,
     Actors, ReaderSame, ThreadSame, DriverSame, EnvSame, t
<1>15. ReaderKnown'
  BY <1>1, <1>2, <1>3, <1>7, <1>9, <1>10, <1>4, <1>5, AllKnown, Names DEF ReaderKnown,
     AssignThenEnter, Actors, Made, Has, JoinThenDrop, UsedStartsNoReader, Used, IsOnline,
     SpawnKnown, StartReaderKnown, DropKnown, StopReaderKnown, KeepIsSpawned,
     StopIsDropped, ReaderRuns, OnlineReads, OfflineStops, DeafAtFirst, Moved, Waiting,
     OfOwner, OfWorker, Idle, ReaderSame, ThreadSame, DriverSame, EnvSame, t
<1>16. SocketKnown'
  BY <1>1, <1>2, <1>3, <1>7, <1>9, <1>10, <1>4, <1>5, AllKnown, Names DEF SocketKnown,
     OnlineIsOpen, IsOnline, OpenThenOnline, Reaching, ErrorIsClosed, Actors, Has,
     TellsState, Made, Moved, Waiting, OfOwner, OfWorker, Idle, ReaderSame, ThreadSame,
     DriverSame, EnvSame, t
<1>. QED
  BY <1>7, <1>8, <1>11, <1>12, <1>13, <1>14, <1>15, <1>16 DEF IInv, Known

(* in Stop there is a worker. *)
LEMMA BaseStopKeeps ==
  ASSUME IInv, BaseStop, phase = "stop"
  PROVE  IInv'
<1>. DEFINE t == "owner"
<1>1. t \in Actors
  BY DEF Actors
<1>2. Step(t) = "stop"
  <2>1. SUFFICES ASSUME Step(t) = "endThread"
                 PROVE  FALSE
    BY DEF BaseStop
  <2>2. Head(todo[t]) = T("endThread") /\ ~Crashed /\ Busy(t)
    BY <1>1, <2>1, AtStep, ByName, BusyIs DEF IInv, Steps
  <2>3. Has(t, "endThread")
    BY <1>1, <2>2, AllKnown, BusyIs DEF Has
  <2>. QED
    BY <2>2, <2>3, AllKnown DEF OwnerTasks, t
<1>3. Head(todo[t]) = T("stop") /\ ~Crashed /\ Busy(t)
  BY <1>1, <1>2, AtStep, ByName, BusyIs DEF BaseStop, IInv, Steps, t
<1>4. ReaderSame /\ ThreadSame /\ DriverSame /\ EnvSame
      /\ m_socket' = m_socket /\ m_devState' = m_devState /\ m_statusCb' = m_statusCb /\ note' = note
  BY <1>3, Same DEF BaseStop
<1>. HIDE DEF t
<1>5. m_thread /\ ~m_shuttingDown /\ Has(t, "stop") /\ Step(t) = "stop"
  <2>1. Has(t, "stop")
    BY <1>1, <1>3, AllKnown, BusyIs DEF Has
  <2>. QED
    BY <1>3, <1>2, <2>1, AllKnown DEF StopSteps, t
<1>6. m_shuttingDown'
  BY <1>5 DEF BaseStop, t
<1>7. /\ T("quit") \in Tasks /\ T("join") \in Tasks /\ Setting("offline") \in Tasks
      /\ T("quit") # T("join")
      /\ Room(t, T("quit")) /\ Room(t, T("join")) /\ Room(t, Setting("offline"))
      /\ T("join") \in Later(T("quit")) \cap Rests(t)
      /\ Setting("offline") \in Later(T("quit")) \cap Later(T("join")) \cap Rests(t)
      /\ GoOn(t, (<<T("quit")>> \o <<T("join")>>) \o <<Setting("offline")>>)
  <2>1. T("quit") # T("join")
    BY Names
  <2>2. T("quit") \in Tasks /\ T("join") \in Tasks /\ Setting("offline") \in Tasks
    BY DEF Tasks, Plain, Steps, Made, DevStates
  <2>3. GoOn(t, (<<T("quit")>> \o <<T("join")>>) \o <<Setting("offline")>>)
    BY <1>5 DEF BaseStop, SetTo, Setting, Do, T, t
  <2>. QED
    BY <1>3, <2>1, <2>2, <2>3, LaterIs DEF Room, Rests, AfterQuit, t
<1>8. Moved(t, T("stop"), {T("quit"), T("join"), Setting("offline")}, T("quit")) /\ InOrder'
  BY <1>1, <1>3, <1>4, <1>7, Moves DEF BaseStop, Steps, EnvSame, t
<1>9. ~Crashed' /\ Types' /\ NoteIsState'
  <2>1. m_shuttingDown' \in BOOLEAN
    BY <1>3, <1>6, AllKnown DEF Types
  <2>2. /\ ReaderSame /\ ThreadSame /\ DriverSame /\ EnvSame /\ m_socket' = m_socket
        /\ m_devState' = m_devState /\ m_statusCb' = m_statusCb /\ note' = note
    BY <1>4
  <2>3. Types'
    BY <1>3, <2>1, <2>2, <1>8, AllKnown DEF Types, Moved, ReaderSame, ThreadSame, DriverSame,
       EnvSame
  <2>4. ~Crashed' /\ NoteIsState'
    BY <1>3, <2>2, AllKnown DEF Crashed, NoteIsState, DriverSame, EnvSame
  <2>. QED
    BY <2>3, <2>4
<1>10. Live(t)' /\ Later(T("stop")) = {}
  BY <1>1, <1>3, <1>8, BusyIs, AllKnown, LaterIs, Names DEF Moved, Setters, Ending, Has
<1>11. Rest("owner") \subseteq Pending("owner") /\ Rest("worker") \subseteq Pending("worker")
  BY <1>3, AllKnown, BusyIs DEF Actors
<1>12. ThreadKnown'
  BY <1>1, <1>3, <1>4, <1>8, <1>10, <1>11, <1>5, <1>6, AllKnown, Names DEF ThreadKnown,
     WorkerKnown, WorkerHandles, Busy, QuitHasWorker, Has, OwnerTasks, Reaching,
     WorkerTasks, OwnerOnly, NewKnown, StartsAlone, NotYetShutting, NotYetStarted,
     StartedOnce, Moved, Waiting, OfOwner, OfWorker, Idle, Actors, ReaderSame, ThreadSame,
     DriverSame, EnvSame, t
<1>13. StopKnown'
  BY <1>1, <1>3, <1>4, <1>8, <1>10, <1>11, <1>5, <1>6, AllKnown, Names DEF StopKnown,
     QuitThenJoin, Has, JoinKnown, Leaving, StopSteps, Reaching, StopSets, Setters,
     StopIsCalm, Calm, BeatJoined, DeleteKnown, Ending, OnlySoundBeats, Moved, Waiting,
     OfOwner, OfWorker, Idle, Actors, ReaderSame, ThreadSame, DriverSame, EnvSame, t
<1>14. StateKnown'
  BY <1>1, <1>3, <1>4, <1>8, <1>10, <1>11, <1>5, <1>6, AllKnown, Names DEF StateKnown,
     AssignsLegally, Actors, Made, UsedStates, Used, UsedAssigns, OnlineIsGentle,
     IsOnline, Gentle, ErrorIsLone, OfflineIsCalm, OnlyOnline, ClosesInError, Has,
     Reaching, ConnectingOpens, HasOpen, ErrorCloses, StartStates, OwnerTasks, Moved,
     Waiting, OfOwner, OfWorker, Idle, ReaderSame, ThreadSame, DriverSame, EnvSame, t
<1>15. StartKnown'
  BY <1>1, <1>3, <1>4, <1>8, <1>10, <1>11, <1>5, <1>6, AllKnown, Names DEF StartKnown,
     StartSets, Made, StartConnects, Has, Reaching, StartOpens, HasOpen, StartWrites,
     StartSends, StartStates, InitSets, Setters, Moved, Waiting, OfOwner, OfWorker, Idle,
     Actors, ReaderSame, ThreadSame, DriverSame, EnvSame, t
<1>16. ReaderKnown'
  BY <1>1, <1>3, <1>4, <1>8, <1>10, <1>11, <1>5, <1>6, AllKnown, Names DEF ReaderKnown,
     AssignThenEnter, Actors, Made, Has, JoinThenDrop, UsedStartsNoReader, Used, IsOnline,
     SpawnKnown, StartReaderKnown, DropKnown, StopReaderKnown, KeepIsSpawned,
     StopIsDropped, ReaderRuns, OnlineReads, OfflineStops, DeafAtFirst, Moved, Waiting,
     OfOwner, OfWorker, Idle, ReaderSame, ThreadSame, DriverSame, EnvSame, t
<1>17. SocketKnown'
  BY <1>1, <1>3, <1>4, <1>8, <1>10, <1>11, <1>5, <1>6, AllKnown, Names DEF SocketKnown,
     OnlineIsOpen, IsOnline, OpenThenOnline, Reaching, ErrorIsClosed, Actors, Has,
     TellsState, Made, Moved, Waiting, OfOwner, OfWorker, Idle, ReaderSame, ThreadSame,
     DriverSame, EnvSame, t
<1>. QED
  BY <1>8, <1>9, <1>12, <1>13, <1>14, <1>15, <1>16, <1>17 DEF IInv, Known

(* PTZ's Stop when the device is not online, *)
LEMMA StopReportSkipsKeeps ==
  ASSUME IInv, StopReport, ~IsOnline
  PROVE  IInv'
<1>. DEFINE t == "owner"
<1>1. t \in Actors
  BY DEF Actors
<1>2. Head(todo[t]) = T("report") /\ ~Crashed /\ Busy(t)
  BY <1>1, AtStep, ByName, BusyIs DEF StopReport, IInv, Steps, t
<1>3. StateSame /\ ReaderSame /\ ThreadSame /\ DriverSame /\ EnvSame
      /\ m_socket' = m_socket
  BY <1>2, Same DEF StopReport
<1>. HIDE DEF t
<1>4. phase = "stop" /\ kind = "ptz" /\ Has(t, "report")
  <2>1. Has(t, "report")
    BY <1>1, <1>2, AllKnown, BusyIs DEF Has
  <2>. QED
    BY <1>2, <2>1, AllKnown DEF OwnerTasks, t
<1>5. GoOn(t, <<>>)
  BY DEF StopReport, t
<1>6. Moved(t, T("report"), {}, T("report")) /\ InOrder'
  BY <1>1, <1>2, <1>3, <1>5, Moves DEF StopReport, Steps, EnvSame, t
<1>7. ~Crashed' /\ Types' /\ NoteIsState'
  BY <1>2, <1>3, <1>6, AllKnown
     DEF Crashed, Types, NoteIsState, Moved, StateSame, ReaderSame, ThreadSame, DriverSame, EnvSame
<1>8. (Live(t)' <=> Live(t)) /\ Later(T("report")) = StopEnd
  BY <1>1, <1>2, <1>6, BusyIs, AllKnown, LaterIs, Names DEF Moved, Setters, Ending, Has
<1>9. Rest("owner") \subseteq Pending("owner") /\ Rest("worker") \subseteq Pending("worker")
  BY <1>2, AllKnown, BusyIs DEF Actors
<1>10. ThreadKnown'
  BY <1>1, <1>2, <1>3, <1>6, <1>8, <1>9, <1>4, AllKnown, Names DEF ThreadKnown,
     WorkerKnown, WorkerHandles, Busy, QuitHasWorker, Has, OwnerTasks, Reaching,
     WorkerTasks, OwnerOnly, NewKnown, StartsAlone, NotYetShutting, NotYetStarted,
     StartedOnce, Moved, Waiting, OfOwner, OfWorker, Idle, Actors, StateSame, ReaderSame,
     ThreadSame, DriverSame, EnvSame, t
<1>11. StopKnown'
  BY <1>1, <1>2, <1>3, <1>6, <1>8, <1>9, <1>4, AllKnown, Names DEF StopKnown,
     QuitThenJoin, Has, JoinKnown, Leaving, StopSteps, Reaching, StopSets, Setters,
     StopIsCalm, Calm, BeatJoined, DeleteKnown, Ending, OnlySoundBeats, Moved, Waiting,
     OfOwner, OfWorker, Idle, Actors, StateSame, ReaderSame, ThreadSame, DriverSame,
     EnvSame, t
<1>12. StateKnown'
  BY <1>1, <1>2, <1>3, <1>6, <1>8, <1>9, <1>4, AllKnown, Names DEF StateKnown,
     AssignsLegally, Actors, Made, UsedStates, Used, UsedAssigns, OnlineIsGentle,
     IsOnline, Gentle, ErrorIsLone, OfflineIsCalm, OnlyOnline, ClosesInError, Has,
     Reaching, ConnectingOpens, HasOpen, ErrorCloses, StartStates, OwnerTasks, Moved,
     Waiting, OfOwner, OfWorker, Idle, StateSame, ReaderSame, ThreadSame, DriverSame,
     EnvSame, t
<1>13. StartKnown'
  BY <1>1, <1>2, <1>3, <1>6, <1>8, <1>9, <1>4, AllKnown, Names DEF StartKnown, StartSets,
     Made, StartConnects, Has, Reaching, StartOpens, HasOpen, StartWrites, StartSends,
     StartStates, InitSets, Setters, Moved, Waiting, OfOwner, OfWorker, Idle, Actors,
     StateSame, ReaderSame, ThreadSame, DriverSame, EnvSame, t
<1>14. ReaderKnown'
  BY <1>1, <1>2, <1>3, <1>6, <1>8, <1>9, <1>4, AllKnown, Names DEF ReaderKnown,
     AssignThenEnter, Actors, Made, Has, JoinThenDrop, UsedStartsNoReader, Used, IsOnline,
     SpawnKnown, StartReaderKnown, DropKnown, StopReaderKnown, KeepIsSpawned,
     StopIsDropped, ReaderRuns, OnlineReads, OfflineStops, DeafAtFirst, Moved, Waiting,
     OfOwner, OfWorker, Idle, StateSame, ReaderSame, ThreadSame, DriverSame, EnvSame, t
<1>15. SocketKnown'
  BY <1>1, <1>2, <1>3, <1>6, <1>8, <1>9, <1>4, AllKnown, Names DEF SocketKnown,
     OnlineIsOpen, IsOnline, OpenThenOnline, Reaching, ErrorIsClosed, Actors, Has,
     TellsState, Made, Moved, Waiting, OfOwner, OfWorker, Idle, StateSame, ReaderSame,
     ThreadSame, DriverSame, EnvSame, t
<1>. QED
  BY <1>6, <1>7, <1>10, <1>11, <1>12, <1>13, <1>14, <1>15 DEF IInv, Known

(* and when it is. *)
LEMMA StopReportKeeps ==
  ASSUME IInv, StopReport, IsOnline
  PROVE  IInv'
<1>. DEFINE t == "owner"
<1>1. t \in Actors
  BY DEF Actors
<1>2. Head(todo[t]) = T("report") /\ ~Crashed /\ Busy(t)
  BY <1>1, AtStep, ByName, BusyIs DEF StopReport, IInv, Steps, t
<1>3. StateSame /\ ReaderSame /\ ThreadSame /\ DriverSame /\ EnvSame
      /\ m_socket' = m_socket
  BY <1>2, Same DEF StopReport
<1>. HIDE DEF t
<1>4. phase = "stop" /\ kind = "ptz" /\ Has(t, "report")
  <2>1. Has(t, "report")
    BY <1>1, <1>2, AllKnown, BusyIs DEF Has
  <2>. QED
    BY <1>2, <2>1, AllKnown DEF OwnerTasks, t
<1>5. GoOn(t, <<T("send")>>) /\ T("send") \in Tasks /\ Room(t, T("send"))
  BY <1>2, LaterIs DEF StopReport, Do, T, Tasks, Plain, Steps, Room, t
<1>6. Moved(t, T("report"), {T("send")}, T("send")) /\ InOrder'
  BY <1>1, <1>2, <1>3, <1>5, Moves DEF StopReport, Steps, EnvSame, t
<1>7. ~Crashed' /\ Types' /\ NoteIsState'
  BY <1>2, <1>3, <1>6, AllKnown
     DEF Crashed, Types, NoteIsState, Moved, StateSame, ReaderSame, ThreadSame, DriverSame, EnvSame
<1>8. Live(t)' /\ Later(T("report")) = StopEnd
  BY <1>1, <1>2, <1>6, BusyIs, AllKnown, LaterIs, Names DEF Moved, Setters, Ending, Has
<1>9. Rest("owner") \subseteq Pending("owner") /\ Rest("worker") \subseteq Pending("worker")
  BY <1>2, AllKnown, BusyIs DEF Actors
<1>10. Has(t, "stop") /\ ~Has(t, "join")
  <2>1. ~Has(t, "join")
    BY <1>2, <1>4, AllKnown, Names DEF JoinKnown, Leaving, Has, t
  <2>2. ~Reaching(t, "offline")
    BY <1>2, <1>6, <1>4, LaterIs, Names DEF Moved, Reaching, StopEnd
  <2>. QED
    BY <1>2, <1>4, <2>1, <2>2, AllKnown DEF StopSteps, IsOnline, t
<1>11. ThreadKnown'
  BY <1>1, <1>2, <1>3, <1>6, <1>8, <1>9, <1>4, <1>10, AllKnown, Names DEF ThreadKnown,
     WorkerKnown, WorkerHandles, Busy, QuitHasWorker, Has, OwnerTasks, Reaching,
     WorkerTasks, OwnerOnly, NewKnown, StartsAlone, NotYetShutting, NotYetStarted,
     StartedOnce, Moved, Waiting, OfOwner, OfWorker, Idle, Actors, StateSame, ReaderSame,
     ThreadSame, DriverSame, EnvSame, t
<1>12. StopKnown'
  BY <1>1, <1>2, <1>3, <1>6, <1>8, <1>9, <1>4, <1>10, AllKnown, Names DEF StopKnown,
     QuitThenJoin, Has, JoinKnown, Leaving, StopSteps, Reaching, StopSets, Setters,
     StopIsCalm, Calm, BeatJoined, DeleteKnown, Ending, OnlySoundBeats, Moved, Waiting,
     OfOwner, OfWorker, Idle, Actors, StateSame, ReaderSame, ThreadSame, DriverSame,
     EnvSame, t
<1>13. StateKnown'
  BY <1>1, <1>2, <1>3, <1>6, <1>8, <1>9, <1>4, <1>10, AllKnown, Names DEF StateKnown,
     AssignsLegally, Actors, Made, UsedStates, Used, UsedAssigns, OnlineIsGentle,
     IsOnline, Gentle, ErrorIsLone, OfflineIsCalm, OnlyOnline, ClosesInError, Has,
     Reaching, ConnectingOpens, HasOpen, ErrorCloses, StartStates, OwnerTasks, Moved,
     Waiting, OfOwner, OfWorker, Idle, StateSame, ReaderSame, ThreadSame, DriverSame,
     EnvSame, t
<1>14. StartKnown'
  BY <1>1, <1>2, <1>3, <1>6, <1>8, <1>9, <1>4, <1>10, AllKnown, Names DEF StartKnown,
     StartSets, Made, StartConnects, Has, Reaching, StartOpens, HasOpen, StartWrites,
     StartSends, StartStates, InitSets, Setters, Moved, Waiting, OfOwner, OfWorker, Idle,
     Actors, StateSame, ReaderSame, ThreadSame, DriverSame, EnvSame, t
<1>15. ReaderKnown'
  BY <1>1, <1>2, <1>3, <1>6, <1>8, <1>9, <1>4, <1>10, AllKnown, Names DEF ReaderKnown,
     AssignThenEnter, Actors, Made, Has, JoinThenDrop, UsedStartsNoReader, Used, IsOnline,
     SpawnKnown, StartReaderKnown, DropKnown, StopReaderKnown, KeepIsSpawned,
     StopIsDropped, ReaderRuns, OnlineReads, OfflineStops, DeafAtFirst, Moved, Waiting,
     OfOwner, OfWorker, Idle, StateSame, ReaderSame, ThreadSame, DriverSame, EnvSame, t
<1>16. SocketKnown'
  BY <1>1, <1>2, <1>3, <1>6, <1>8, <1>9, <1>4, <1>10, AllKnown, Names DEF SocketKnown,
     OnlineIsOpen, IsOnline, OpenThenOnline, Reaching, ErrorIsClosed, Actors, Has,
     TellsState, Made, Moved, Waiting, OfOwner, OfWorker, Idle, StateSame, ReaderSame,
     ThreadSame, DriverSame, EnvSame, t
<1>. QED
  BY <1>6, <1>7, <1>11, <1>12, <1>13, <1>14, <1>15, <1>16 DEF IInv, Known

(* The heartbeat's start, *)
LEMMA StartHeartbeatKeeps ==
  ASSUME IInv, StartHeartbeat
  PROVE  IInv'
<1>. DEFINE t == "owner"
<1>1. t \in Actors
  BY DEF Actors
<1>2. Head(todo[t]) = T("startHeartbeat") /\ ~Crashed /\ Busy(t)
  BY <1>1, AtStep, ByName, BusyIs DEF StartHeartbeat, IInv, Steps, t
<1>3. StateSame /\ ReaderSame /\ ThreadSame /\ EnvSame
      /\ m_socket' = m_socket /\ kind' = kind /\ beat' = "looping" /\ m_keepHeartbeat' = TRUE
  BY <1>2, Same DEF StartHeartbeat
<1>. HIDE DEF t
<1>4. GoOn(t, <<>>)
  BY DEF StartHeartbeat, t
<1>5. Moved(t, T("startHeartbeat"), {}, T("startHeartbeat")) /\ InOrder'
  BY <1>1, <1>2, <1>3, <1>4, Moves DEF StartHeartbeat, Steps, EnvSame, t
<1>6. ~Crashed' /\ Types' /\ NoteIsState'
  BY <1>2, <1>3, <1>5, AllKnown
     DEF Crashed, Types, NoteIsState, Moved, StateSame, ReaderSame, ThreadSame, EnvSame
<1>7. (Live(t)' <=> Live(t)) /\ Has(t, "startHeartbeat") /\ Later(T("startHeartbeat")) = {}
  BY <1>1, <1>2, <1>5, BusyIs, AllKnown, LaterIs, Names DEF Moved, Setters, Ending, Has
<1>8. Rest("owner") \subseteq Pending("owner") /\ Rest("worker") \subseteq Pending("worker")
  BY <1>2, AllKnown, BusyIs DEF Actors
<1>9. phase = "start" /\ kind = "sound" /\ ~Busy("owner")' /\ ~Starting'
  <2>1. phase = "start" /\ kind = "sound"
    BY <1>2, <1>7, AllKnown DEF OwnerTasks, t
  <2>2. Pending("owner")' = {}
    BY <1>5, <1>7, <2>1 DEF Moved, t
  <2>. QED
    BY <1>3, <2>1, <2>2 DEF Busy, Starting, EnvSame
<1>10. ThreadKnown'
  BY <1>1, <1>2, <1>3, <1>5, <1>7, <1>8, <1>9, AllKnown, Names DEF ThreadKnown,
     WorkerKnown, WorkerHandles, Busy, QuitHasWorker, Has, OwnerTasks, Reaching,
     WorkerTasks, OwnerOnly, NewKnown, StartsAlone, NotYetShutting, NotYetStarted,
     StartedOnce, Moved, Waiting, OfOwner, OfWorker, Idle, Actors, StateSame, ReaderSame,
     ThreadSame, EnvSame, t
<1>11. StopKnown'
  BY <1>1, <1>2, <1>3, <1>5, <1>7, <1>8, <1>9, AllKnown, Names DEF StopKnown,
     QuitThenJoin, Has, JoinKnown, Leaving, StopSteps, Reaching, StopSets, Setters,
     StopIsCalm, Calm, BeatJoined, DeleteKnown, Ending, OnlySoundBeats, Moved, Waiting,
     OfOwner, OfWorker, Idle, Actors, StateSame, ReaderSame, ThreadSame, EnvSame, t
<1>12. StateKnown'
  BY <1>1, <1>2, <1>3, <1>5, <1>7, <1>8, <1>9, AllKnown, Names DEF StateKnown,
     AssignsLegally, Actors, Made, UsedStates, Used, UsedAssigns, OnlineIsGentle,
     IsOnline, Gentle, ErrorIsLone, OfflineIsCalm, OnlyOnline, ClosesInError, Has,
     Reaching, ConnectingOpens, HasOpen, ErrorCloses, StartStates, OwnerTasks, Moved,
     Waiting, OfOwner, OfWorker, Idle, StateSame, ReaderSame, ThreadSame, EnvSame, t
<1>13. StartKnown'
  BY <1>1, <1>2, <1>3, <1>5, <1>7, <1>8, <1>9, AllKnown, Names DEF StartKnown, StartSets,
     Made, StartConnects, Has, Reaching, StartOpens, HasOpen, StartWrites, StartSends,
     StartStates, InitSets, Setters, Moved, Waiting, OfOwner, OfWorker, Idle, Actors,
     StateSame, ReaderSame, ThreadSame, EnvSame, t
<1>14. ReaderKnown'
  BY <1>1, <1>2, <1>3, <1>5, <1>7, <1>8, <1>9, AllKnown, Names DEF ReaderKnown,
     AssignThenEnter, Actors, Made, Has, JoinThenDrop, UsedStartsNoReader, Used, IsOnline,
     SpawnKnown, StartReaderKnown, DropKnown, StopReaderKnown, KeepIsSpawned,
     StopIsDropped, ReaderRuns, OnlineReads, OfflineStops, DeafAtFirst, Moved, Waiting,
     OfOwner, OfWorker, Idle, StateSame, ReaderSame, ThreadSame, EnvSame, t
<1>15. SocketKnown'
  BY <1>1, <1>2, <1>3, <1>5, <1>7, <1>8, <1>9, AllKnown, Names DEF SocketKnown,
     OnlineIsOpen, IsOnline, OpenThenOnline, Reaching, ErrorIsClosed, Actors, Has,
     TellsState, Made, Moved, Waiting, OfOwner, OfWorker, Idle, StateSame, ReaderSame,
     ThreadSame, EnvSame, t
<1>. QED
  BY <1>5, <1>6, <1>10, <1>11, <1>12, <1>13, <1>14, <1>15 DEF IInv, Known

(* stop, *)
LEMMA StopHeartbeatKeeps ==
  ASSUME IInv, StopHeartbeat, Step("owner") = "stopHeartbeat"
  PROVE  IInv'
<1>. DEFINE t == "owner"
<1>1. t \in Actors
  BY DEF Actors
<1>2. Head(todo[t]) = T("stopHeartbeat") /\ ~Crashed /\ Busy(t)
  BY <1>1, AtStep, ByName, BusyIs DEF StopHeartbeat, IInv, Steps, t
<1>3. StateSame /\ ReaderSame /\ ThreadSame /\ EnvSame
      /\ m_socket' = m_socket /\ kind' = kind /\ beat' = beat /\ m_keepHeartbeat' \in BOOLEAN
  BY <1>2, Same DEF StopHeartbeat
<1>. HIDE DEF t
<1>4. GoOn(t, <<>>)
  BY DEF StopHeartbeat, t
<1>5. Moved(t, T("stopHeartbeat"), {}, T("stopHeartbeat")) /\ InOrder'
  BY <1>1, <1>2, <1>3, <1>4, Moves DEF StopHeartbeat, Steps, EnvSame, t
<1>6. ~Crashed' /\ Types' /\ NoteIsState'
  BY <1>2, <1>3, <1>5, AllKnown
     DEF Crashed, Types, NoteIsState, Moved, StateSame, ReaderSame, ThreadSame, EnvSame
<1>7. (Live(t)' <=> Live(t)) /\ Has(t, "stopHeartbeat") /\ Later(T("stopHeartbeat")) = StopOuter
  BY <1>1, <1>2, <1>5, BusyIs, AllKnown, LaterIs, Names DEF Moved, Setters, Ending, Has
<1>8. Rest("owner") \subseteq Pending("owner") /\ Rest("worker") \subseteq Pending("worker")
  BY <1>2, AllKnown, BusyIs DEF Actors
<1>9. ThreadKnown'
  BY <1>1, <1>2, <1>3, <1>5, <1>7, <1>8, AllKnown, Names DEF ThreadKnown, WorkerKnown,
     WorkerHandles, Busy, QuitHasWorker, Has, OwnerTasks, Reaching, WorkerTasks,
     OwnerOnly, NewKnown, StartsAlone, NotYetShutting, NotYetStarted, StartedOnce, Moved,
     Waiting, OfOwner, OfWorker, Idle, Actors, StateSame, ReaderSame, ThreadSame, EnvSame,
     t
<1>10. StopKnown'
  BY <1>1, <1>2, <1>3, <1>5, <1>7, <1>8, AllKnown, Names DEF StopKnown, QuitThenJoin, Has,
     JoinKnown, Leaving, StopSteps, Reaching, StopSets, Setters, StopIsCalm, Calm,
     BeatJoined, DeleteKnown, Ending, OnlySoundBeats, Moved, Waiting, OfOwner, OfWorker,
     Idle, Actors, StateSame, ReaderSame, ThreadSame, EnvSame, t
<1>11. StateKnown'
  BY <1>1, <1>2, <1>3, <1>5, <1>7, <1>8, AllKnown, Names DEF StateKnown, AssignsLegally,
     Actors, Made, UsedStates, Used, UsedAssigns, OnlineIsGentle, IsOnline, Gentle,
     ErrorIsLone, OfflineIsCalm, OnlyOnline, ClosesInError, Has, Reaching,
     ConnectingOpens, HasOpen, ErrorCloses, StartStates, OwnerTasks, Moved, Waiting,
     OfOwner, OfWorker, Idle, StateSame, ReaderSame, ThreadSame, EnvSame, t
<1>12. StartKnown'
  BY <1>1, <1>2, <1>3, <1>5, <1>7, <1>8, AllKnown, Names DEF StartKnown, StartSets, Made,
     StartConnects, Has, Reaching, StartOpens, HasOpen, StartWrites, StartSends,
     StartStates, InitSets, Setters, Moved, Waiting, OfOwner, OfWorker, Idle, Actors,
     StateSame, ReaderSame, ThreadSame, EnvSame, t
<1>13. ReaderKnown'
  BY <1>1, <1>2, <1>3, <1>5, <1>7, <1>8, AllKnown, Names DEF ReaderKnown, AssignThenEnter,
     Actors, Made, Has, JoinThenDrop, UsedStartsNoReader, Used, IsOnline, SpawnKnown,
     StartReaderKnown, DropKnown, StopReaderKnown, KeepIsSpawned, StopIsDropped,
     ReaderRuns, OnlineReads, OfflineStops, DeafAtFirst, Moved, Waiting, OfOwner,
     OfWorker, Idle, StateSame, ReaderSame, ThreadSame, EnvSame, t
<1>14. SocketKnown'
  BY <1>1, <1>2, <1>3, <1>5, <1>7, <1>8, AllKnown, Names DEF SocketKnown, OnlineIsOpen,
     IsOnline, OpenThenOnline, Reaching, ErrorIsClosed, Actors, Has, TellsState, Made,
     Moved, Waiting, OfOwner, OfWorker, Idle, StateSame, ReaderSame, ThreadSame, EnvSame,
     t
<1>. QED
  BY <1>5, <1>6, <1>9, <1>10, <1>11, <1>12, <1>13, <1>14 DEF IInv, Known

(* and join. *)
LEMMA JoinHeartbeatKeeps ==
  ASSUME IInv, StopHeartbeat, Step("owner") = "joinHeartbeat"
  PROVE  IInv'
<1>. DEFINE t == "owner"
<1>1. t \in Actors
  BY DEF Actors
<1>2. Head(todo[t]) = T("joinHeartbeat") /\ ~Crashed /\ Busy(t)
  BY <1>1, AtStep, ByName, BusyIs DEF StopHeartbeat, IInv, Steps, t
<1>3. StateSame /\ ReaderSame /\ ThreadSame /\ DriverSame /\ EnvSame
      /\ m_socket' = m_socket /\ beat \in {"none", "done"}
  BY <1>2, Same DEF StopHeartbeat, DriverSame
<1>. HIDE DEF t
<1>4. GoOn(t, <<>>)
  BY DEF StopHeartbeat, t
<1>5. Moved(t, T("joinHeartbeat"), {}, T("joinHeartbeat")) /\ InOrder'
  BY <1>1, <1>2, <1>3, <1>4, Moves DEF StopHeartbeat, Steps, EnvSame, t
<1>6. ~Crashed' /\ Types' /\ NoteIsState'
  BY <1>2, <1>3, <1>5, AllKnown
     DEF Crashed, Types, NoteIsState, Moved, StateSame, ReaderSame, ThreadSame, DriverSame, EnvSame
<1>7. (Live(t)' <=> Live(t)) /\ Has(t, "joinHeartbeat") /\ Later(T("joinHeartbeat")) = StopOuter
  BY <1>1, <1>2, <1>5, BusyIs, AllKnown, LaterIs, Names DEF Moved, Setters, Ending, Has
<1>8. Rest("owner") \subseteq Pending("owner") /\ Rest("worker") \subseteq Pending("worker")
  BY <1>2, AllKnown, BusyIs DEF Actors
<1>9. ThreadKnown'
  BY <1>1, <1>2, <1>3, <1>5, <1>7, <1>8, AllKnown, Names DEF ThreadKnown, WorkerKnown,
     WorkerHandles, Busy, QuitHasWorker, Has, OwnerTasks, Reaching, WorkerTasks,
     OwnerOnly, NewKnown, StartsAlone, NotYetShutting, NotYetStarted, StartedOnce, Moved,
     Waiting, OfOwner, OfWorker, Idle, Actors, StateSame, ReaderSame, ThreadSame,
     DriverSame, EnvSame, t
<1>10. StopKnown'
  BY <1>1, <1>2, <1>3, <1>5, <1>7, <1>8, AllKnown, Names DEF StopKnown, QuitThenJoin, Has,
     JoinKnown, Leaving, StopSteps, Reaching, StopSets, Setters, StopIsCalm, Calm,
     BeatJoined, DeleteKnown, Ending, OnlySoundBeats, Moved, Waiting, OfOwner, OfWorker,
     Idle, Actors, StateSame, ReaderSame, ThreadSame, DriverSame, EnvSame, t
<1>11. StateKnown'
  BY <1>1, <1>2, <1>3, <1>5, <1>7, <1>8, AllKnown, Names DEF StateKnown, AssignsLegally,
     Actors, Made, UsedStates, Used, UsedAssigns, OnlineIsGentle, IsOnline, Gentle,
     ErrorIsLone, OfflineIsCalm, OnlyOnline, ClosesInError, Has, Reaching,
     ConnectingOpens, HasOpen, ErrorCloses, StartStates, OwnerTasks, Moved, Waiting,
     OfOwner, OfWorker, Idle, StateSame, ReaderSame, ThreadSame, DriverSame, EnvSame, t
<1>12. StartKnown'
  BY <1>1, <1>2, <1>3, <1>5, <1>7, <1>8, AllKnown, Names DEF StartKnown, StartSets, Made,
     StartConnects, Has, Reaching, StartOpens, HasOpen, StartWrites, StartSends,
     StartStates, InitSets, Setters, Moved, Waiting, OfOwner, OfWorker, Idle, Actors,
     StateSame, ReaderSame, ThreadSame, DriverSame, EnvSame, t
<1>13. ReaderKnown'
  BY <1>1, <1>2, <1>3, <1>5, <1>7, <1>8, AllKnown, Names DEF ReaderKnown, AssignThenEnter,
     Actors, Made, Has, JoinThenDrop, UsedStartsNoReader, Used, IsOnline, SpawnKnown,
     StartReaderKnown, DropKnown, StopReaderKnown, KeepIsSpawned, StopIsDropped,
     ReaderRuns, OnlineReads, OfflineStops, DeafAtFirst, Moved, Waiting, OfOwner,
     OfWorker, Idle, StateSame, ReaderSame, ThreadSame, DriverSame, EnvSame, t
<1>14. SocketKnown'
  BY <1>1, <1>2, <1>3, <1>5, <1>7, <1>8, AllKnown, Names DEF SocketKnown, OnlineIsOpen,
     IsOnline, OpenThenOnline, Reaching, ErrorIsClosed, Actors, Has, TellsState, Made,
     Moved, Waiting, OfOwner, OfWorker, Idle, StateSame, ReaderSame, ThreadSame,
     DriverSame, EnvSame, t
<1>. QED
  BY <1>5, <1>6, <1>9, <1>10, <1>11, <1>12, <1>13, <1>14 DEF IInv, Known

-----------------------------------------------------------------------------
(* The worker, the loops and the users                                     *)

(* A packet or heartbeat that is sent, *)
LEMMA DispatchSendsKeeps ==
  ASSUME IInv, Dispatch, GoOn("worker", Do("send")), Step("worker") = "packet" => IsOnline
  PROVE  IInv'
<1>. DEFINE t == "worker"
<1>1. t \in Actors
  BY DEF Actors
<1>2. Head(todo[t]) = T(Step("worker")) /\ ~Crashed /\ Busy(t)
  BY <1>1, AtStep, ByName, BusyIs DEF Dispatch, IInv, Steps, t
<1>3. StateSame /\ ReaderSame /\ ThreadSame /\ DriverSame /\ EnvSame
      /\ m_socket' = m_socket /\ Step("worker") \in {"packet", "heartbeat"}
  BY <1>2, Same DEF Dispatch
<1>. HIDE DEF t
<1>4. Step("worker") = "heartbeat" => kind = "sound"
  <2>1. Step("worker") = "heartbeat" => Has("worker", "heartbeat")
    BY <1>1, <1>2, BusyIs, AllKnown DEF Has, t
  <2>. QED
    BY <1>2, <2>1, AllKnown DEF OnlySoundBeats
<1>5. /\ GoOn(t, <<T("send")>>) /\ T("send") \in Tasks /\ Room(t, T("send"))
      /\ Step("worker") \in Steps
  <2>1. Room(t, T("send"))
    BY <1>2, <1>3, LaterIs DEF Room
  <2>. QED
    BY <1>3, <2>1 DEF Do, T, Tasks, Plain, Steps, t
<1>6. Moved(t, T(Step("worker")), {T("send")}, T("send")) /\ InOrder'
  BY <1>1, <1>2, <1>3, <1>5, Moves DEF Dispatch, Steps, EnvSame, t
<1>7. ~Crashed' /\ Types' /\ NoteIsState'
  BY <1>2, <1>3, <1>6, AllKnown
     DEF Crashed, Types, NoteIsState, Moved, StateSame, ReaderSame, ThreadSame, DriverSame, EnvSame
<1>8. Live(t)' /\ Rest(t) = {} /\ Rest(t)' = {} /\ ~Live(t)
  BY <1>1, <1>2, <1>6, BusyIs, AllKnown, <1>3, LaterIs, Names DEF Moved, Setters, Ending, Has,
     OfWorker, RestLive, Actors, t
<1>9. Rest("owner") \subseteq Pending("owner") /\ Rest("worker") \subseteq Pending("worker")
  BY <1>2, AllKnown, BusyIs DEF Actors
<1>10. ThreadKnown'
  BY <1>1, <1>2, <1>3, <1>6, <1>8, <1>9, <1>4, AllKnown, Names DEF ThreadKnown,
     WorkerKnown, WorkerHandles, Busy, QuitHasWorker, Has, OwnerTasks, Reaching,
     WorkerTasks, OwnerOnly, NewKnown, StartsAlone, NotYetShutting, NotYetStarted,
     StartedOnce, Moved, Waiting, OfOwner, OfWorker, Idle, Actors, StateSame, ReaderSame,
     ThreadSame, DriverSame, EnvSame, t
<1>11. StopKnown'
  BY <1>1, <1>2, <1>3, <1>6, <1>8, <1>9, <1>4, AllKnown, Names DEF StopKnown,
     QuitThenJoin, Has, JoinKnown, Leaving, StopSteps, Reaching, StopSets, Setters,
     StopIsCalm, Calm, BeatJoined, DeleteKnown, Ending, OnlySoundBeats, Moved, Waiting,
     OfOwner, OfWorker, Idle, Actors, StateSame, ReaderSame, ThreadSame, DriverSame,
     EnvSame, t
<1>12. StateKnown'
  BY <1>1, <1>2, <1>3, <1>6, <1>8, <1>9, <1>4, AllKnown, Names DEF StateKnown,
     AssignsLegally, Actors, Made, UsedStates, Used, UsedAssigns, OnlineIsGentle,
     IsOnline, Gentle, ErrorIsLone, OfflineIsCalm, OnlyOnline, ClosesInError, Has,
     Reaching, ConnectingOpens, HasOpen, ErrorCloses, StartStates, OwnerTasks, Moved,
     Waiting, OfOwner, OfWorker, Idle, StateSame, ReaderSame, ThreadSame, DriverSame,
     EnvSame, t
<1>13. StartKnown'
  BY <1>1, <1>2, <1>3, <1>6, <1>8, <1>9, <1>4, AllKnown, Names DEF StartKnown, StartSets,
     Made, StartConnects, Has, Reaching, StartOpens, HasOpen, StartWrites, StartSends,
     StartStates, InitSets, Setters, Moved, Waiting, OfOwner, OfWorker, Idle, Actors,
     StateSame, ReaderSame, ThreadSame, DriverSame, EnvSame, t
<1>14. ReaderKnown'
  BY <1>1, <1>2, <1>3, <1>6, <1>8, <1>9, <1>4, AllKnown, Names DEF ReaderKnown,
     AssignThenEnter, Actors, Made, Has, JoinThenDrop, UsedStartsNoReader, Used, IsOnline,
     SpawnKnown, StartReaderKnown, DropKnown, StopReaderKnown, KeepIsSpawned,
     StopIsDropped, ReaderRuns, OnlineReads, OfflineStops, DeafAtFirst, Moved, Waiting,
     OfOwner, OfWorker, Idle, StateSame, ReaderSame, ThreadSame, DriverSame, EnvSame, t
<1>15. SocketKnown'
  BY <1>1, <1>2, <1>3, <1>6, <1>8, <1>9, <1>4, AllKnown, Names DEF SocketKnown,
     OnlineIsOpen, IsOnline, OpenThenOnline, Reaching, ErrorIsClosed, Actors, Has,
     TellsState, Made, Moved, Waiting, OfOwner, OfWorker, Idle, StateSame, ReaderSame,
     ThreadSame, DriverSame, EnvSame, t
<1>. QED
  BY <1>6, <1>7, <1>10, <1>11, <1>12, <1>13, <1>14, <1>15 DEF IInv, Known

(* and a packet that is not. *)
LEMMA DispatchDropsKeeps ==
  ASSUME IInv, Dispatch, GoOn("worker", <<>>), Step("worker") = "packet"
  PROVE  IInv'
<1>. DEFINE t == "worker"
<1>1. t \in Actors
  BY DEF Actors
<1>2. Head(todo[t]) = T("packet") /\ ~Crashed /\ Busy(t)
  BY <1>1, AtStep, ByName, BusyIs DEF Dispatch, IInv, Steps, t
<1>3. StateSame /\ ReaderSame /\ ThreadSame /\ DriverSame /\ EnvSame
      /\ m_socket' = m_socket
  BY <1>2, Same DEF Dispatch
<1>. HIDE DEF t
<1>4. GoOn(t, <<>>)
  BY DEF t
<1>5. Moved(t, T("packet"), {}, T("packet")) /\ InOrder'
  BY <1>1, <1>2, <1>3, <1>4, Moves DEF Dispatch, Steps, EnvSame, t
<1>6. ~Crashed' /\ Types' /\ NoteIsState'
  BY <1>2, <1>3, <1>5, AllKnown
     DEF Crashed, Types, NoteIsState, Moved, StateSame, ReaderSame, ThreadSame, DriverSame, EnvSame
<1>7. ~Live(t)' /\ Rest(t) = {} /\ Rest(t)' = {} /\ ~Live(t)
  BY <1>1, <1>2, <1>5, BusyIs, AllKnown, LaterIs, Names DEF Moved, Setters, Ending, Has,
     OfWorker, RestLive, Actors, t
<1>8. Rest("owner") \subseteq Pending("owner") /\ Rest("worker") \subseteq Pending("worker")
  BY <1>2, AllKnown, BusyIs DEF Actors
<1>9. ThreadKnown'
  BY <1>1, <1>2, <1>3, <1>5, <1>7, <1>8, AllKnown, Names DEF ThreadKnown, WorkerKnown,
     WorkerHandles, Busy, QuitHasWorker, Has, OwnerTasks, Reaching, WorkerTasks,
     OwnerOnly, NewKnown, StartsAlone, NotYetShutting, NotYetStarted, StartedOnce, Moved,
     Waiting, OfOwner, OfWorker, Idle, Actors, StateSame, ReaderSame, ThreadSame,
     DriverSame, EnvSame, t
<1>10. StopKnown'
  BY <1>1, <1>2, <1>3, <1>5, <1>7, <1>8, AllKnown, Names DEF StopKnown, QuitThenJoin, Has,
     JoinKnown, Leaving, StopSteps, Reaching, StopSets, Setters, StopIsCalm, Calm,
     BeatJoined, DeleteKnown, Ending, OnlySoundBeats, Moved, Waiting, OfOwner, OfWorker,
     Idle, Actors, StateSame, ReaderSame, ThreadSame, DriverSame, EnvSame, t
<1>11. StateKnown'
  BY <1>1, <1>2, <1>3, <1>5, <1>7, <1>8, AllKnown, Names DEF StateKnown, AssignsLegally,
     Actors, Made, UsedStates, Used, UsedAssigns, OnlineIsGentle, IsOnline, Gentle,
     ErrorIsLone, OfflineIsCalm, OnlyOnline, ClosesInError, Has, Reaching,
     ConnectingOpens, HasOpen, ErrorCloses, StartStates, OwnerTasks, Moved, Waiting,
     OfOwner, OfWorker, Idle, StateSame, ReaderSame, ThreadSame, DriverSame, EnvSame, t
<1>12. StartKnown'
  BY <1>1, <1>2, <1>3, <1>5, <1>7, <1>8, AllKnown, Names DEF StartKnown, StartSets, Made,
     StartConnects, Has, Reaching, StartOpens, HasOpen, StartWrites, StartSends,
     StartStates, InitSets, Setters, Moved, Waiting, OfOwner, OfWorker, Idle, Actors,
     StateSame, ReaderSame, ThreadSame, DriverSame, EnvSame, t
<1>13. ReaderKnown'
  BY <1>1, <1>2, <1>3, <1>5, <1>7, <1>8, AllKnown, Names DEF ReaderKnown, AssignThenEnter,
     Actors, Made, Has, JoinThenDrop, UsedStartsNoReader, Used, IsOnline, SpawnKnown,
     StartReaderKnown, DropKnown, StopReaderKnown, KeepIsSpawned, StopIsDropped,
     ReaderRuns, OnlineReads, OfflineStops, DeafAtFirst, Moved, Waiting, OfOwner,
     OfWorker, Idle, StateSame, ReaderSame, ThreadSame, DriverSame, EnvSame, t
<1>14. SocketKnown'
  BY <1>1, <1>2, <1>3, <1>5, <1>7, <1>8, AllKnown, Names DEF SocketKnown, OnlineIsOpen,
     IsOnline, OpenThenOnline, Reaching, ErrorIsClosed, Actors, Has, TellsState, Made,
     Moved, Waiting, OfOwner, OfWorker, Idle, StateSame, ReaderSame, ThreadSame,
     DriverSame, EnvSame, t
<1>. QED
  BY <1>5, <1>6, <1>9, <1>10, <1>11, <1>12, <1>13, <1>14 DEF IInv, Known

(* The reader's loop. *)
LEMMA ReadLoopKeeps ==
  ASSUME IInv, ReadLoop
  PROVE  IInv'
<1>1. ~Crashed
  BY DEF ReadLoop
<1>2. StateSame /\ ThreadSame /\ DriverSame /\ EnvSame
      /\ m_keepReading' = m_keepReading /\ m_readThread' = m_readThread /\ m_socket' = m_socket
      /\ \/ reader = "looping" /\ ~m_keepReading /\ reader' = "done"
         \/ reader = "looping" /\ m_keepReading /\ IsOnline /\ reader' = "reading"
         \/ reader = "reading" /\ reader' = "looping"
  BY Same DEF ReadLoop, DriverSame, EnvSame
<1>3. Still /\ InOrder'
  <2>1. Still
    BY StillIs DEF ReadLoop, EnvSame, envVars
  <2>. QED
    BY <1>1, <2>1, AllKnown DEF Still
<1>4. Busy("owner")' <=> Busy("owner")
  BY <1>3 DEF Still, Busy, Actors
<1>5. Busy("worker")' <=> Busy("worker")
  BY <1>3 DEF Still, Busy, Actors
<1>6. ~Crashed' /\ Types' /\ NoteIsState'
  BY <1>1, <1>2, <1>3, AllKnown
     DEF Crashed, NoteIsState, Types, Still, StateSame, ReaderSame, ThreadSame, DriverSame, EnvSame
<1>7. ThreadKnown'
  BY <1>1, <1>2, <1>3, <1>4, <1>5, AllKnown, Names DEF ThreadKnown, WorkerKnown,
     WorkerHandles, Busy, QuitHasWorker, Has, OwnerTasks, Reaching, WorkerTasks,
     OwnerOnly, NewKnown, StartsAlone, NotYetShutting, NotYetStarted, StartedOnce, Still,
     Actors, StateSame, ThreadSame, DriverSame, EnvSame
<1>8. StopKnown'
  BY <1>1, <1>2, <1>3, <1>4, <1>5, AllKnown, Names DEF StopKnown, QuitThenJoin, Has,
     JoinKnown, Leaving, StopSteps, Reaching, StopSets, Setters, StopIsCalm, Calm,
     BeatJoined, DeleteKnown, Ending, OnlySoundBeats, Still, Actors, StateSame,
     ThreadSame, DriverSame, EnvSame
<1>9. StateKnown'
  BY <1>1, <1>2, <1>3, <1>4, <1>5, AllKnown, Names DEF StateKnown, AssignsLegally, Actors,
     Made, UsedStates, Used, UsedAssigns, OnlineIsGentle, IsOnline, Gentle, ErrorIsLone,
     OfflineIsCalm, OnlyOnline, ClosesInError, Has, Reaching, ConnectingOpens, HasOpen,
     ErrorCloses, Still, StateSame, ThreadSame, DriverSame, EnvSame
<1>10. StartKnown'
  BY <1>1, <1>2, <1>3, <1>4, <1>5, AllKnown, Names DEF StartKnown, StartSets, Made,
     StartConnects, Has, Reaching, StartOpens, HasOpen, StartWrites, StartSends,
     StartStates, InitSets, Setters, Still, Actors, StateSame, ThreadSame, DriverSame,
     EnvSame
<1>11. ReaderKnown'
  BY <1>1, <1>2, <1>3, <1>4, <1>5, AllKnown, Names DEF ReaderKnown, AssignThenEnter,
     Actors, Made, Has, JoinThenDrop, UsedStartsNoReader, Used, IsOnline, SpawnKnown,
     StartReaderKnown, DropKnown, StopReaderKnown, KeepIsSpawned, StopIsDropped,
     ReaderRuns, OnlineReads, OfflineStops, DeafAtFirst, Still, StateSame, ThreadSame,
     DriverSame, EnvSame
<1>12. SocketKnown'
  BY <1>1, <1>2, <1>3, <1>4, <1>5, AllKnown, Names DEF SocketKnown, OnlineIsOpen,
     IsOnline, OpenThenOnline, Reaching, ErrorIsClosed, Actors, Has, TellsState, Made,
     Still, StateSame, ThreadSame, DriverSame, EnvSame
<1>. QED
  BY <1>3, <1>6, <1>7, <1>8, <1>9, <1>10, <1>11, <1>12 DEF IInv, Known

(* The worker's loop. *)
LEMMA WorkerLoopKeeps ==
  ASSUME IInv, WorkerLoop
  PROVE  IInv'
<1>1. ~Crashed
  BY DEF WorkerLoop
<1>2. StateSame /\ ReaderSame /\ DriverSame /\ EnvSame
      /\ m_thread' = m_thread /\ m_eq' = m_eq /\ m_socket' = m_socket
      /\ \/ worker = "entering" /\ m_state' = "running" /\ worker' = "testing"
         \/ worker = "testing" /\ m_state' = m_state /\ worker' \in {"popping", "leaving"}
         \/ worker = "handling" /\ todo["worker"] = <<>> /\ m_state' = m_state /\ worker' = "testing"
         \/ worker = "leaving" /\ m_state' = "stopped" /\ worker' = "done"
  BY Same DEF WorkerLoop, DriverSame, EnvSame
<1>3. Still /\ InOrder'
  <2>1. Still
    BY StillIs DEF WorkerLoop, EnvSame, envVars
  <2>. QED
    BY <1>1, <2>1, AllKnown DEF Still
<1>4. Busy("owner")' <=> Busy("owner")
  BY <1>3 DEF Still, Busy, Actors
<1>5. Busy("worker")' <=> Busy("worker")
  BY <1>3 DEF Still, Busy, Actors
<1>6. todo["worker"] = <<>> => ~Busy("worker")
  BY <1>1, AllKnown, BusyIs DEF Actors
<1>7. ~Crashed' /\ Types' /\ NoteIsState'
  BY <1>1, <1>2, <1>3, AllKnown
     DEF Crashed, NoteIsState, Types, Still, StateSame, ReaderSame, ThreadSame, DriverSame, EnvSame
<1>8. ThreadKnown'
  BY <1>1, <1>2, <1>3, <1>4, <1>5, <1>6, AllKnown, Names DEF ThreadKnown, WorkerKnown,
     WorkerHandles, Busy, QuitHasWorker, Has, OwnerTasks, Reaching, WorkerTasks,
     OwnerOnly, NewKnown, StartsAlone, NotYetShutting, NotYetStarted, StartedOnce, Still,
     Actors, StateSame, ReaderSame, DriverSame, EnvSame
<1>9. StopKnown'
  BY <1>1, <1>2, <1>3, <1>4, <1>5, <1>6, AllKnown, Names DEF StopKnown, QuitThenJoin, Has,
     JoinKnown, Leaving, StopSteps, Reaching, StopSets, Setters, StopIsCalm, Calm,
     BeatJoined, DeleteKnown, Ending, OnlySoundBeats, Still, Actors, StateSame,
     ReaderSame, DriverSame, EnvSame
<1>10. StateKnown'
  BY <1>1, <1>2, <1>3, <1>4, <1>5, <1>6, AllKnown, Names DEF StateKnown, AssignsLegally,
     Actors, Made, UsedStates, Used, UsedAssigns, OnlineIsGentle, IsOnline, Gentle,
     ErrorIsLone, OfflineIsCalm, OnlyOnline, ClosesInError, Has, Reaching,
     ConnectingOpens, HasOpen, ErrorCloses, Still, StateSame, ReaderSame, DriverSame,
     EnvSame
<1>11. StartKnown'
  BY <1>1, <1>2, <1>3, <1>4, <1>5, <1>6, AllKnown, Names DEF StartKnown, StartSets, Made,
     StartConnects, Has, Reaching, StartOpens, HasOpen, StartWrites, StartSends,
     StartStates, InitSets, Setters, Still, Actors, StateSame, ReaderSame, DriverSame,
     EnvSame
<1>12. ReaderKnown'
  BY <1>1, <1>2, <1>3, <1>4, <1>5, <1>6, AllKnown, Names DEF ReaderKnown, AssignThenEnter,
     Actors, Made, Has, JoinThenDrop, UsedStartsNoReader, Used, IsOnline, SpawnKnown,
     StartReaderKnown, DropKnown, StopReaderKnown, KeepIsSpawned, StopIsDropped,
     ReaderRuns, OnlineReads, OfflineStops, DeafAtFirst, Still, StateSame, ReaderSame,
     DriverSame, EnvSame
<1>13. SocketKnown'
  BY <1>1, <1>2, <1>3, <1>4, <1>5, <1>6, AllKnown, Names DEF SocketKnown, OnlineIsOpen,
     IsOnline, OpenThenOnline, Reaching, ErrorIsClosed, Actors, Has, TellsState, Made,
     Still, StateSame, ReaderSame, DriverSame, EnvSame
<1>. QED
  BY <1>3, <1>7, <1>8, <1>9, <1>10, <1>11, <1>12, <1>13 DEF IInv, Known

(* The callback is set once Start has returned. *)
LEMMA SetStatusCallbackKeeps ==
  ASSUME IInv, SetStatusCallback
  PROVE  IInv'
<1>1. ~Crashed /\ phase = "start" /\ ~Busy("owner") /\ ~Starting
  <2>1. phase = "start" /\ todo["owner"] = <<>> /\ ~Crashed
    BY DEF SetStatusCallback, Started, Crashed
  <2>. QED
    BY <2>1, AllKnown, BusyIs DEF Starting, Actors
<1>2. ReaderSame /\ ThreadSame /\ DriverSame /\ EnvSame
      /\ m_devState' = m_devState /\ m_shuttingDown' = m_shuttingDown /\ note' = note
      /\ m_socket' = m_socket /\ m_statusCb' = TRUE
  BY Same DEF SetStatusCallback, DriverSame, EnvSame
<1>3. Still /\ InOrder'
  <2>1. Still
    BY StillIs DEF SetStatusCallback, EnvSame, envVars
  <2>. QED
    BY <1>1, <2>1, AllKnown DEF Still
<1>4. Busy("owner")' <=> Busy("owner")
  BY <1>3 DEF Still, Busy, Actors
<1>5. Busy("worker")' <=> Busy("worker")
  BY <1>3 DEF Still, Busy, Actors
<1>6. ~Crashed' /\ Types' /\ NoteIsState'
  BY <1>1, <1>2, <1>3, AllKnown
     DEF Crashed, NoteIsState, Types, Still, StateSame, ReaderSame, ThreadSame, DriverSame, EnvSame
<1>7. ThreadKnown'
  BY <1>1, <1>2, <1>3, <1>4, <1>5, AllKnown, Names DEF ThreadKnown, WorkerKnown,
     WorkerHandles, Busy, QuitHasWorker, Has, OwnerTasks, Reaching, WorkerTasks,
     OwnerOnly, NewKnown, StartsAlone, NotYetShutting, NotYetStarted, StartedOnce, Still,
     Actors, ReaderSame, ThreadSame, DriverSame, EnvSame
<1>8. StopKnown'
  BY <1>1, <1>2, <1>3, <1>4, <1>5, AllKnown, Names DEF StopKnown, QuitThenJoin, Has,
     JoinKnown, Leaving, StopSteps, Reaching, StopSets, Setters, StopIsCalm, Calm,
     BeatJoined, DeleteKnown, Ending, OnlySoundBeats, Still, Actors, ReaderSame,
     ThreadSame, DriverSame, EnvSame
<1>9. StateKnown'
  BY <1>1, <1>2, <1>3, <1>4, <1>5, AllKnown, Names DEF StateKnown, AssignsLegally, Actors,
     Made, UsedStates, Used, UsedAssigns, OnlineIsGentle, IsOnline, Gentle, ErrorIsLone,
     OfflineIsCalm, OnlyOnline, ClosesInError, Has, Reaching, ConnectingOpens, HasOpen,
     ErrorCloses, Still, ReaderSame, ThreadSame, DriverSame, EnvSame
<1>10. StartKnown'
  BY <1>1, <1>2, <1>3, <1>4, <1>5, AllKnown, Names DEF StartKnown, StartSets, Made,
     StartConnects, Has, Reaching, StartOpens, HasOpen, StartWrites, StartSends,
     StartStates, InitSets, Setters, Still, Actors, ReaderSame, ThreadSame, DriverSame,
     EnvSame
<1>11. ReaderKnown'
  BY <1>1, <1>2, <1>3, <1>4, <1>5, AllKnown, Names DEF ReaderKnown, AssignThenEnter,
     Actors, Made, Has, JoinThenDrop, UsedStartsNoReader, Used, IsOnline, SpawnKnown,
     StartReaderKnown, DropKnown, StopReaderKnown, KeepIsSpawned, StopIsDropped,
     ReaderRuns, OnlineReads, OfflineStops, DeafAtFirst, Still, ReaderSame, ThreadSame,
     DriverSame, EnvSame
<1>12. SocketKnown'
  BY <1>1, <1>2, <1>3, <1>4, <1>5, AllKnown, Names DEF SocketKnown, OnlineIsOpen,
     IsOnline, OpenThenOnline, Reaching, ErrorIsClosed, Actors, Has, TellsState, Made,
     Still, ReaderSame, ThreadSame, DriverSame, EnvSame
<1>. QED
  BY <1>3, <1>6, <1>7, <1>8, <1>9, <1>10, <1>11, <1>12 DEF IInv, Known

(* A packet is posted. *)
LEMMA ExecutePacketKeeps ==
  ASSUME IInv, ExecutePacket
  PROVE  IInv'
<1>1. ~Crashed /\ phase = "start" /\ ~Busy("owner") /\ ~Starting /\ packets \in Nat
  <2>1. phase = "start" /\ todo["owner"] = <<>> /\ ~Crashed
    BY DEF ExecutePacket, Started, Crashed
  <2>. QED
    BY <2>1, AllKnown, BusyIs, DeviceAssumption DEF Starting, Actors, Types
<1>2. StateSame /\ ReaderSame /\ DriverSame
      /\ kind' = kind /\ m_socket' = m_socket /\ m_state' = m_state /\ m_thread' = m_thread
      /\ worker' = worker /\ beats' = beats /\ packets' \in 0..MaxPackets
      /\ m_eq' = Append(m_eq, "packet")
  BY <1>1, DeviceAssumption, Same DEF ExecutePacket, Started, DriverSame
<1>3. Still /\ InOrder'
  <2>1. Still
    BY StillIs DEF ExecutePacket, Started, EnvSame, envVars
  <2>. QED
    BY <1>1, <2>1, AllKnown DEF Still
<1>4. Busy("owner")' <=> Busy("owner")
  BY <1>3 DEF Still, Busy, Actors
<1>5. Busy("worker")' <=> Busy("worker")
  BY <1>3 DEF Still, Busy, Actors
<1>6. /\ m_eq' \in Seq({"packet", "heartbeat", "quit"})
      /\ \A i \in 1..Len(m_eq') : m_eq'[i] = "packet" \/ (i \in 1..Len(m_eq) /\ m_eq'[i] = m_eq[i])
  BY <1>1, <1>2, AllKnown, AppendProperties DEF Types
<1>7. ~Crashed' /\ Types' /\ NoteIsState'
  BY <1>1, <1>2, <1>3, <1>6, AllKnown
     DEF Crashed, NoteIsState, Types, Still, StateSame, ReaderSame, DriverSame
<1>8. ThreadKnown'
  BY <1>1, <1>2, <1>3, <1>4, <1>5, <1>6, AllKnown, Names DEF ThreadKnown, WorkerKnown,
     WorkerHandles, Busy, QuitHasWorker, Has, OwnerTasks, Reaching, WorkerTasks,
     OwnerOnly, NewKnown, StartsAlone, NotYetShutting, NotYetStarted, StartedOnce, Still,
     Actors, StateSame, ReaderSame, DriverSame
<1>9. StopKnown'
  BY <1>1, <1>2, <1>3, <1>4, <1>5, <1>6, AllKnown, Names DEF StopKnown, QuitThenJoin, Has,
     JoinKnown, Leaving, StopSteps, Reaching, StopSets, Setters, StopIsCalm, Calm,
     BeatJoined, DeleteKnown, Ending, OnlySoundBeats, Still, Actors, StateSame,
     ReaderSame, DriverSame
<1>10. StateKnown'
  BY <1>1, <1>2, <1>3, <1>4, <1>5, <1>6, AllKnown, Names DEF StateKnown, AssignsLegally,
     Actors, Made, UsedStates, Used, UsedAssigns, OnlineIsGentle, IsOnline, Gentle,
     ErrorIsLone, OfflineIsCalm, OnlyOnline, ClosesInError, Has, Reaching,
     ConnectingOpens, HasOpen, ErrorCloses, Still, StateSame, ReaderSame, DriverSame
<1>11. StartKnown'
  BY <1>1, <1>2, <1>3, <1>4, <1>5, <1>6, AllKnown, Names DEF StartKnown, StartSets, Made,
     StartConnects, Has, Reaching, StartOpens, HasOpen, StartWrites, StartSends,
     StartStates, InitSets, Setters, Still, Actors, StateSame, ReaderSame, DriverSame
<1>12. ReaderKnown'
  BY <1>1, <1>2, <1>3, <1>4, <1>5, <1>6, AllKnown, Names DEF ReaderKnown, AssignThenEnter,
     Actors, Made, Has, JoinThenDrop, UsedStartsNoReader, Used, IsOnline, SpawnKnown,
     StartReaderKnown, DropKnown, StopReaderKnown, KeepIsSpawned, StopIsDropped,
     ReaderRuns, OnlineReads, OfflineStops, DeafAtFirst, Still, StateSame, ReaderSame,
     DriverSame
<1>13. SocketKnown'
  BY <1>1, <1>2, <1>3, <1>4, <1>5, <1>6, AllKnown, Names DEF SocketKnown, OnlineIsOpen,
     IsOnline, OpenThenOnline, Reaching, ErrorIsClosed, Actors, Has, TellsState, Made,
     Still, StateSame, ReaderSame, DriverSame
<1>. QED
  BY <1>3, <1>7, <1>8, <1>9, <1>10, <1>11, <1>12, <1>13 DEF IInv, Known

(* The heartbeat's loop ends or tests the state, *)
LEMMA HeartbeatEndsKeeps ==
  ASSUME IInv, HeartbeatLoop, beat # "posting"
  PROVE  IInv'
<1>1. ~Crashed
  BY DEF HeartbeatLoop
<1>2. StateSame /\ ReaderSame
      /\ m_state' = m_state /\ m_thread' = m_thread /\ worker' = worker /\ m_socket' = m_socket
      /\ kind' = kind /\ m_keepHeartbeat' = m_keepHeartbeat /\ packets' = packets
      /\ m_eq' = m_eq /\ beats' = beats
      /\ \/ beat = "looping" /\ beat' = "done"
         \/ beat = "looping" /\ beat' = "posting" /\ beats < MaxBeats
  BY Same DEF HeartbeatLoop
<1>3. Still /\ InOrder'
  <2>1. Still
    BY StillIs DEF HeartbeatLoop, EnvSame, envVars
  <2>. QED
    BY <1>1, <2>1, AllKnown DEF Still
<1>4. Busy("owner")' <=> Busy("owner")
  BY <1>3 DEF Still, Busy, Actors
<1>5. Busy("worker")' <=> Busy("worker")
  BY <1>3 DEF Still, Busy, Actors
<1>6. ~Crashed' /\ Types' /\ NoteIsState'
  BY <1>1, <1>2, <1>3, AllKnown
     DEF Crashed, NoteIsState, Types, Still, StateSame, ReaderSame
<1>7. ThreadKnown'
  BY <1>1, <1>2, <1>3, <1>4, <1>5, AllKnown, Names DEF ThreadKnown, WorkerKnown,
     WorkerHandles, Busy, QuitHasWorker, Has, OwnerTasks, Reaching, WorkerTasks,
     OwnerOnly, NewKnown, StartsAlone, NotYetShutting, NotYetStarted, StartedOnce, Still,
     Actors, StateSame, ReaderSame
<1>8. StopKnown'
  BY <1>1, <1>2, <1>3, <1>4, <1>5, AllKnown, Names DEF StopKnown, QuitThenJoin, Has,
     JoinKnown, Leaving, StopSteps, Reaching, StopSets, Setters, StopIsCalm, Calm,
     BeatJoined, DeleteKnown, Ending, OnlySoundBeats, Still, Actors, StateSame, ReaderSame
<1>9. StateKnown'
  BY <1>1, <1>2, <1>3, <1>4, <1>5, AllKnown, Names DEF StateKnown, AssignsLegally, Actors,
     Made, UsedStates, Used, UsedAssigns, OnlineIsGentle, IsOnline, Gentle, ErrorIsLone,
     OfflineIsCalm, OnlyOnline, ClosesInError, Has, Reaching, ConnectingOpens, HasOpen,
     ErrorCloses, Still, StateSame, ReaderSame
<1>10. StartKnown'
  BY <1>1, <1>2, <1>3, <1>4, <1>5, AllKnown, Names DEF StartKnown, StartSets, Made,
     StartConnects, Has, Reaching, StartOpens, HasOpen, StartWrites, StartSends,
     StartStates, InitSets, Setters, Still, Actors, StateSame, ReaderSame
<1>11. ReaderKnown'
  BY <1>1, <1>2, <1>3, <1>4, <1>5, AllKnown, Names DEF ReaderKnown, AssignThenEnter,
     Actors, Made, Has, JoinThenDrop, UsedStartsNoReader, Used, IsOnline, SpawnKnown,
     StartReaderKnown, DropKnown, StopReaderKnown, KeepIsSpawned, StopIsDropped,
     ReaderRuns, OnlineReads, OfflineStops, DeafAtFirst, Still, StateSame, ReaderSame
<1>12. SocketKnown'
  BY <1>1, <1>2, <1>3, <1>4, <1>5, AllKnown, Names DEF SocketKnown, OnlineIsOpen,
     IsOnline, OpenThenOnline, Reaching, ErrorIsClosed, Actors, Has, TellsState, Made,
     Still, StateSame, ReaderSame
<1>. QED
  BY <1>3, <1>6, <1>7, <1>8, <1>9, <1>10, <1>11, <1>12 DEF IInv, Known

(* and posts. *)
LEMMA HeartbeatPostsKeeps ==
  ASSUME IInv, HeartbeatLoop, beat = "posting"
  PROVE  IInv'
<1>1. ~Crashed
  BY DEF HeartbeatLoop
<1>2. StateSame /\ ReaderSame
      /\ m_state' = m_state /\ m_thread' = m_thread /\ worker' = worker /\ m_socket' = m_socket
      /\ kind' = kind /\ m_keepHeartbeat' = m_keepHeartbeat /\ packets' = packets
      /\ m_eq' = Append(m_eq, "heartbeat") /\ beats' = beats + 1 /\ beat' = "looping"
  BY Same DEF HeartbeatLoop
<1>3. Still /\ InOrder'
  <2>1. Still
    BY StillIs DEF HeartbeatLoop, EnvSame, envVars
  <2>. QED
    BY <1>1, <2>1, AllKnown DEF Still
<1>4. Busy("owner")' <=> Busy("owner")
  BY <1>3 DEF Still, Busy, Actors
<1>5. Busy("worker")' <=> Busy("worker")
  BY <1>3 DEF Still, Busy, Actors
<1>6. /\ m_eq' \in Seq({"packet", "heartbeat", "quit"})
      /\ \A i \in 1..Len(m_eq') : m_eq'[i] = "heartbeat" \/ (i \in 1..Len(m_eq) /\ m_eq'[i] = m_eq[i])
  BY <1>1, <1>2, AllKnown, AppendProperties DEF Types
<1>7. ~Crashed' /\ Types' /\ NoteIsState'
  <2>1. beats' \in 0..MaxBeats
    BY <1>1, <1>2, AllKnown, DeviceAssumption DEF Types
  <2>. QED
    BY <1>1, <1>2, <1>3, <1>6, <2>1, AllKnown
       DEF Crashed, NoteIsState, Types, Still, StateSame, ReaderSame
<1>8. ThreadKnown'
  BY <1>1, <1>2, <1>3, <1>4, <1>5, <1>6, AllKnown, Names DEF ThreadKnown, WorkerKnown,
     WorkerHandles, Busy, QuitHasWorker, Has, OwnerTasks, Reaching, WorkerTasks,
     OwnerOnly, NewKnown, StartsAlone, NotYetShutting, NotYetStarted, StartedOnce, Still,
     Actors, StateSame, ReaderSame
<1>9. StopKnown'
  BY <1>1, <1>2, <1>3, <1>4, <1>5, <1>6, AllKnown, Names DEF StopKnown, QuitThenJoin, Has,
     JoinKnown, Leaving, StopSteps, Reaching, StopSets, Setters, StopIsCalm, Calm,
     BeatJoined, DeleteKnown, Ending, OnlySoundBeats, Still, Actors, StateSame, ReaderSame
<1>10. StateKnown'
  BY <1>1, <1>2, <1>3, <1>4, <1>5, <1>6, AllKnown, Names DEF StateKnown, AssignsLegally,
     Actors, Made, UsedStates, Used, UsedAssigns, OnlineIsGentle, IsOnline, Gentle,
     ErrorIsLone, OfflineIsCalm, OnlyOnline, ClosesInError, Has, Reaching,
     ConnectingOpens, HasOpen, ErrorCloses, Still, StateSame, ReaderSame
<1>11. StartKnown'
  BY <1>1, <1>2, <1>3, <1>4, <1>5, <1>6, AllKnown, Names DEF StartKnown, StartSets, Made,
     StartConnects, Has, Reaching, StartOpens, HasOpen, StartWrites, StartSends,
     StartStates, InitSets, Setters, Still, Actors, StateSame, ReaderSame
<1>12. ReaderKnown'
  BY <1>1, <1>2, <1>3, <1>4, <1>5, <1>6, AllKnown, Names DEF ReaderKnown, AssignThenEnter,
     Actors, Made, Has, JoinThenDrop, UsedStartsNoReader, Used, IsOnline, SpawnKnown,
     StartReaderKnown, DropKnown, StopReaderKnown, KeepIsSpawned, StopIsDropped,
     ReaderRuns, OnlineReads, OfflineStops, DeafAtFirst, Still, StateSame, ReaderSame
<1>13. SocketKnown'
  BY <1>1, <1>2, <1>3, <1>4, <1>5, <1>6, AllKnown, Names DEF SocketKnown, OnlineIsOpen,
     IsOnline, OpenThenOnline, Reaching, ErrorIsClosed, Actors, Has, TellsState, Made,
     Still, StateSame, ReaderSame
<1>. QED
  BY <1>3, <1>7, <1>8, <1>9, <1>10, <1>11, <1>12, <1>13 DEF IInv, Known

(* The worker takes the Quit event, *)
LEMMA PopQuitKeeps ==
  ASSUME IInv, WorkerPop, Head(m_eq) = "quit"
  PROVE  IInv'
<1>1. ~Crashed
  BY DEF WorkerPop
<1>2. StateSame /\ ReaderSame /\ DriverSame /\ EnvSame
      /\ m_socket' = m_socket /\ m_state' = m_state /\ m_thread' = m_thread
      /\ worker = "popping" /\ m_eq # <<>> /\ m_eq' = Tail(m_eq) /\ worker' = "leaving"
  BY Same DEF WorkerPop, DriverSame, EnvSame
<1>3. Still /\ InOrder'
  <2>1. Still
    BY StillIs DEF WorkerPop, EnvSame, envVars
  <2>. QED
    BY <1>1, <2>1, AllKnown DEF Still
<1>4. Busy("owner")' <=> Busy("owner")
  BY <1>3 DEF Still, Busy, Actors
<1>5. Busy("worker")' <=> Busy("worker")
  BY <1>3 DEF Still, Busy, Actors
<1>6. /\ m_eq' \in Seq({"packet", "heartbeat", "quit"})
      /\ \A i \in 1..Len(m_eq') : \E j \in 1..Len(m_eq) : m_eq'[i] = m_eq[j]
  <2>1. m_eq \in Seq({"packet", "heartbeat", "quit"})
    BY <1>1, AllKnown DEF Types
  <2>2. Len(m_eq') = Len(m_eq) - 1 /\ \A i \in 1..Len(m_eq') : m_eq'[i] = m_eq[i + 1]
    BY <1>2, <2>1, HeadTailProperties
  <2>3. Len(m_eq) \in Nat
    BY <2>1, LenProperties
  <2>. QED
    BY <1>2, <2>1, <2>2, <2>3, HeadTailProperties
<1>7. ~Crashed' /\ Types' /\ NoteIsState'
  BY <1>1, <1>2, <1>3, <1>6, AllKnown
     DEF Crashed, NoteIsState, Types, Still, StateSame, ReaderSame, DriverSame, EnvSame
<1>8. ThreadKnown'
  BY <1>1, <1>2, <1>3, <1>4, <1>5, <1>6, AllKnown, Names DEF ThreadKnown, WorkerKnown,
     WorkerHandles, Busy, QuitHasWorker, Has, OwnerTasks, Reaching, WorkerTasks,
     OwnerOnly, NewKnown, StartsAlone, NotYetShutting, NotYetStarted, StartedOnce, Still,
     Actors, StateSame, ReaderSame, DriverSame, EnvSame
<1>9. StopKnown'
  BY <1>1, <1>2, <1>3, <1>4, <1>5, <1>6, AllKnown, Names DEF StopKnown, QuitThenJoin, Has,
     JoinKnown, Leaving, StopSteps, Reaching, StopSets, Setters, StopIsCalm, Calm,
     BeatJoined, DeleteKnown, Ending, OnlySoundBeats, Still, Actors, StateSame,
     ReaderSame, DriverSame, EnvSame
<1>10. StateKnown'
  BY <1>1, <1>2, <1>3, <1>4, <1>5, <1>6, AllKnown, Names DEF StateKnown, AssignsLegally,
     Actors, Made, UsedStates, Used, UsedAssigns, OnlineIsGentle, IsOnline, Gentle,
     ErrorIsLone, OfflineIsCalm, OnlyOnline, ClosesInError, Has, Reaching,
     ConnectingOpens, HasOpen, ErrorCloses, Still, StateSame, ReaderSame, DriverSame,
     EnvSame
<1>11. StartKnown'
  BY <1>1, <1>2, <1>3, <1>4, <1>5, <1>6, AllKnown, Names DEF StartKnown, StartSets, Made,
     StartConnects, Has, Reaching, StartOpens, HasOpen, StartWrites, StartSends,
     StartStates, InitSets, Setters, Still, Actors, StateSame, ReaderSame, DriverSame,
     EnvSame
<1>12. ReaderKnown'
  BY <1>1, <1>2, <1>3, <1>4, <1>5, <1>6, AllKnown, Names DEF ReaderKnown, AssignThenEnter,
     Actors, Made, Has, JoinThenDrop, UsedStartsNoReader, Used, IsOnline, SpawnKnown,
     StartReaderKnown, DropKnown, StopReaderKnown, KeepIsSpawned, StopIsDropped,
     ReaderRuns, OnlineReads, OfflineStops, DeafAtFirst, Still, StateSame, ReaderSame,
     DriverSame, EnvSame
<1>13. SocketKnown'
  BY <1>1, <1>2, <1>3, <1>4, <1>5, <1>6, AllKnown, Names DEF SocketKnown, OnlineIsOpen,
     IsOnline, OpenThenOnline, Reaching, ErrorIsClosed, Actors, Has, TellsState, Made,
     Still, StateSame, ReaderSame, DriverSame, EnvSame
<1>. QED
  BY <1>3, <1>7, <1>8, <1>9, <1>10, <1>11, <1>12, <1>13 DEF IInv, Known

(* or something to do. *)
LEMMA PopWorkKeeps ==
  ASSUME IInv, WorkerPop, Head(m_eq) # "quit"
  PROVE  IInv'
<1>. DEFINE h == Head(m_eq)
<1>1. ~Crashed /\ worker = "popping" /\ m_eq # <<>> /\ m_eq \in Seq({"packet", "heartbeat", "quit"})
  BY AllKnown DEF WorkerPop, Types
<1>2. /\ StateSame /\ ReaderSame /\ DriverSame /\ EnvSame /\ m_socket' = m_socket
      /\ m_state' = m_state /\ m_thread' = m_thread
      /\ m_eq' = Tail(m_eq) /\ worker' = "handling"
      /\ todo' = [todo EXCEPT !["worker"] = <<T(h)>>]
  BY Same DEF WorkerPop, Do, T
<1>3. h \in {"packet", "heartbeat"} /\ (h = "heartbeat" => kind = "sound")
  <2>1. h = m_eq[1] /\ 1 \in 1..Len(m_eq) /\ h \in {"packet", "heartbeat", "quit"}
    BY <1>1, LenProperties, EmptySeq, ElementOfSeq
  <2>. QED
    BY <1>1, <2>1, AllKnown DEF OnlySoundBeats
<1>4. T(h) \in Tasks
  BY <1>3 DEF Tasks, Plain, Steps
<1>. HIDE DEF h
<1>5. /\ m_eq' \in Seq({"packet", "heartbeat", "quit"})
      /\ \A i \in 1..Len(m_eq') : \E j \in 1..Len(m_eq) : m_eq'[i] = m_eq[j]
  <2>1. Len(m_eq') = Len(m_eq) - 1 /\ \A i \in 1..Len(m_eq') : m_eq'[i] = m_eq[i + 1]
    BY <1>1, <1>2, HeadTailProperties
  <2>2. Len(m_eq) \in Nat
    BY <1>1, LenProperties
  <2>. QED
    BY <1>1, <1>2, <2>1, <2>2, HeadTailProperties
<1>6. /\ todo' \in [Actors -> Seq(Tasks)] /\ todo'["owner"] = todo["owner"]
      /\ Pending("worker")' = {T(h)} /\ Rest("worker")' = {}
      /\ \A x : At("worker", x)' <=> x = T(h)
      /\ ~Live("worker")'
  <2>1. todo'["worker"] = <<T(h)>> /\ todo'["owner"] = todo["owner"] /\ todo' \in [Actors -> Seq(Tasks)]
    BY <1>1, <1>2, <1>4, OneTask, AllKnown DEF Types, Actors
  <2>2. /\ todo'["worker"] # <<>> /\ Head(todo'["worker"]) = T(h) /\ Items(todo'["worker"]) = {T(h)}
        /\ Tail(todo'["worker"]) = <<>>
    BY <1>4, <2>1, OneTask
  <2>3. Items(<<>>) = {}
    BY NoTask
  <2>. QED
    BY <1>3, <2>1, <2>2, <2>3, Names DEF Pending, Rest, At, Busy, Live, Setters
<1>7. /\ Pending("owner")' = Pending("owner") /\ Rest("owner")' = Rest("owner")
      /\ Live("owner")' <=> Live("owner")
      /\ Busy("owner")' <=> Busy("owner")
      /\ \A x : At("owner", x)' <=> At("owner", x)
  BY <1>6 DEF Pending, Rest, Live, At, Busy
<1>8. /\ ~Busy("worker") /\ Pending("worker") = {} /\ ~Live("worker") /\ \A x : ~At("worker", x)
      /\ InUse /\ InUse' /\ ~Starting /\ ~Starting' /\ phase \in {"start", "stop"} /\ m_thread
      /\ Busy("owner") => phase = "stop"
      /\ phase = "stop" => Has("owner", "stop") \/ Has("owner", "join")
      /\ Busy("owner") /\ kind # "ptz" => Pending("owner") \subseteq Calm \cup Leaving
  <2>1. ~Busy("worker") /\ m_thread /\ ~Starting
    BY <1>1, AllKnown DEF WorkerHandles, WorkerKnown, StartsAlone
  <2>2. phase \in {"start", "stop"}
    BY <1>1, <2>1, AllKnown DEF Starting, DeleteKnown, Crashed, Types
  <2>3. InUse /\ (InUse' <=> InUse) /\ (Starting' <=> Starting)
    BY <1>2, <1>7, <2>1, <2>2 DEF InUse, Starting, EnvSame
  <2>4. phase = "stop" => Has("owner", "stop") \/ Has("owner", "join")
    BY <1>1, AllKnown DEF StopSteps
  <2>5. Busy("owner") => phase = "stop"
    BY <2>3 DEF InUse
  <2>. QED
    BY <1>1, <2>1, <2>2, <2>3, <2>4, <2>5, AllKnown DEF Busy, Live, At, StopIsCalm, JoinKnown
<1>9. InOrder' /\ Rest("owner") \subseteq Pending("owner")
  <2>2. todo'["worker"] = <<T(h)>>
    BY <1>1, <1>2, AllKnown DEF Types, Actors
  <2>3. \A R : Sorted(todo'["worker"], R)
    BY <1>4, <2>2, OneTask
  <2>4. Sorted(todo["owner"], Rests("owner"))' <=> Sorted(todo["owner"], Rests("owner"))
    BY <1>2, <1>6 DEF Sorted, Rests, EnvSame
  <2>5. Sorted(todo["worker"], Rests("worker"))'
    BY <2>3
  <2>6. phase # "delete" => Sorted(todo["owner"], Rests("owner"))
    BY <1>1, AllKnown DEF InOrder, Actors
  <2>7. InOrder'
    BY <1>2, <2>4, <2>5, <2>6 DEF InOrder, Actors, EnvSame
  <2>. QED
    BY <1>1, <2>7, AllKnown, BusyIs DEF Actors
<1>10. ~Crashed' /\ Types' /\ NoteIsState'
  BY <1>1, <1>2, <1>5, <1>6, AllKnown
     DEF Crashed, NoteIsState, Types, StateSame, ReaderSame, DriverSame, EnvSame
<1>11. ThreadKnown'
  BY <1>1, <1>2, <1>3, <1>5, <1>6, <1>7, <1>8, <1>9, AllKnown, Names DEF ThreadKnown,
     WorkerKnown, WorkerHandles, Busy, QuitHasWorker, Has, OwnerTasks, Reaching,
     WorkerTasks, OwnerOnly, NewKnown, StartsAlone, NotYetShutting, NotYetStarted,
     StartedOnce, Actors, StateSame, ReaderSame, DriverSame, EnvSame, Setters
<1>12. StopKnown'
  BY <1>1, <1>2, <1>3, <1>5, <1>6, <1>7, <1>8, <1>9, AllKnown, Names DEF StopKnown,
     QuitThenJoin, Has, JoinKnown, Leaving, StopSteps, Reaching, StopSets, Setters,
     StopIsCalm, Calm, BeatJoined, DeleteKnown, Ending, OnlySoundBeats, Actors, StateSame,
     ReaderSame, DriverSame, EnvSame
<1>13. StateKnown'
  BY <1>1, <1>2, <1>3, <1>5, <1>6, <1>7, <1>8, <1>9, AllKnown, Names DEF StateKnown,
     AssignsLegally, Actors, Made, UsedStates, Used, UsedAssigns, OnlineIsGentle,
     IsOnline, Gentle, ErrorIsLone, OfflineIsCalm, OnlyOnline, ClosesInError, Has,
     Reaching, ConnectingOpens, HasOpen, ErrorCloses, StateSame, ReaderSame, DriverSame,
     EnvSame, Setters
<1>14. StartKnown'
  BY <1>1, <1>2, <1>3, <1>5, <1>6, <1>7, <1>8, <1>9, AllKnown, Names DEF StartKnown,
     StartSets, Made, StartConnects, Has, Reaching, StartOpens, HasOpen, StartWrites,
     StartSends, StartStates, InitSets, Setters, Actors, StateSame, ReaderSame,
     DriverSame, EnvSame
<1>15. ReaderKnown'
  BY <1>1, <1>2, <1>3, <1>5, <1>6, <1>7, <1>8, <1>9, AllKnown, Names DEF ReaderKnown,
     AssignThenEnter, Actors, Made, Has, JoinThenDrop, UsedStartsNoReader, Used, IsOnline,
     SpawnKnown, StartReaderKnown, DropKnown, StopReaderKnown, KeepIsSpawned,
     StopIsDropped, ReaderRuns, OnlineReads, OfflineStops, DeafAtFirst, StateSame,
     ReaderSame, DriverSame, EnvSame, Setters
<1>16. SocketKnown'
  BY <1>1, <1>2, <1>3, <1>5, <1>6, <1>7, <1>8, <1>9, AllKnown, Names DEF SocketKnown,
     OnlineIsOpen, IsOnline, OpenThenOnline, Reaching, ErrorIsClosed, Actors, Has,
     TellsState, Made, StateSame, ReaderSame, DriverSame, EnvSame, Setters
<1>. QED
  BY <1>9, <1>10, <1>11, <1>12, <1>13, <1>14, <1>15, <1>16 DEF IInv, Known

-----------------------------------------------------------------------------
(* The owner's calls                                                       *)

(* The owner calls Init, *)
LEMMA CallInitKeeps ==
  ASSUME IInv, todo["owner"] = <<>>, phase = "new", phase' = "init",
         todo' = [todo EXCEPT !["owner"] = InitTasks],
         UNCHANGED <<stateVars, readerVars, m_socket, threadVars, driverVars, packets, beats>>
  PROVE  IInv'
<1>1. ~Crashed /\ kind \in Kinds /\ ~Busy("owner") /\ Pending("owner") = {}
  <2>1. ~Crashed
    BY DEF Crashed
  <2>. QED
    BY <2>1, AllKnown, BusyIs DEF Types, Actors, Busy
<1>2. /\ StateSame /\ ReaderSame /\ ThreadSame /\ DriverSame
      /\ m_socket' = m_socket /\ packets' = packets /\ beats' = beats
  BY Same
<1>3. PICK f, R : Begun(f, R) /\ f = Setting("initialized")
              /\ (kind = "light" => R = {T("connect")}) /\ (kind # "light" => R = {})
  <2>1. PICK f, R : Lists(InitTasks, f, R) /\ f = Setting("initialized")
              /\ (kind = "light" => R = {T("connect")}) /\ (kind # "light" => R = {})
    BY <1>1, InitLists
  <2>2. PICK Q : Q = Rests("owner")'
    OBVIOUS
  <2>3. Sorted(InitTasks, Q)
    BY <1>1, <2>2, InitLists DEF Rests, Inner
  <2>4. Begun(f, R)
    BY <1>1, <2>1, <2>2, <2>3, Begins
  <2>. QED
    BY <2>1, <2>4
<1>4. ~Crashed' /\ Types' /\ NoteIsState' /\ InOrder'
  BY <1>1, <1>2, <1>3, AllKnown
     DEF Begun, Crashed, NoteIsState, Types, StateSame, ReaderSame, ThreadSame, DriverSame
<1>5. /\ Starting /\ Starting' /\ ~InUse /\ ~InUse' /\ ~Busy("worker")
      /\ Live("owner")'
  <2>1. Starting /\ Starting' /\ ~InUse /\ ~InUse'
    BY DEF Starting, InUse
  <2>. QED
    BY <1>1, <1>3, <2>1, AllKnown, Names DEF Begun, Setters, StartsAlone
<1>6. m_devState = "unknown" /\ (kind # "light" => \A x \in Pending("owner")' : Of(x) = "initialized")
  BY <1>1, <1>3, AllKnown, Names DEF Begun, NewKnown
<1>7. StartSets'
  BY <1>2, <1>3, <1>6, Names, ValidIs DEF Begun, StartSets, StateSame
<1>8. InitSets'
  BY <1>2, <1>3, <1>6 DEF Begun, InitSets, StateSame, DriverSame
<1>9. ThreadKnown'
  BY <1>1, <1>2, <1>3, <1>5, AllKnown, Names DEF ThreadKnown, WorkerKnown, WorkerHandles,
     Busy, QuitHasWorker, Has, OwnerTasks, Reaching, WorkerTasks, OwnerOnly, NewKnown,
     StartsAlone, NotYetShutting, NotYetStarted, StartedOnce, Begun, Setters, Actors,
     StateSame, ReaderSame, ThreadSame, DriverSame
<1>10. StopKnown'
  BY <1>1, <1>2, <1>3, <1>5, AllKnown, Names DEF StopKnown, QuitThenJoin, Has, JoinKnown,
     Leaving, StopSteps, Reaching, StopSets, Setters, StopIsCalm, Calm, BeatJoined,
     DeleteKnown, Ending, OnlySoundBeats, Begun, Actors, StateSame, ReaderSame,
     ThreadSame, DriverSame
<1>11. StateKnown'
  BY <1>1, <1>2, <1>3, <1>5, AllKnown, Names DEF StateKnown, AssignsLegally, Actors, Made,
     UsedStates, Used, UsedAssigns, OnlineIsGentle, IsOnline, Gentle, ErrorIsLone,
     OfflineIsCalm, OnlyOnline, ClosesInError, Has, Reaching, ConnectingOpens, HasOpen,
     ErrorCloses, Begun, Setters, StateSame, ReaderSame, ThreadSame, DriverSame
<1>12. StartKnown'
  BY <1>1, <1>2, <1>3, <1>5, AllKnown, Names, <1>7, <1>8 DEF StartKnown, StartConnects,
     Has, Reaching, StartOpens, HasOpen, StartWrites, StartSends, Made, StartStates,
     Begun, Setters, Actors, StateSame, ReaderSame, ThreadSame, DriverSame
<1>13. ReaderKnown'
  BY <1>1, <1>2, <1>3, <1>5, AllKnown, Names DEF ReaderKnown, AssignThenEnter, Actors,
     Made, Has, JoinThenDrop, UsedStartsNoReader, Used, IsOnline, SpawnKnown,
     StartReaderKnown, DropKnown, StopReaderKnown, KeepIsSpawned, StopIsDropped,
     ReaderRuns, OnlineReads, OfflineStops, DeafAtFirst, Begun, Setters, StateSame,
     ReaderSame, ThreadSame, DriverSame
<1>14. SocketKnown'
  BY <1>1, <1>2, <1>3, <1>5, AllKnown, Names DEF SocketKnown, OnlineIsOpen, IsOnline,
     OpenThenOnline, Reaching, ErrorIsClosed, Actors, Has, TellsState, Made, Begun,
     Setters, StateSame, ReaderSame, ThreadSame, DriverSame
<1>. QED
  BY <1>4, <1>9, <1>10, <1>11, <1>12, <1>13, <1>14 DEF IInv, Known

(* Start, *)
LEMMA CallStartKeeps ==
  ASSUME IInv, todo["owner"] = <<>>, phase = "init", phase' = "start",
         todo' = [todo EXCEPT !["owner"] = StartTasks],
         UNCHANGED <<stateVars, readerVars, m_socket, threadVars, driverVars, packets, beats>>
  PROVE  IInv'
<1>1. ~Crashed /\ kind \in Kinds /\ ~Busy("owner") /\ Pending("owner") = {}
  <2>1. ~Crashed
    BY DEF Crashed
  <2>. QED
    BY <2>1, AllKnown, BusyIs DEF Types, Actors, Busy
<1>2. /\ StateSame /\ ReaderSame /\ ThreadSame /\ DriverSame
      /\ m_socket' = m_socket /\ packets' = packets /\ beats' = beats
  BY Same
<1>3. PICK f, R : Begun(f, R) /\ T("start") \in {f} \cup R
              /\ {f} \cup R \subseteq StartOuter \cup {T("connect")} /\ R \subseteq StartOuter
              /\ (f # T("connect") => f = T("start") /\ kind \notin {"ptz", "sound"} /\ R = {})
              /\ (kind \notin {"ptz", "sound"} => f = T("start"))
              /\ (T("startHeartbeat") \in R => kind = "sound")
              /\ (T("send") \in R => kind = "ptz")
              /\ (T("startReader") \in R => kind = "ptz" /\ T("send") \in R)
  <2>1. PICK f, R : Lists(StartTasks, f, R) /\ T("start") \in {f} \cup R
              /\ {f} \cup R \subseteq StartOuter \cup {T("connect")} /\ R \subseteq StartOuter
              /\ (f # T("connect") => f = T("start") /\ kind \notin {"ptz", "sound"} /\ R = {})
              /\ (kind \notin {"ptz", "sound"} => f = T("start"))
              /\ (T("startHeartbeat") \in R => kind = "sound")
              /\ (T("send") \in R => kind = "ptz")
              /\ (T("startReader") \in R => kind = "ptz" /\ T("send") \in R)
    BY <1>1, StartLists, Names DEF StartOuter
  <2>2. PICK Q : Q = Rests("owner")'
    OBVIOUS
  <2>3. Sorted(StartTasks, Q)
    BY <1>1, <2>2, StartLists DEF Rests, Inner
  <2>4. Begun(f, R)
    BY <1>1, <2>1, <2>2, <2>3, Begins
  <2>. QED
    BY <2>1, <2>4
<1>4. ~Crashed' /\ Types' /\ NoteIsState' /\ InOrder'
  BY <1>1, <1>2, <1>3, AllKnown
     DEF Begun, Crashed, NoteIsState, Types, StateSame, ReaderSame, ThreadSame, DriverSame
<1>5. /\ Starting /\ Starting' /\ ~InUse /\ ~InUse' /\ ~Busy("worker")
      /\ m_devState \notin {"unknown", "connecting"} /\ (kind # "light" => m_devState = "initialized")
  <2>1. Starting /\ ~InUse
    BY DEF Starting, InUse
  <2>2. Starting' /\ ~InUse'
    BY <1>3 DEF Begun, Starting, InUse
  <2>3. m_devState \notin {"unknown", "connecting"}
    BY <1>1, <1>3, <2>1, AllKnown DEF Begun, StartStates, Reaching
  <2>. QED
    BY <1>1, <2>1, <2>2, <2>3, AllKnown DEF StartsAlone, InitSets
<1>6. ThreadKnown'
  BY <1>1, <1>2, <1>3, <1>5, AllKnown, Names DEF ThreadKnown, WorkerKnown, WorkerHandles,
     Busy, QuitHasWorker, Has, OwnerTasks, Reaching, WorkerTasks, OwnerOnly, NewKnown,
     StartsAlone, NotYetShutting, NotYetStarted, StartedOnce, Begun, Setters, Actors,
     StateSame, ReaderSame, ThreadSame, DriverSame, StartOuter
<1>7. StopKnown'
  BY <1>1, <1>2, <1>3, <1>5, AllKnown, Names DEF StopKnown, QuitThenJoin, Has, JoinKnown,
     Leaving, StopSteps, Reaching, StopSets, Setters, StopIsCalm, Calm, BeatJoined,
     DeleteKnown, Ending, OnlySoundBeats, Begun, Actors, StateSame, ReaderSame,
     ThreadSame, DriverSame, StartOuter
<1>8. StateKnown'
  BY <1>1, <1>2, <1>3, <1>5, AllKnown, Names DEF StateKnown, AssignsLegally, Actors, Made,
     UsedStates, Used, UsedAssigns, OnlineIsGentle, IsOnline, Gentle, ErrorIsLone,
     OfflineIsCalm, OnlyOnline, ClosesInError, Has, Reaching, ConnectingOpens, HasOpen,
     ErrorCloses, Begun, Setters, StateSame, ReaderSame, ThreadSame, DriverSame,
     StartOuter
<1>9. StartKnown'
  BY <1>1, <1>2, <1>3, <1>5, AllKnown, Names DEF StartKnown, StartSets, Made,
     StartConnects, Has, Reaching, StartOpens, HasOpen, StartWrites, StartSends,
     StartStates, InitSets, Setters, Begun, Actors, StateSame, ReaderSame, ThreadSame,
     DriverSame, StartOuter
<1>10. ReaderKnown'
  BY <1>1, <1>2, <1>3, <1>5, AllKnown, Names DEF ReaderKnown, AssignThenEnter, Actors,
     Made, Has, JoinThenDrop, UsedStartsNoReader, Used, IsOnline, SpawnKnown,
     StartReaderKnown, DropKnown, StopReaderKnown, KeepIsSpawned, StopIsDropped,
     ReaderRuns, OnlineReads, OfflineStops, DeafAtFirst, Begun, Setters, StateSame,
     ReaderSame, ThreadSame, DriverSame, StartOuter
<1>11. SocketKnown'
  BY <1>1, <1>2, <1>3, <1>5, AllKnown, Names DEF SocketKnown, OnlineIsOpen, IsOnline,
     OpenThenOnline, Reaching, ErrorIsClosed, Actors, Has, TellsState, Made, Begun,
     Setters, StateSame, ReaderSame, ThreadSame, DriverSame, StartOuter
<1>. QED
  BY <1>4, <1>6, <1>7, <1>8, <1>9, <1>10, <1>11 DEF IInv, Known

(* Stop, *)
LEMMA CallStopKeeps ==
  ASSUME IInv, todo["owner"] = <<>>, phase = "start", phase' = "stop",
         todo' = [todo EXCEPT !["owner"] = StopTasks],
         UNCHANGED <<stateVars, readerVars, m_socket, threadVars, driverVars, packets, beats>>
  PROVE  IInv'
<1>1. ~Crashed /\ kind \in Kinds /\ ~Busy("owner") /\ Pending("owner") = {}
  <2>1. ~Crashed
    BY DEF Crashed
  <2>. QED
    BY <2>1, AllKnown, BusyIs DEF Types, Actors, Busy
<1>2. /\ StateSame /\ ReaderSame /\ ThreadSame /\ DriverSame
      /\ m_socket' = m_socket /\ packets' = packets /\ beats' = beats
  BY Same
<1>3. PICK f, R : Begun(f, R) /\ T("stop") \in {f} \cup R
              /\ {f} \cup R \subseteq {T("report"), T("stopHeartbeat")} \cup StopOuter
                   /\ R \subseteq StopOuter
              /\ (kind # "ptz" => {f} \cup R \subseteq Calm)
              /\ (T("report") \in {f} \cup R => kind = "ptz")
              /\ (T("stopHeartbeat") \in {f} \cup R => kind = "sound")
              /\ (T("joinHeartbeat") \in {f} \cup R <=> kind = "sound")
              /\ (T("close") \in {f} \cup R => kind = "sound")
  <2>1. PICK f, R : Lists(StopTasks, f, R) /\ T("stop") \in {f} \cup R
              /\ {f} \cup R \subseteq {T("report"), T("stopHeartbeat")} \cup StopOuter
                   /\ R \subseteq StopOuter
              /\ (kind # "ptz" => {f} \cup R \subseteq Calm)
              /\ (T("report") \in {f} \cup R => kind = "ptz")
              /\ (T("stopHeartbeat") \in {f} \cup R => kind = "sound")
              /\ (T("joinHeartbeat") \in {f} \cup R <=> kind = "sound")
              /\ (T("close") \in {f} \cup R => kind = "sound")
    BY <1>1, StopLists, Names DEF StopOuter, StopEnd, Calm
  <2>2. PICK Q : Q = Rests("owner")'
    OBVIOUS
  <2>3. Sorted(StopTasks, Q)
    BY <1>1, <2>2, StopLists DEF Rests, Inner
  <2>4. Begun(f, R)
    BY <1>1, <2>1, <2>2, <2>3, Begins
  <2>. QED
    BY <2>1, <2>4
<1>4. ~Crashed' /\ Types' /\ NoteIsState' /\ InOrder'
  BY <1>1, <1>2, <1>3, AllKnown
     DEF Begun, Crashed, NoteIsState, Types, StateSame, ReaderSame, ThreadSame, DriverSame
<1>5. ~Starting /\ ~Starting' /\ InUse /\ InUse' /\ ~Live("owner")'
      /\ m_thread /\ ~m_shuttingDown /\ (kind # "sound" => beat = "none")
  <2>1. ~Starting /\ ~Starting' /\ InUse /\ InUse'
    BY <1>1 DEF Starting, InUse
  <2>. QED
    BY <1>1, <1>3, <2>1, AllKnown, Names
       DEF Begun, Setters, StopOuter, StopEnd, StartedOnce, NotYetShutting, OnlySoundBeats, Has
<1>6. /\ \A s : T(s) \in {f} \cup R
           => s \in {"report", "stopReader", "stopHeartbeat", "joinHeartbeat", "close", "stop"}
      /\ \A s : /\ Setting(s) \notin {f} \cup R /\ Assigning(s) \notin {f} \cup R
                /\ Telling(s) \notin {f} \cup R /\ Opening(s) \notin {f} \cup R
  <2>1. \A x \in {f} \cup R :
          x \in {T("report"), T("stopReader"), T("stopHeartbeat"), T("joinHeartbeat"), T("close"), T("stop")}
    BY <1>3 DEF StopOuter, StopEnd
  <2>2. \A x \in {f} \cup R :
          Name(x) \in {"report", "stopReader", "stopHeartbeat", "joinHeartbeat", "close", "stop"}
    BY <2>1, Names
  <2>3. \A s : T(s) \in {f} \cup R => Name(T(s)) = s
    BY Names
  <2>. QED
    BY <2>2, <2>3, Names
<1>7. ThreadKnown'
  BY <1>1, <1>2, <1>3, <1>5, <1>6, AllKnown, Names DEF ThreadKnown, WorkerKnown,
     WorkerHandles, Busy, QuitHasWorker, Has, OwnerTasks, Reaching, WorkerTasks,
     OwnerOnly, NewKnown, StartsAlone, NotYetShutting, NotYetStarted, StartedOnce, Begun,
     Setters, Actors, StateSame, ReaderSame, ThreadSame, DriverSame, StopOuter, StopEnd
<1>8. StopKnown'
  BY <1>1, <1>2, <1>3, <1>5, <1>6, AllKnown, Names DEF StopKnown, QuitThenJoin, Has,
     JoinKnown, Leaving, StopSteps, Reaching, StopSets, Setters, StopIsCalm, Calm,
     BeatJoined, DeleteKnown, Ending, OnlySoundBeats, Begun, Actors, StateSame,
     ReaderSame, ThreadSame, DriverSame, StopOuter, StopEnd
<1>9. StateKnown'
  BY <1>1, <1>2, <1>3, <1>5, <1>6, AllKnown, Names DEF StateKnown, AssignsLegally, Actors,
     Made, UsedStates, Used, UsedAssigns, OnlineIsGentle, IsOnline, Gentle, ErrorIsLone,
     OfflineIsCalm, OnlyOnline, ClosesInError, Has, Reaching, ConnectingOpens, HasOpen,
     ErrorCloses, Begun, Setters, StateSame, ReaderSame, ThreadSame, DriverSame,
     StopOuter, StopEnd
<1>10. StartKnown'
  BY <1>1, <1>2, <1>3, <1>5, <1>6, AllKnown, Names DEF StartKnown, StartSets, Made,
     StartConnects, Has, Reaching, StartOpens, HasOpen, StartWrites, StartSends,
     StartStates, InitSets, Setters, Begun, Actors, StateSame, ReaderSame, ThreadSame,
     DriverSame, StopOuter, StopEnd
<1>11. ReaderKnown'
  BY <1>1, <1>2, <1>3, <1>5, <1>6, AllKnown, Names DEF ReaderKnown, AssignThenEnter,
     Actors, Made, Has, JoinThenDrop, UsedStartsNoReader, Used, IsOnline, SpawnKnown,
     StartReaderKnown, DropKnown, StopReaderKnown, KeepIsSpawned, StopIsDropped,
     ReaderRuns, OnlineReads, OfflineStops, DeafAtFirst, Begun, Setters, StateSame,
     ReaderSame, ThreadSame, DriverSame, StopOuter, StopEnd
<1>12. SocketKnown'
  BY <1>1, <1>2, <1>3, <1>5, <1>6, AllKnown, Names DEF SocketKnown, OnlineIsOpen,
     IsOnline, OpenThenOnline, Reaching, ErrorIsClosed, Actors, Has, TellsState, Made,
     Begun, Setters, StateSame, ReaderSame, ThreadSame, DriverSame, StopOuter, StopEnd
<1>. QED
  BY <1>4, <1>7, <1>8, <1>9, <1>10, <1>11, <1>12 DEF IInv, Known

(* delete, *)
LEMMA CallDeleteKeeps ==
  ASSUME IInv, todo["owner"] = <<>>, phase = "stop", phase' = "delete",
         todo' = [todo EXCEPT !["owner"] = DeleteTasks],
         UNCHANGED <<stateVars, readerVars, m_socket, threadVars, driverVars, packets, beats>>
  PROVE  IInv'
<1>1. ~Crashed /\ kind \in Kinds /\ ~Busy("owner") /\ Pending("owner") = {}
  <2>1. ~Crashed
    BY DEF Crashed
  <2>. QED
    BY <2>1, AllKnown, BusyIs DEF Types, Actors, Busy
<1>2. /\ StateSame /\ ReaderSame /\ ThreadSame /\ DriverSame
      /\ m_socket' = m_socket /\ packets' = packets /\ beats' = beats
  BY Same
<1>3. PICK f, R : Begun(f, R) /\ {f} \cup R \subseteq Ending
              /\ (kind # "sound" => T("stopHeartbeat") \notin {f} \cup R
                   /\ T("joinHeartbeat") \notin {f} \cup R)
  <2>1. PICK f, R : Lists(DeleteTasks, f, R) /\ {f} \cup R \subseteq Ending
              /\ (kind # "sound" => T("stopHeartbeat") \notin {f} \cup R
                   /\ T("joinHeartbeat") \notin {f} \cup R)
    BY <1>1, DeleteLists
  <2>2. Begun(f, R)
    BY <1>1, <2>1, Begins
  <2>. QED
    BY <2>1, <2>2
<1>4. ~Crashed' /\ Types' /\ NoteIsState' /\ InOrder'
  BY <1>1, <1>2, <1>3, AllKnown
     DEF Begun, Crashed, NoteIsState, Types, StateSame, ReaderSame, ThreadSame, DriverSame
<1>5. /\ ~Starting /\ ~Starting' /\ InUse /\ ~InUse' /\ ~Busy("worker")
           /\ Pending("worker") = {} /\ ~Live("owner")'
      /\ \A x : ~At("worker", x)
      /\ worker = "done" /\ ~m_thread /\ m_devState = "offline" /\ m_shuttingDown
      /\ ~m_readThread /\ ~m_keepReading /\ reader \in {"none", "done"} /\ beat \in {"none", "done"}
  <2>1. ~Starting /\ ~Starting' /\ InUse /\ ~InUse'
    BY <1>1 DEF Starting, InUse
  <2>2. worker = "done" /\ ~m_thread /\ m_devState = "offline" /\ m_shuttingDown
    BY <1>1, AllKnown DEF StopSteps, Has, Reaching
  <2>3. ~Busy("worker") /\ Pending("worker") = {}
    BY <1>1, <2>2, AllKnown DEF WorkerHandles, Busy
  <2>4. ~m_keepReading
    BY <1>1, <2>2, <2>3, AllKnown DEF OfflineStops, Has, IsOnline, Actors
  <2>5. ~m_readThread
    BY <1>1, <2>3, <2>4, AllKnown DEF StopIsDropped, Has
  <2>6. reader \in {"none", "done"} /\ beat \in {"none", "done"}
    BY <1>1, <2>5, AllKnown DEF ReaderRuns, BeatJoined, Has
  <2>7. ~Live("owner")'
    BY <1>3, Names DEF Begun, Ending, Setters
  <2>. QED
    BY <2>1, <2>2, <2>3, <2>4, <2>5, <2>6, <2>7 DEF At
<1>6. /\ \A s : T(s) \in {f} \cup R
           => s \in {"stopHeartbeat", "joinHeartbeat", "close", "stop", "endThread"}
      /\ \A s : /\ Setting(s) \notin {f} \cup R /\ Assigning(s) \notin {f} \cup R
                /\ Telling(s) \notin {f} \cup R /\ Opening(s) \notin {f} \cup R
  <2>1. \A x \in {f} \cup R : x \in Ending
    BY <1>3
  <2>. QED
    BY <2>1, Names DEF Ending
<1>7. ThreadKnown'
  BY <1>1, <1>2, <1>3, <1>5, <1>6, AllKnown, Names DEF ThreadKnown, WorkerKnown,
     WorkerHandles, Busy, QuitHasWorker, Has, OwnerTasks, Reaching, WorkerTasks,
     OwnerOnly, NewKnown, StartsAlone, NotYetShutting, NotYetStarted, StartedOnce, Begun,
     Setters, Actors, StateSame, ReaderSame, ThreadSame, DriverSame
<1>8. StopKnown'
  BY <1>1, <1>2, <1>3, <1>5, <1>6, AllKnown, Names DEF StopKnown, QuitThenJoin, Has,
     JoinKnown, Leaving, StopSteps, Reaching, StopSets, Setters, StopIsCalm, Calm,
     BeatJoined, DeleteKnown, Ending, OnlySoundBeats, Begun, Actors, StateSame,
     ReaderSame, ThreadSame, DriverSame
<1>9. StateKnown'
  BY <1>1, <1>2, <1>3, <1>5, <1>6, AllKnown, Names DEF StateKnown, AssignsLegally, Actors,
     Made, UsedStates, Used, UsedAssigns, OnlineIsGentle, IsOnline, Gentle, ErrorIsLone,
     OfflineIsCalm, OnlyOnline, ClosesInError, Has, Reaching, ConnectingOpens, HasOpen,
     ErrorCloses, Begun, Setters, StateSame, ReaderSame, ThreadSame, DriverSame
<1>10. StartKnown'
  BY <1>1, <1>2, <1>3, <1>5, <1>6, AllKnown, Names DEF StartKnown, StartSets, Made,
     StartConnects, Has, Reaching, StartOpens, HasOpen, StartWrites, StartSends,
     StartStates, InitSets, Setters, Begun, Actors, StateSame, ReaderSame, ThreadSame,
     DriverSame
<1>11. ReaderKnown'
  BY <1>1, <1>2, <1>3, <1>5, <1>6, AllKnown, Names DEF ReaderKnown, AssignThenEnter,
     Actors, Made, Has, JoinThenDrop, UsedStartsNoReader, Used, IsOnline, SpawnKnown,
     StartReaderKnown, DropKnown, StopReaderKnown, KeepIsSpawned, StopIsDropped,
     ReaderRuns, OnlineReads, OfflineStops, DeafAtFirst, Begun, Setters, StateSame,
     ReaderSame, ThreadSame, DriverSame
<1>12. SocketKnown'
  BY <1>1, <1>2, <1>3, <1>5, <1>6, AllKnown, Names DEF SocketKnown, OnlineIsOpen,
     IsOnline, OpenThenOnline, Reaching, ErrorIsClosed, Actors, Has, TellsState, Made,
     Begun, Setters, StateSame, ReaderSame, ThreadSame, DriverSame
<1>. QED
  BY <1>4, <1>7, <1>8, <1>9, <1>10, <1>11, <1>12 DEF IInv, Known

(* or deletes a device that Init rejected. *)
LEMMA CallDeleteNewKeeps ==
  ASSUME IInv, todo["owner"] = <<>>, phase = "new", phase' = "delete",
         todo' = [todo EXCEPT !["owner"] = DeleteTasks],
         UNCHANGED <<stateVars, readerVars, m_socket, threadVars, driverVars, packets, beats>>
  PROVE  IInv'
<1>1. ~Crashed /\ kind \in Kinds /\ ~Busy("owner") /\ Pending("owner") = {}
  <2>1. ~Crashed
    BY DEF Crashed
  <2>. QED
    BY <2>1, AllKnown, BusyIs DEF Types, Actors, Busy
<1>2. /\ StateSame /\ ReaderSame /\ ThreadSame /\ DriverSame
      /\ m_socket' = m_socket /\ packets' = packets /\ beats' = beats
  BY Same
<1>3. PICK f, R : Begun(f, R) /\ {f} \cup R \subseteq Ending
              /\ (kind # "sound" => T("stopHeartbeat") \notin {f} \cup R
                   /\ T("joinHeartbeat") \notin {f} \cup R)
  <2>1. PICK f, R : Lists(DeleteTasks, f, R) /\ {f} \cup R \subseteq Ending
              /\ (kind # "sound" => T("stopHeartbeat") \notin {f} \cup R
                   /\ T("joinHeartbeat") \notin {f} \cup R)
    BY <1>1, DeleteLists
  <2>2. Begun(f, R)
    BY <1>1, <2>1, Begins
  <2>. QED
    BY <2>1, <2>2
<1>4. ~Crashed' /\ Types' /\ NoteIsState' /\ InOrder'
  BY <1>1, <1>2, <1>3, AllKnown
     DEF Begun, Crashed, NoteIsState, Types, StateSame, ReaderSame, ThreadSame, DriverSame
<1>5. /\ Starting /\ ~Starting' /\ ~InUse /\ ~InUse' /\ ~Busy("worker")
           /\ Pending("worker") = {} /\ ~Live("owner")'
      /\ \A x : ~At("worker", x)
      /\ worker = "none" /\ m_devState = "unknown" /\ reader = "none" /\ beat = "none"
           /\ ~m_readThread /\ ~m_keepReading
  <2>1. Starting /\ ~Starting' /\ ~InUse /\ ~InUse'
    BY DEF Starting, InUse
  <2>2. ~Live("owner")'
    BY <1>3, Names DEF Begun, Ending, Setters
  <2>. QED
    BY <1>1, <2>1, <2>2, AllKnown DEF StartsAlone, NotYetStarted, NewKnown, Busy, At
<1>6. /\ \A s : T(s) \in {f} \cup R
           => s \in {"stopHeartbeat", "joinHeartbeat", "close", "stop", "endThread"}
      /\ \A s : /\ Setting(s) \notin {f} \cup R /\ Assigning(s) \notin {f} \cup R
                /\ Telling(s) \notin {f} \cup R /\ Opening(s) \notin {f} \cup R
  <2>1. \A x \in {f} \cup R : x \in Ending
    BY <1>3
  <2>. QED
    BY <2>1, Names DEF Ending
<1>7. ThreadKnown'
  BY <1>1, <1>2, <1>3, <1>5, <1>6, AllKnown, Names DEF ThreadKnown, WorkerKnown,
     WorkerHandles, Busy, QuitHasWorker, Has, OwnerTasks, Reaching, WorkerTasks,
     OwnerOnly, NewKnown, StartsAlone, NotYetShutting, NotYetStarted, StartedOnce, Begun,
     Setters, Actors, StateSame, ReaderSame, ThreadSame, DriverSame
<1>8. StopKnown'
  BY <1>1, <1>2, <1>3, <1>5, <1>6, AllKnown, Names DEF StopKnown, QuitThenJoin, Has,
     JoinKnown, Leaving, StopSteps, Reaching, StopSets, Setters, StopIsCalm, Calm,
     BeatJoined, DeleteKnown, Ending, OnlySoundBeats, Begun, Actors, StateSame,
     ReaderSame, ThreadSame, DriverSame
<1>9. StateKnown'
  BY <1>1, <1>2, <1>3, <1>5, <1>6, AllKnown, Names DEF StateKnown, AssignsLegally, Actors,
     Made, UsedStates, Used, UsedAssigns, OnlineIsGentle, IsOnline, Gentle, ErrorIsLone,
     OfflineIsCalm, OnlyOnline, ClosesInError, Has, Reaching, ConnectingOpens, HasOpen,
     ErrorCloses, Begun, Setters, StateSame, ReaderSame, ThreadSame, DriverSame
<1>10. StartKnown'
  BY <1>1, <1>2, <1>3, <1>5, <1>6, AllKnown, Names DEF StartKnown, StartSets, Made,
     StartConnects, Has, Reaching, StartOpens, HasOpen, StartWrites, StartSends,
     StartStates, InitSets, Setters, Begun, Actors, StateSame, ReaderSame, ThreadSame,
     DriverSame
<1>11. ReaderKnown'
  BY <1>1, <1>2, <1>3, <1>5, <1>6, AllKnown, Names DEF ReaderKnown, AssignThenEnter,
     Actors, Made, Has, JoinThenDrop, UsedStartsNoReader, Used, IsOnline, SpawnKnown,
     StartReaderKnown, DropKnown, StopReaderKnown, KeepIsSpawned, StopIsDropped,
     ReaderRuns, OnlineReads, OfflineStops, DeafAtFirst, Begun, Setters, StateSame,
     ReaderSame, ThreadSame, DriverSame
<1>12. SocketKnown'
  BY <1>1, <1>2, <1>3, <1>5, <1>6, AllKnown, Names DEF SocketKnown, OnlineIsOpen,
     IsOnline, OpenThenOnline, Reaching, ErrorIsClosed, Actors, Has, TellsState, Made,
     Begun, Setters, StateSame, ReaderSame, ThreadSame, DriverSame
<1>. QED
  BY <1>4, <1>7, <1>8, <1>9, <1>10, <1>11, <1>12 DEF IInv, Known

(* A step of something else. *)
LEMMA StutterKeeps ==
  ASSUME IInv, ~Crashed, UNCHANGED vars
  PROVE  IInv'
<1>1. ~Crashed
  OBVIOUS
<1>2. StateSame /\ ReaderSame /\ ThreadSame /\ DriverSame /\ EnvSame
      /\ m_socket' = m_socket
  BY Same DEF vars, DriverSame, EnvSame
<1>3. Still /\ InOrder'
  <2>1. Still
    BY StillIs DEF vars, EnvSame, envVars
  <2>. QED
    BY <1>1, <2>1, AllKnown DEF Still
<1>4. Busy("owner")' <=> Busy("owner")
  BY <1>3 DEF Still, Busy, Actors
<1>5. Busy("worker")' <=> Busy("worker")
  BY <1>3 DEF Still, Busy, Actors
<1>6. ~Crashed' /\ Types' /\ NoteIsState'
  BY <1>1, <1>2, <1>3, AllKnown
     DEF Crashed, NoteIsState, Types, Still, StateSame, ReaderSame, ThreadSame, DriverSame, EnvSame
<1>7. ThreadKnown'
  BY <1>1, <1>2, <1>3, <1>4, <1>5, AllKnown, Names DEF ThreadKnown, WorkerKnown,
     WorkerHandles, Busy, QuitHasWorker, Has, OwnerTasks, Reaching, WorkerTasks,
     OwnerOnly, NewKnown, StartsAlone, NotYetShutting, NotYetStarted, StartedOnce, Still,
     Actors, StateSame, ReaderSame, ThreadSame, DriverSame, EnvSame
<1>8. StopKnown'
  BY <1>1, <1>2, <1>3, <1>4, <1>5, AllKnown, Names DEF StopKnown, QuitThenJoin, Has,
     JoinKnown, Leaving, StopSteps, Reaching, StopSets, Setters, StopIsCalm, Calm,
     BeatJoined, DeleteKnown, Ending, OnlySoundBeats, Still, Actors, StateSame,
     ReaderSame, ThreadSame, DriverSame, EnvSame
<1>9. StateKnown'
  BY <1>1, <1>2, <1>3, <1>4, <1>5, AllKnown, Names DEF StateKnown, AssignsLegally, Actors,
     Made, UsedStates, Used, UsedAssigns, OnlineIsGentle, IsOnline, Gentle, ErrorIsLone,
     OfflineIsCalm, OnlyOnline, ClosesInError, Has, Reaching, ConnectingOpens, HasOpen,
     ErrorCloses, Still, StateSame, ReaderSame, ThreadSame, DriverSame, EnvSame
<1>10. StartKnown'
  BY <1>1, <1>2, <1>3, <1>4, <1>5, AllKnown, Names DEF StartKnown, StartSets, Made,
     StartConnects, Has, Reaching, StartOpens, HasOpen, StartWrites, StartSends,
     StartStates, InitSets, Setters, Still, Actors, StateSame, ReaderSame, ThreadSame,
     DriverSame, EnvSame
<1>11. ReaderKnown'
  BY <1>1, <1>2, <1>3, <1>4, <1>5, AllKnown, Names DEF ReaderKnown, AssignThenEnter,
     Actors, Made, Has, JoinThenDrop, UsedStartsNoReader, Used, IsOnline, SpawnKnown,
     StartReaderKnown, DropKnown, StopReaderKnown, KeepIsSpawned, StopIsDropped,
     ReaderRuns, OnlineReads, OfflineStops, DeafAtFirst, Still, StateSame, ReaderSame,
     ThreadSame, DriverSame, EnvSame
<1>12. SocketKnown'
  BY <1>1, <1>2, <1>3, <1>4, <1>5, AllKnown, Names DEF SocketKnown, OnlineIsOpen,
     IsOnline, OpenThenOnline, Reaching, ErrorIsClosed, Actors, Has, TellsState, Made,
     Still, StateSame, ReaderSame, ThreadSame, DriverSame, EnvSame
<1>. QED
  BY <1>3, <1>6, <1>7, <1>8, <1>9, <1>10, <1>11, <1>12 DEF IInv, Known

(* The invariant holds at first. *)
LEMMA InitKeeps ==
  ASSUME Init
  PROVE  IInv
<1>1. /\ ~Crashed /\ todo = [t \in Actors |-> <<>>]
      /\ Starting /\ ~InUse
  BY DEF Init, Crashed, Starting, InUse
<1>2. \A t \in Actors : Pending(t) = {} /\ Rest(t) = {} /\ ~Busy(t) /\ ~Live(t) /\ \A x : ~At(t, x)
  <2>1. \A t \in Actors : Pending(t) = {}
    BY <1>1, NoTask DEF Pending
  <2>. QED
    BY <1>1, <2>1 DEF Rest, Busy, Live, At
<1>3. Types /\ NoteIsState
  <2>1. todo \in [Actors -> Seq(Tasks)]
    BY <1>1, NoTask
  <2>2. note \in [said : DevStates, state : DevStates] /\ note.said = note.state
    BY DEF Init, DevStates
  <2>3. m_eq \in Seq({"packet", "heartbeat", "quit"}) /\ packets \in 0..MaxPackets
          /\ beats \in 0..MaxBeats
    BY EmptySeq, DeviceAssumption DEF Init
  <2>4. kind \in Kinds /\ m_devState \in DevStates \ {"working"} /\ beat # "posting"
    BY DEF Init, DevStates
  <2>. QED
    BY <2>1, <2>2, <2>3, <2>4 DEF Init, Types, NoteIsState
<1>4. InOrder
  BY <1>1, NoTask DEF InOrder
<1>5. ThreadKnown
  BY <1>1, <1>2, Names DEF ThreadKnown, WorkerKnown, WorkerHandles, Busy, QuitHasWorker,
     Has, OwnerTasks, Reaching, WorkerTasks, OwnerOnly, NewKnown, StartsAlone,
     NotYetShutting, NotYetStarted, StartedOnce, Init, Actors, Setters
<1>6. StopKnown
  BY <1>1, <1>2, Names DEF StopKnown, QuitThenJoin, Has, JoinKnown, Leaving, StopSteps,
     Reaching, StopSets, Setters, StopIsCalm, Calm, BeatJoined, DeleteKnown, Ending,
     OnlySoundBeats, Init, Actors, Setters
<1>7. StateKnown
  BY <1>1, <1>2, Names DEF StateKnown, AssignsLegally, Actors, Made, UsedStates, Used,
     UsedAssigns, OnlineIsGentle, IsOnline, Gentle, ErrorIsLone, OfflineIsCalm,
     OnlyOnline, ClosesInError, Has, Reaching, ConnectingOpens, HasOpen, ErrorCloses,
     Init, Actors, Setters
<1>8. StartKnown
  BY <1>1, <1>2, Names DEF StartKnown, StartSets, Made, StartConnects, Has, Reaching,
     StartOpens, HasOpen, StartWrites, StartSends, StartStates, InitSets, Setters, Init,
     Actors, Setters
<1>9. ReaderKnown
  BY <1>1, <1>2, Names DEF ReaderKnown, AssignThenEnter, Actors, Made, Has, JoinThenDrop,
     UsedStartsNoReader, Used, IsOnline, SpawnKnown, StartReaderKnown, DropKnown,
     StopReaderKnown, KeepIsSpawned, StopIsDropped, ReaderRuns, OnlineReads, OfflineStops,
     DeafAtFirst, Init, Actors, Setters
<1>10. SocketKnown
  BY <1>1, <1>2, Names DEF SocketKnown, OnlineIsOpen, IsOnline, OpenThenOnline, Reaching,
     ErrorIsClosed, Actors, Has, TellsState, Made, Init, Actors, Setters
<1>. QED
  BY <1>1, <1>3, <1>4, <1>5, <1>6, <1>7, <1>8, <1>9, <1>10 DEF IInv, Known

-----------------------------------------------------------------------------
(* Every step                                                              *)

(* What both threads do keeps the invariant, *)
LEMMA BodyKeeps ==
  ASSUME IInv, NEW t \in Actors, Body(t)
  PROVE  IInv'
<1>1. CASE SetState(t)
  BY <1>1, SetPopsKeeps, SetBeginsKeeps
<1>2. CASE OnStateEnter(t)
  BY <1>2, EnterOnlineKeeps, EnterOfflineKeeps, EnterOtherKeeps
<1>3. CASE StartReader(t)
  BY <1>3, StartReaderAgainKeeps, StartReaderKeeps
<1>4. CASE StopReader(t)
  BY <1>4, StopReaderKeeps, StopReaderJoinsKeeps
<1>5. CASE JoinReader(t)
  BY <1>5, JoinReaderKeeps, JoinReaderCrashes
<1>6. CASE Connect(t)
  <2>1. Step(t) \in {"connect", "send"}
    BY <1>6 DEF Connect
  <2>. QED
    BY <1>6, <2>1, ConnectAgainKeeps, SendAgainKeeps, ConnectKeeps, SendKeeps
<1>7. CASE Open(t)
  <2>1. Step(t) = "open" /\ m_socket' \in {"open", "closed"}
    BY <1>7 DEF Open
  <2>2. Arg(t) \in {"connect", "send"}
    BY <2>1, AtStep, ByName DEF IInv, Steps
  <2>. QED
    BY <1>7, <2>1, <2>2, OpenConnectsKeeps, OpenSendsKeeps, OpenFailsKeeps
<1>8. CASE Write(t)
  <2>1. \/ m_socket = "open" /\ GoOn(t, <<>>)
        \/ GoOn(t, SetTo("error") \o Do("close"))
    BY <1>8 DEF Write
  <2>. QED
    BY <1>8, <2>1, WriteKeeps, WriteFailsKeeps
<1>. QED
  BY <1>1, <1>2, <1>3, <1>4, <1>5, <1>6, <1>7, <1>8, AssignKeeps, TellKeeps, SpawnReaderKeeps,
     DropReaderKeeps, CloseKeeps DEF Body

(* what the owner does, *)
LEMMA OwnerKeeps ==
  ASSUME IInv, OwnerStep
  PROVE  IInv'
<1>1. CASE Body("owner")
  BY <1>1, BodyKeeps DEF Actors
<1>2. CASE BaseStop
  <2>1. ~Crashed /\ (Has("owner", "stop") \/ Has("owner", "endThread"))
    <3>1. Step("owner") \in {"stop", "endThread"}
      BY <1>2 DEF BaseStop
    <3>2. ~Crashed /\ todo["owner"] # <<>> /\ Head(todo["owner"]) \in {T("stop"), T("endThread")}
      BY <3>1, AtStep, ByName DEF IInv, Steps, Actors
    <3>. QED
      BY <3>2, AllKnown, BusyIs DEF Has, Actors
  <2>2. phase \in {"stop", "delete"}
    BY <2>1, AllKnown DEF OwnerTasks
  <2>. QED
    BY <1>2, <2>2, BaseStopKeeps, BaseStopEndsKeeps
<1>3. CASE QuitTest
  BY <1>3, QuitTestKeeps, QuitTestPostsKeeps
<1>4. CASE StopReport
  BY <1>4, StopReportKeeps, StopReportSkipsKeeps
<1>5. CASE StopHeartbeat
  <2>1. Step("owner") \in {"stopHeartbeat", "joinHeartbeat"}
    BY <1>5 DEF StopHeartbeat
  <2>. QED
    BY <1>5, <2>1, StopHeartbeatKeeps, JoinHeartbeatKeeps
<1>. QED
  BY <1>1, <1>2, <1>3, <1>4, <1>5, ThreadStartKeeps, QuitPostKeeps, QuitMarkKeeps, JoinKeeps,
     StartHeartbeatKeeps DEF OwnerStep

(* what the worker does, *)
LEMMA WorkerKeeps ==
  ASSUME IInv, WorkerStep
  PROVE  IInv'
<1>1. CASE Body("worker")
  BY <1>1, BodyKeeps DEF Actors
<1>2. CASE WorkerPop
  BY <1>2, PopQuitKeeps, PopWorkKeeps
<1>3. CASE Dispatch
  <2>1. \/ GoOn("worker", Do("send")) /\ (Step("worker") = "packet" => IsOnline)
        \/ GoOn("worker", <<>>) /\ Step("worker") = "packet"
    BY <1>3 DEF Dispatch
  <2>. QED
    BY <1>3, <2>1, DispatchSendsKeeps, DispatchDropsKeeps
<1>. QED
  BY <1>1, <1>2, <1>3, WorkerLoopKeeps DEF WorkerStep

(* and the call of the next operation. *)
LEMMA CallKeeps ==
  ASSUME IInv, Call
  PROVE  IInv'
<1>1. /\ todo["owner"] = <<>>
      /\ UNCHANGED <<stateVars, readerVars, m_socket, threadVars, driverVars, packets, beats>>
      /\ \/ phase = "new" /\ phase' = "init" /\ todo' = [todo EXCEPT !["owner"] = InitTasks]
         \/ phase = "new" /\ phase' = "delete" /\ todo' = [todo EXCEPT !["owner"] = DeleteTasks]
         \/ phase = "init" /\ phase' = "start" /\ todo' = [todo EXCEPT !["owner"] = StartTasks]
         \/ phase = "start" /\ phase' = "stop" /\ todo' = [todo EXCEPT !["owner"] = StopTasks]
         \/ phase = "stop" /\ phase' = "delete" /\ todo' = [todo EXCEPT !["owner"] = DeleteTasks]
  <2>. DEFINE a == InitTasks
              b == StartTasks
              c == StopTasks
              d == DeleteTasks
              Begin(step) == /\ phase = step[1] /\ phase' = step[2]
                             /\ todo' = [todo EXCEPT !["owner"] = step[3]]
  <2>1. \E step \in {<<"new", "init", a>>, <<"new", "delete", d>>, <<"init", "start", b>>,
                     <<"start", "stop", c>>, <<"stop", "delete", d>>} : Begin(step)
    BY DEF Call
  <2>2. /\ todo["owner"] = <<>>
        /\ UNCHANGED <<stateVars, readerVars, m_socket, threadVars, driverVars, packets, beats>>
    BY DEF Call
  <2>. HIDE DEF a, b, c, d, Begin
  <2>4. \/ Begin(<<"new", "init", a>>) \/ Begin(<<"new", "delete", d>>) \/ Begin(<<"init", "start", b>>)
        \/ Begin(<<"start", "stop", c>>) \/ Begin(<<"stop", "delete", d>>)
    BY <2>1
  <2>3. \/ phase = "new" /\ phase' = "init" /\ todo' = [todo EXCEPT !["owner"] = a]
        \/ phase = "new" /\ phase' = "delete" /\ todo' = [todo EXCEPT !["owner"] = d]
        \/ phase = "init" /\ phase' = "start" /\ todo' = [todo EXCEPT !["owner"] = b]
        \/ phase = "start" /\ phase' = "stop" /\ todo' = [todo EXCEPT !["owner"] = c]
        \/ phase = "stop" /\ phase' = "delete" /\ todo' = [todo EXCEPT !["owner"] = d]
    BY <2>4 DEF Begin
  <2>. QED
    BY <2>2, <2>3 DEF a, b, c, d
<1>. QED
  BY <1>1, CallInitKeeps, CallStartKeeps, CallStopKeeps, CallDeleteKeeps, CallDeleteNewKeeps

(* Nobody takes a step in a program that has crashed. *)
LEMMA CrashedStops ==
  ASSUME Crashed, Next
  PROVE  FALSE
<1>1. \A t : Step(t) = "none"
  BY DEF Step
<1>2. \A t : ~Body(t)
  BY <1>1 DEF Body, SetState, Assign, OnStateEnter, TellState, StartReader, SpawnReader,
     StopReader,
              JoinReader, DropReader, Connect, Open, Write, Close
<1>3. ~OwnerStep
  BY <1>1, <1>2 DEF OwnerStep, ThreadStart, BaseStop, QuitTest, QuitPost, QuitMark, Join,
     StopReport,
                    StartHeartbeat, StopHeartbeat
<1>4. ~WorkerStep
  BY <1>1, <1>2 DEF WorkerStep, WorkerLoop, WorkerPop, Dispatch
<1>5. ~Call /\ ~SetStatusCallback /\ ~ExecutePacket
  BY DEF Call, SetStatusCallback, ExecutePacket, Started, Crashed
<1>. QED
  BY <1>3, <1>4, <1>5 DEF Next, ReadLoop, HeartbeatLoop

(* Every step keeps the invariant. *)
LEMMA StepKeeps ==
  ASSUME IInv, [Next]_vars
  PROVE  IInv'
<1>1. CASE Crashed
  <2>1. UNCHANGED vars
    BY <1>1, CrashedStops
  <2>2. phase' = phase /\ todo' = todo /\ \A t \in Actors : Busy(t)' <=> Busy(t)
    BY <2>1 DEF vars, envVars, Busy, Pending
  <2>3. Types' /\ NoteIsState'
    BY <2>1 DEF vars, stateVars, readerVars, threadVars, driverVars, envVars, IInv, Types,
       NoteIsState
  <2>. QED
    BY <1>1, <2>2, <2>3 DEF IInv, Crashed
<1>2. CASE ~Crashed
  <2>1. CASE UNCHANGED vars
    BY <1>2, <2>1, StutterKeeps
  <2>2. CASE HeartbeatLoop
    BY <2>2, HeartbeatEndsKeeps, HeartbeatPostsKeeps
  <2>. QED
    BY <2>1, <2>2, OwnerKeeps, WorkerKeeps, ReadLoopKeeps, CallKeeps, SetStatusCallbackKeeps,
       ExecutePacketKeeps DEF Next
<1>. QED
  BY <1>1, <1>2

(* The invariant of a device of any kind, with any number of packets and
   heartbeats. *)
THEOREM DeviceInvariant == Safety => []IInv
<1>1. IInv /\ [Next]_vars => IInv'
  BY StepKeeps
<1>. QED
  BY <1>1, InitKeeps, PTL DEF Safety

-----------------------------------------------------------------------------
(* What it says                                                            *)

(* The tasks are steps with arguments. *)
LEMMA TaskTypes == Tasks \subseteq Steps \X Args
<1>1. \A s \in Steps, r \in Args : <<s, r>> \in Steps \X Args
  OBVIOUS
<1>2. /\ Plain \subseteq Steps /\ {"open", "set", "assign", "tell"} \subseteq Steps
      /\ Made \subseteq Args /\ {"", "connect", "send"} \subseteq Args
  BY DEF Plain, Steps, Made, Args
<1>3. /\ \A s \in Plain : T(s) \in Steps \X Args
      /\ \A s \in {"connect", "send"} : Opening(s) \in Steps \X Args
      /\ \A s \in Made : /\ Setting(s) \in Steps \X Args /\ Assigning(s) \in Steps \X Args
                         /\ Telling(s) \in Steps \X Args
  BY <1>1, <1>2 DEF T, Opening, Setting, Assigning, Telling
<1>. QED
  BY <1>3 DEF Tasks

(* The variables keep their types, and a thread that sets, assigns or tells
   is handed a state. *)
THEOREM DeviceTypes == Safety => []TypeOK
<1>1. IInv => TypeOK
  <2>1. SUFFICES ASSUME IInv
                 PROVE  TypeOK
    OBVIOUS
  <2>2. Types
    BY <2>1 DEF IInv
  <2>3. todo \in [Actors -> Seq(Steps \X Args)]
    <3>1. \A s \in Seq(Tasks) : s \in Seq(Steps \X Args)
      BY TaskTypes
    <3>. QED
      BY <2>2, <3>1 DEF Types
  <2>4. ASSUME NEW t \in Actors, Step(t) \in {"set", "assign", "tell"}
        PROVE  Arg(t) \in DevStates
    BY <2>2, <2>4, AtStep, ByName DEF Steps, Made
  <2>. QED
    BY <2>2, <2>3, <2>4 DEF Types, TypeOK
<1>. QED
  BY <1>1, DeviceInvariant, PTL

(* After Stop (DeviceBase::Stop and the drivers') the device is OFFLINE and
   neither its worker, nor its reader, nor its heartbeat is left, whatever
   the worker was doing when Stop came: so delete pulls nothing from under
   a thread. *)
THEOREM NothingOutlives == Safety => []NothingOutlivesStop
<1>1. IInv => NothingOutlivesStop
  <2>1. SUFFICES ASSUME IInv, ~Crashed,
                        (phase = "stop" /\ todo["owner"] = <<>>) \/ (phase = "delete"
                          /\ m_state # "uninit")
                 PROVE  /\ m_devState = "offline"
                        /\ worker = "done" /\ ~m_thread
                        /\ reader \in {"none", "done"} /\ ~m_readThread
                        /\ beat \in {"none", "done"}
    BY DEF NothingOutlivesStop, Crashed
  <2>2. CASE phase = "delete"
    BY <2>1, <2>2, AllKnown DEF DeleteKnown, WorkerKnown
  <2>3. CASE phase = "stop" /\ todo["owner"] = <<>>
    <3>1. Pending("owner") = {}
      BY <2>1, <2>3, AllKnown, BusyIs DEF Busy, Actors
    <3>2. worker = "done" /\ ~m_thread /\ m_devState = "offline"
      BY <2>1, <2>3, <3>1, AllKnown DEF StopSteps, Has, Reaching
    <3>3. Pending("worker") = {}
      BY <2>1, <3>2, AllKnown DEF WorkerHandles, Busy
    <3>4. ~m_keepReading
      BY <2>1, <2>3, <3>1, <3>2, <3>3, AllKnown DEF OfflineStops, Has, IsOnline, Actors
    <3>5. ~m_readThread
      BY <2>1, <3>1, <3>3, <3>4, AllKnown DEF StopIsDropped, Has
    <3>. QED
      BY <2>1, <2>3, <3>1, <3>2, <3>5, AllKnown DEF ReaderRuns, BeatJoined, Has
  <2>. QED
    BY <2>1, <2>2, <2>3
<1>. QED
  BY <1>1, DeviceInvariant, PTL

(* The status callback of a light or an ultrasonic is told the state the
   device is in at that moment, whichever thread calls SetState. *)
THEOREM NoteMatches == Safety => []NoteMatchesState
<1>1. IInv => NoteMatchesState
  BY DEF IInv, NoteIsState, NoteMatchesState
<1>. QED
  BY <1>1, DeviceInvariant, PTL

(* Between calls the reader runs exactly while the device is online, and
   (loudspeaker aside) an online device has an open socket and one in error
   has not. *)
THEOREM ResourcesFollow == Safety => []ResourcesFollowState
<1>1. IInv => (Quiet => ReaderFollowsState /\ (kind # "sound" =>
                            /\ IsOnline => m_socket = "open"
                            /\ m_devState = "error" => m_socket # "open"))
  <2>1. SUFFICES ASSUME IInv, Quiet
                 PROVE  ReaderFollowsState /\ (kind # "sound" =>
                            /\ IsOnline => m_socket = "open"
                            /\ m_devState = "error" => m_socket # "open")
    OBVIOUS
  <2>2. ~Crashed
    <3>1. \A t \in Actors : ~Busy(t)
      BY <2>1, BusyIs DEF IInv, Quiet
    <3>. QED
      BY <2>1, <3>1 DEF IInv
  <2>3. \A t \in Actors : Pending(t) = {} /\ ~Busy(t) /\ ~Live(t)
    BY <2>1, <2>2, AllKnown, BusyIs DEF Quiet, Busy, Live
  <2>4. phase \in {"stop", "delete"} => ~IsOnline /\ m_devState # "error"
    BY <2>1, <2>2, <2>3, AllKnown DEF StopSteps, DeleteKnown, Has, Reaching, IsOnline, Actors
  <2>5. m_keepReading => IsOnline
    BY <2>1, <2>2, <2>3, AllKnown DEF OfflineStops, Has, Actors
  <2>6. IsOnline => m_keepReading
    BY <2>1, <2>2, <2>3, <2>4, AllKnown DEF OnlineReads, Has
  <2>7. m_readThread <=> m_keepReading
    BY <2>1, <2>2, <2>3, AllKnown DEF KeepIsSpawned, StopIsDropped, Has, Actors
  <2>8. reader \in {"looping", "reading"} <=> m_readThread
    BY <2>1, <2>2, <2>7, AllKnown DEF ReaderRuns
  <2>9. kind # "sound" /\ IsOnline => m_socket = "open"
    BY <2>1, <2>2, <2>4, AllKnown DEF OnlineIsOpen, NotYetShutting, Types, Crashed
  <2>10. kind # "sound" /\ m_devState = "error" => m_socket # "open"
    BY <2>1, <2>2, <2>3, <2>4, AllKnown DEF ErrorIsClosed, Has
  <2>. QED
    BY <2>1, <2>5, <2>6, <2>7, <2>8, <2>9, <2>10 DEF ReaderFollowsState
<1>2. TypeOK /\ IInv => ResourcesFollowState
  BY <1>1 DEF ResourcesFollowState, SocketFollowsState, ReaderFollowsState
<1>. QED
  BY <1>2, DeviceTypes, DeviceInvariant, PTL

(* m_devState moves only along IsValidStateTransition, though SetState
   tests the transition and assigns the state in two steps and two threads
   call it. *)
THEOREM LegalMoves == Safety => LegalTransitions
<1>1. IInv /\ [Next]_vars => [(<<m_devState, m_devState'>> \in Transitions)]_vars
  <2>1. SUFFICES ASSUME IInv, Next, m_devState' # m_devState
                 PROVE  Valid(m_devState, m_devState')
    <3>1. IInv => m_devState \in DevStates
      BY DEF IInv, Types
    <3>2. \A s \in DevStates : Valid(s, s)
      BY ValidIs
    <3>. QED
      BY <2>1, <3>1, <3>2 DEF Valid
  <2>2. ~Crashed
    BY <2>1, CrashedStops
  <2>3. PICK t \in Actors : Assign(t)
    <3>1. ASSUME NEW t \in Actors, Body(t), ~Assign(t)
          PROVE  m_devState' = m_devState
      BY <3>1 DEF Body, SetState, OnStateEnter, TellState, StartReader, SpawnReader, StopReader,
                  JoinReader, DropReader, Connect, Open, Write, Close, stateVars
    <3>2. ASSUME OwnerStep, ~Body("owner")
          PROVE  m_devState' = m_devState
      BY <3>2 DEF OwnerStep, ThreadStart, BaseStop, QuitTest, QuitPost, QuitMark, Join,
         StopReport,
                  StartHeartbeat, StopHeartbeat, stateVars
    <3>3. ASSUME WorkerStep, ~Body("worker")
          PROVE  m_devState' = m_devState
      BY <3>3 DEF WorkerStep, WorkerLoop, WorkerPop, Dispatch, stateVars
    <3>4. ReadLoop \/ HeartbeatLoop \/ Call \/ SetStatusCallback \/ ExecutePacket =>
            m_devState' = m_devState
      BY DEF ReadLoop, HeartbeatLoop, Call, SetStatusCallback, ExecutePacket, stateVars
    <3>. QED
      BY <2>1, <3>1, <3>2, <3>3, <3>4 DEF Next, Actors
  <2>4. Step(t) = "assign" /\ m_devState' = Arg(t)
    BY <2>3 DEF Assign
  <2>5. /\ Head(todo[t]) = Assigning(Arg(t)) /\ Arg(t) \in Made /\ Busy(t)
    BY <2>1, <2>4, AtStep, ByName, BusyIs DEF IInv, Steps
  <2>. QED
    BY <2>1, <2>2, <2>4, <2>5, AllKnown DEF AssignsLegally, At
<1>. QED
  BY <1>1, DeviceInvariant, PTL DEF Safety, LegalTransitions

-----------------------------------------------------------------------------
(* The device implements the life of its Thread                            *)

(* The steps of quit() and join(): the others are no part of a Thread's life. *)
Quitting == {"quit", "quitPost", "quitMark"}
Quits == Quitting \cup {"join"}
(* The queue and the owner as ThreadLifecycle has them (Device!Lifecycle), and
   whether quit() has posted its event. *)
WorkOf(s) == [i \in 1..Len(s) |-> IF s[i] = "quit" THEN "quit" ELSE "work"]
OwnerAt ==
  CASE OwnerCall = "quit" -> "quitting"
    [] OwnerCall = "quitPost" -> "posting"
    [] OwnerCall = "quitMark" -> "marking"
    [] OwnerCall = "join" -> "joining"
    [] OTHER -> "idle"
HasQuit(s) == \E i \in 1..Len(s) : s[i] = "quit"
QuitTold == worker \in {"leaving", "done"} \/ HasQuit(m_eq)

(* What a queue is to a Thread after an event is posted or taken. *)
LEMMA WorkOfAppend ==
  ASSUME NEW S, NEW s \in Seq(S), NEW x \in S
  PROVE  /\ WorkOf(Append(s, x)) = Append(WorkOf(s), IF x = "quit" THEN "quit" ELSE "work")
         /\ HasQuit(Append(s, x)) <=> HasQuit(s) \/ x = "quit"
<1>1. /\ Len(s) \in Nat /\ Len(Append(s, x)) = Len(s) + 1
      /\ \A i \in 1..Len(s) : Append(s, x)[i] = s[i]
      /\ Append(s, x)[Len(s) + 1] = x
  BY AppendProperties, LenProperties
<1>2. WorkOf(s) \in Seq({"quit", "work"}) /\ Len(WorkOf(s)) = Len(s)
  BY <1>1 DEF WorkOf
<1>. DEFINE y == IF x = "quit" THEN "quit" ELSE "work"
            a == Append(WorkOf(s), y)
            b == WorkOf(Append(s, x))
<1>3. /\ a \in Seq({"quit", "work"}) /\ Len(a) = Len(s) + 1
      /\ \A i \in 1..Len(s) : a[i] = WorkOf(s)[i]
      /\ a[Len(s) + 1] = y
  BY <1>2, AppendProperties
<1>4. b \in Seq({"quit", "work"}) /\ Len(b) = Len(s) + 1
  BY <1>1 DEF WorkOf
<1>5. ASSUME NEW i \in 1..Len(a)
      PROVE  a[i] = b[i]
  <2>1. b[i] = IF Append(s, x)[i] = "quit" THEN "quit" ELSE "work"
    BY <1>1, <1>3 DEF WorkOf
  <2>2. CASE i = Len(s) + 1
    BY <1>1, <1>3, <2>1, <2>2
  <2>3. CASE i \in 1..Len(s)
    <3>1. a[i] = IF s[i] = "quit" THEN "quit" ELSE "work"
      BY <1>3, <2>3 DEF WorkOf
    <3>. QED
      BY <1>1, <2>1, <2>3, <3>1
  <2>. QED
    BY <1>1, <1>3, <2>2, <2>3
<1>6. a = b
  <2>. HIDE DEF a, b
  <2>. QED
    BY <1>3, <1>4, <1>5, SeqEqual
<1>7. HasQuit(Append(s, x)) <=> HasQuit(s) \/ x = "quit"
  BY <1>1 DEF HasQuit
<1>. QED
  BY <1>6, <1>7

(* and after one is taken. *)
LEMMA WorkOfTail ==
  ASSUME NEW S, NEW s \in Seq(S), s # <<>>
  PROVE  /\ WorkOf(s) # <<>> /\ WorkOf(Tail(s)) = Tail(WorkOf(s))
         /\ Head(WorkOf(s)) = IF Head(s) = "quit" THEN "quit" ELSE "work"
         /\ HasQuit(s) => Head(s) = "quit" \/ HasQuit(Tail(s))
<1>1. /\ Len(s) \in Nat /\ Len(s) >= 1 /\ Head(s) = s[1]
      /\ Tail(s) \in Seq(S) /\ Len(Tail(s)) = Len(s) - 1
      /\ \A i \in 1..Len(Tail(s)) : Tail(s)[i] = s[i + 1]
  BY HeadTailProperties, ItemsOf, LenProperties
<1>. DEFINE w == WorkOf(s)
<1>2. w \in Seq({"quit", "work"}) /\ Len(w) = Len(s)
      /\ \A i \in 1..Len(s) : w[i] = IF s[i] = "quit" THEN "quit" ELSE "work"
  BY <1>1 DEF WorkOf
<1>. HIDE DEF w
<1>3. w # <<>> /\ Head(w) = w[1]
  BY <1>1, <1>2
<1>4. /\ Tail(w) \in Seq({"quit", "work"}) /\ Len(Tail(w)) = Len(s) - 1
      /\ \A i \in 1..Len(Tail(w)) : Tail(w)[i] = w[i + 1]
  BY <1>2, <1>3, HeadTailProperties
<1>. DEFINE v == WorkOf(Tail(s))
<1>5. v \in Seq({"quit", "work"}) /\ Len(v) = Len(s) - 1
      /\ \A i \in 1..Len(v) : v[i] = IF s[i + 1] = "quit" THEN "quit" ELSE "work"
  BY <1>1 DEF WorkOf
<1>. HIDE DEF v
<1>6. v = Tail(w)
  <2>1. \A i \in 1..Len(v) : v[i] = Tail(w)[i]
    BY <1>1, <1>2, <1>4, <1>5
  <2>. QED
    BY <1>1, <1>4, <1>5, <2>1, SeqEqual
<1>7. HasQuit(s) => Head(s) = "quit" \/ HasQuit(Tail(s))
  <2>1. SUFFICES ASSUME NEW i \in 1..Len(s), s[i] = "quit", i # 1
                 PROVE  \E j \in 1..Len(Tail(s)) : Tail(s)[j] = "quit"
    BY <1>1 DEF HasQuit
  <2>2. i - 1 \in 1..Len(Tail(s)) /\ Tail(s)[i - 1] = s[i]
    BY <1>1, <2>1
  <2>. QED
    BY <2>1, <2>2
<1>. QED
  BY <1>1, <1>2, <1>3, <1>6, <1>7 DEF w, v

(* A body that begins with the step n. *)
StartsWith(b, n) == \E S : b \in Seq(S) /\ b # <<>> /\ Head(b)[1] = n

(* What begins with a step still does with more behind it. *)
LEMMA FirstStep ==
  /\ \A n, a : StartsWith(<<<<n, a>>>>, n)
  /\ \A b, n, S : \A c \in Seq(S) : StartsWith(b, n) => StartsWith(b \o c, n)
  /\ \A x : \E S : <<x>> \in Seq(S)
<1>1. \A x : <<x>> \in Seq({x}) /\ <<x>> # <<>> /\ Head(<<x>>) = x
  OBVIOUS
<1>2. ASSUME NEW b, NEW n, NEW S, NEW c \in Seq(S), StartsWith(b, n)
      PROVE  StartsWith(b \o c, n)
  <2>1. PICK R : b \in Seq(R) /\ b # <<>> /\ Head(b)[1] = n
    BY <1>2 DEF StartsWith
  <2>2. b \in Seq(R \cup S) /\ c \in Seq(R \cup S)
    BY <2>1
  <2>3. b \o c \in Seq(R \cup S) /\ b \o c # <<>> /\ Head(b \o c) = Head(b)
    BY <2>1, <2>2, ItemsOfConcat
  <2>. QED
    BY <2>1, <2>3 DEF StartsWith
<1>3. ASSUME NEW n, NEW a
      PROVE  StartsWith(<<<<n, a>>>>, n)
  <2>. DEFINE x == <<n, a>>
  <2>1. x[1] = n
    OBVIOUS
  <2>. HIDE DEF x
  <2>2. <<x>> \in Seq({x}) /\ <<x>> # <<>> /\ Head(<<x>>)[1] = n
    BY <1>1, <2>1
  <2>3. StartsWith(<<x>>, n)
    BY <2>2 DEF StartsWith
  <2>. QED
    BY <2>3 DEF x
<1>4. ASSUME NEW x
      PROVE  \E S : <<x>> \in Seq(S)
  BY <1>1
<1>. QED
  BY <1>2, <1>3, <1>4

-----------------------------------------------------------------------------
(* A body that does not begin with a step of quit() and join(). *)
Apart(b) == b = <<>> \/ \E n : StartsWith(b, n) /\ n \notin Quits

(* Nothing of quit() and join() waits behind a step that is not one of them. *)
LEMMA NoQuitWaits ==
  ASSUME IInv, ~Crashed, Busy("owner"), Name(Head(todo["owner"])) \notin Quitting,
         NEW x \in Rest("owner")
  PROVE  Name(x) \notin Quits
<1>. DEFINE t == "owner"
            h == Head(todo[t])
<1>1. t \in Actors /\ Types /\ InOrder /\ DeleteKnown
  BY AllKnown DEF Actors
<1>. HIDE DEF t
<1>2. todo[t] \in Seq(Tasks) /\ todo[t] # <<>> /\ h \in Pending(t) /\ h \in Tasks /\ x \in Pending(t)
  BY <1>1, BusyIs DEF Types, t
<1>3. CASE phase = "delete"
  BY <1>1, <1>2, <1>3, Names DEF DeleteKnown, Ending, Quits, Quitting, t
<1>4. CASE phase # "delete"
  <2>1. Sorted(todo[t], Rests(t))
    BY <1>1, <1>4 DEF InOrder
  <2>2. x \in Later(h)
    BY <1>2, <2>1, SortedTail DEF Rest, t
  <2>3. Name(h) \notin Quitting
    BY DEF t
  <2>. HIDE DEF h
  <2>4. \A s : s \in {"quit", "quitPost", "quitMark", "join"} => T(s) \notin Later(h)
    BY <1>2, <2>3, ByName, AfterIs, LaterIs, Names
       DEF Quitting, AnyAfter, Opens, StartOuter, StopOuter, StopEnd, Tells, Plain, Steps
  <2>5. x \in Tasks
    BY <1>1, <1>2, BusyIs
  <2>. QED
    BY <2>2, <2>4, <2>5, ByName DEF Quits, Quitting
<1>. QED
  BY <1>3, <1>4

(* The owner goes on with such a body: it is not in quit() or join() then. *)
LEMMA StaysApart ==
  ASSUME IInv, ~Crashed, todo["owner"] # <<>>, Name(Head(todo["owner"])) \notin Quitting,
         NEW b, GoOn("owner", b), Apart(b)
  PROVE  OwnerCall' \notin Quits
<1>. DEFINE t == "owner"
            r == Tail(todo[t])
<1>1. todo \in [Actors -> Seq(Tasks)] /\ t \in Actors /\ Busy(t)
  BY AllKnown, BusyIs DEF Types, Actors
<1>2. todo'[t] = b \o r /\ r \in Seq(Tasks)
  BY <1>1, HeadTailProperties DEF GoOn
<1>3. CASE b = <<>>
  <2>1. todo'[t] = r
    BY <1>2, <1>3
  <2>2. r # <<>> => Head(r) \in Rest(t)
    BY <1>2, ItemsOf DEF Rest
  <2>3. r # <<>> => Head(r)[1] \notin Quits
    BY <1>1, <2>2, NoQuitWaits DEF Name
  <2>. HIDE DEF r
  <2>. QED
    BY <2>1, <2>3 DEF OwnerCall, Quits, Quitting, t
<1>4. CASE b # <<>>
  <2>. HIDE DEF r
  <2>1. PICK n : StartsWith(b, n) /\ n \notin Quits
    BY <1>4 DEF Apart
  <2>2. PICK S : b \in Seq(S) /\ b # <<>> /\ Head(b)[1] = n
    BY <2>1 DEF StartsWith
  <2>3. b \in Seq(S \cup Tasks) /\ r \in Seq(S \cup Tasks)
    BY <1>2, <2>2
  <2>4. b \o r # <<>> /\ Head(b \o r) = Head(b)
    BY <2>2, <2>3, ItemsOfConcat
  <2>. QED
    BY <1>2, <2>1, <2>2, <2>4 DEF OwnerCall, t
<1>. QED
  BY <1>3, <1>4

(* The bodies of the device's calls are such bodies. *)
LEMMA ApartIs ==
  /\ Apart(<<>>)
  /\ \A s, a : s \notin Quits => Apart(<<<<s, a>>>>)
  /\ \A b, s : b # <<>> /\ Apart(b) => Apart(b \o Do(s))
  /\ \A b, s : b # <<>> /\ Apart(b) => Apart(b \o SetTo(s))
  /\ \A b, s, a : b # <<>> /\ Apart(b) => Apart(b \o <<<<s, a>>>>)
  /\ \A b : b # <<>> /\ Apart(b) => Apart(b \o <<>>)
<1>1. ASSUME NEW b, NEW S, NEW c \in Seq(S), b # <<>>, Apart(b)
      PROVE  Apart(b \o c)
  <2>1. PICK n : StartsWith(b, n) /\ n \notin Quits
    BY <1>1 DEF Apart
  <2>2. StartsWith(b \o c, n)
    BY <2>1, FirstStep
  <2>. QED
    BY <2>1, <2>2 DEF Apart
<1>2. ASSUME NEW b, NEW x, b # <<>>, Apart(b)
      PROVE  Apart(b \o <<x>>)
  <2>1. PICK S : <<x>> \in Seq(S)
    BY FirstStep
  <2>. QED
    BY <1>1, <1>2, <2>1
<1>3. \A b : b # <<>> /\ Apart(b) => Apart(b \o <<>>)
  <2>1. <<>> \in Seq({})
    OBVIOUS
  <2>. QED
    BY <1>1, <2>1
<1>4. ASSUME NEW s, NEW a, s \notin Quits
      PROVE  Apart(<<<<s, a>>>>)
  BY <1>4, FirstStep DEF Apart
<1>5. /\ \A b, s : b # <<>> /\ Apart(b) => Apart(b \o Do(s))
      /\ \A b, s : b # <<>> /\ Apart(b) => Apart(b \o SetTo(s))
  BY <1>2 DEF Do, SetTo
<1>6. \A b, s, a : b # <<>> /\ Apart(b) => Apart(b \o <<<<s, a>>>>)
  BY <1>2
<1>. QED
  BY <1>3, <1>4, <1>5, <1>6 DEF Apart

(* The same of single tasks, which are never empty bodies. *)
LEMMA OneApart ==
  /\ \A s : Do(s) # <<>> /\ SetTo(s) # <<>>
  /\ \A s \in Steps \ Quits : Apart(Do(s))
  /\ \A s : Apart(SetTo(s))
  /\ \A s : Apart(<<<<"assign", s>>>> \o Do("enter") \o <<<<"tell", s>>>>)
<1>1. \A x : <<x>> # <<>>
  OBVIOUS
<1>2. \A s \in Steps \ Quits : Apart(Do(s))
  BY ApartIs DEF Do
<1>3. "set" \notin Quits /\ "assign" \notin Quits
  BY DEF Quits, Quitting
<1>4. \A s : Apart(SetTo(s)) /\ Apart(<<<<"assign", s>>>>)
  BY <1>3, ApartIs DEF SetTo
<1>5. ASSUME NEW s
      PROVE  Apart(<<<<"assign", s>>>> \o Do("enter") \o <<<<"tell", s>>>>)
  <2>. DEFINE b == <<<<"assign", s>>>>
              c == b \o Do("enter")
  <2>1. Apart(b) /\ b # <<>>
    BY <1>1, <1>4
  <2>2. Apart(c) /\ c # <<>>
    <3>1. Apart(c)
      BY <2>1, ApartIs
    <3>2. c # <<>>
      BY DEF Do
    <3>. QED
      BY <3>1, <3>2
  <2>. HIDE DEF c
  <2>3. Apart(c \o <<<<"tell", s>>>>)
    BY <2>2, ApartIs
  <2>. QED
    BY <2>3 DEF c
<1>. QED
  BY <1>1, <1>2, <1>4, <1>5 DEF Do, SetTo

(* What both threads may do is no part of the Thread's life. *)
LEMMA BodyIsApart ==
  ASSUME NEW t \in Actors, Body(t)
  PROVE  /\ Step(t) \in Steps \ Quits
         /\ todo' = todo \/ \E b : GoOn(t, b) /\ Apart(b)
         /\ ThreadSame /\ packets' = packets /\ beats' = beats
<1>1. /\ \A s : Do(s) # <<>> /\ SetTo(s) # <<>>
      /\ Apart(<<>>)
      /\ \A s : Apart(SetTo(s)) /\ Apart(SetTo(s) \o <<>>)
      /\ \A s, r : Apart(SetTo(s) \o Do(r)) /\ \A a : Apart(SetTo(s) \o <<<<r, a>>>>)
  BY OneApart, ApartIs
<1>2. \A s \in {"startReader", "stopReader", "spawnReader", "joinReader", "write"} :
        /\ Apart(Do(s)) /\ \A r : Apart(Do(s) \o Do(r))
  BY OneApart, ApartIs DEF Steps, Quits, Quitting
<1>3. CASE SetState(t)
  BY <1>1, <1>3, OneApart, Same DEF SetState, Steps, Quits, Quitting, EnvSame
<1>4. CASE Assign(t) \/ TellState(t) \/ SpawnReader(t) \/ DropReader(t) \/ Close(t)
  BY <1>1, <1>4, Same
     DEF Assign, TellState, SpawnReader, DropReader, Close, Steps, Quits, Quitting, EnvSame
<1>5. CASE OnStateEnter(t)
  BY <1>1, <1>2, <1>5, Same DEF OnStateEnter, Steps, Quits, Quitting, EnvSame
<1>6. CASE StartReader(t) \/ StopReader(t)
  BY <1>1, <1>2, <1>6, Same DEF StartReader, StopReader, Steps, Quits, Quitting, EnvSame
<1>7. CASE JoinReader(t)
  BY <1>1, <1>7, Same DEF JoinReader, Steps, Quits, Quitting
<1>8. CASE Connect(t)
  <2>1. Apart(WriteAfter(Step(t)))
    BY <1>1, <1>2 DEF WriteAfter
  <2>. QED
    BY <1>1, <1>8, <2>1, Same DEF Connect, Steps, Quits, Quitting, EnvSame
<1>9. CASE Open(t)
  <2>1. Apart(SetTo("online") \o WriteAfter(Arg(t)))
    BY <1>1 DEF WriteAfter
  <2>. QED
    BY <1>1, <1>9, <2>1, Same DEF Open, Steps, Quits, Quitting, EnvSame
<1>10. CASE Write(t)
  BY <1>1, <1>10, Same DEF Write, Steps, Quits, Quitting, EnvSame
<1>. QED
  BY <1>3, <1>4, <1>5, <1>6, <1>7, <1>8, <1>9, <1>10 DEF Body

-----------------------------------------------------------------------------
(* The invariant                                                           *)

(* quit() goes on with its next step, and join() comes after it. *)
QuitOrder ==
  LET s == todo["owner"]
  IN /\ OwnerCall \in {"quit", "quitMark"} => Tail(s) # <<>> /\ Head(Tail(s)) = T("join")
     /\ OwnerCall = "quitPost" =>
          /\ Tail(s) # <<>> /\ Head(Tail(s)) = T("quitMark")
          /\ Tail(Tail(s)) # <<>> /\ Head(Tail(Tail(s))) = T("join")
(* When m_state is QUIT, or about to be, the Quit event has been posted. *)
MarkTellsQuit == m_state = "quit" \/ OwnerCall = "quitMark" => QuitTold

(* Both, which with IInv are inductive. *)
LifeInv == QuitOrder /\ MarkTellsQuit

(* A step that is none of quit() and join(): the owner is where it was in them. *)
OwnerApart == OwnerAt' = OwnerAt /\ (todo'["owner"] = todo["owner"] \/ OwnerCall' \notin Quits)

(* Such a step leaves the order of quit() and join(). *)
LEMMA ApartKeepsOrder ==
  ASSUME QuitOrder, OwnerApart
  PROVE  QuitOrder'
BY DEF QuitOrder, OwnerApart, OwnerCall, Quits, Quitting

(* The step the owner is at is that of its first task. *)
LEMMA OwnerCallIs ==
  /\ todo["owner"] # <<>> => OwnerCall = Name(Head(todo["owner"]))
  /\ todo'["owner"] # <<>> => OwnerCall' = Name(Head(todo'["owner"]))
BY DEF OwnerCall, Name

(* Where the owner is in quit() and join(). *)
LEMMA OwnerAtIs ==
  /\ OwnerCall = "quit" <=> OwnerAt = "quitting"
  /\ OwnerCall = "quitPost" <=> OwnerAt = "posting"
  /\ OwnerCall = "quitMark" <=> OwnerAt = "marking"
  /\ OwnerCall = "join" <=> OwnerAt = "joining"
  /\ OwnerCall \notin Quits <=> OwnerAt = "idle"
BY DEF OwnerAt, Quits, Quitting

(* What a thread at a step tells of OwnerCall. *)
LEMMA CallIs ==
  ASSUME Types, NEW s \in Steps, Step("owner") = s
  PROVE  /\ OwnerCall = s /\ ~Crashed
         /\ todo["owner"] # <<>> /\ todo["owner"] \in Seq(Tasks)
         /\ Name(Head(todo["owner"])) = s
<1>. QED
  BY AtStep DEF OwnerCall, Name, Actors

(* The owner goes on with a body apart from quit() and join(). *)
LEMMA GoesApart ==
  ASSUME IInv, Step("owner") \in Steps \ Quits, NEW b, GoOn("owner", b), Apart(b)
  PROVE  OwnerApart /\ OwnerAt = "idle"
<1>1. OwnerCall \notin Quits /\ OwnerAt = "idle"
  BY CallIs, OwnerAtIs DEF IInv
<1>2. OwnerCall' \notin Quits
  BY CallIs, StaysApart DEF IInv, Quits
<1>3. OwnerAt' = "idle"
  BY <1>2 DEF OwnerAt, Quits, Quitting
<1>. QED
  BY <1>1, <1>2, <1>3 DEF OwnerApart

(* What both threads may do is such a step. *)
LEMMA BodyStaysApart ==
  ASSUME IInv, NEW t \in Actors, Body(t)
  PROVE  OwnerApart /\ ThreadSame /\ packets' = packets /\ beats' = beats
<1>1. /\ Step(t) \in Steps \ Quits
      /\ todo' = todo \/ \E b : GoOn(t, b) /\ Apart(b)
      /\ ThreadSame /\ packets' = packets /\ beats' = beats
  BY BodyIsApart
<1>2. CASE todo'["owner"] = todo["owner"]
  BY <1>1, <1>2 DEF OwnerApart, OwnerAt, OwnerCall
<1>3. CASE t = "worker"
  <2>1. todo'["owner"] = todo["owner"]
    BY <1>1, <1>3 DEF GoOn, IInv, Types, Actors
  <2>. QED
    BY <1>1, <2>1 DEF OwnerApart, OwnerAt, OwnerCall
<1>4. CASE t = "owner" /\ todo' # todo
  BY <1>1, <1>4, GoesApart
<1>. QED
  BY <1>2, <1>3, <1>4, <1>1 DEF Actors

-----------------------------------------------------------------------------
(* Step by step                                                            *)

(* A step of a Thread, or none. *)
Lives == Lifecycle!Next \/ UNCHANGED Lifecycle!vars

(* A step that leaves the Thread and the owner's place in its calls is none of
   a Thread. *)
LEMMA StuttersAre ==
  ASSUME ThreadSame, packets' = packets, beats' = beats, OwnerAt' = OwnerAt
  PROVE  Lives
<1>1. WorkOf(m_eq)' = WorkOf(m_eq) /\ QuitTold' = QuitTold
  BY DEF ThreadSame, WorkOf, QuitTold, HasQuit
<1>. QED
  BY <1>1 DEF Lives, Lifecycle!vars, ThreadSame, WorkOf, OwnerAt, QuitTold, HasQuit

(* The step keeps LifeInv and is one of a Thread, or none. *)
LivesOn == LifeInv' /\ Lives

(* A step apart from the Thread does so. *)
LEMMA ApartLivesOn ==
  ASSUME LifeInv, OwnerApart, ThreadSame, packets' = packets, beats' = beats
  PROVE  LivesOn
<1>1. QuitOrder'
  BY ApartKeepsOrder DEF LifeInv
<1>2. MarkTellsQuit'
  <2>1. QuitTold' = QuitTold /\ (OwnerCall' = "quitMark" <=> OwnerCall = "quitMark")
    BY DEF ThreadSame, QuitTold, HasQuit, OwnerApart, OwnerAt
  <2>. QED
    BY <2>1 DEF LifeInv, MarkTellsQuit, ThreadSame
<1>3. Lives
  BY StuttersAre DEF OwnerApart
<1>. QED
  BY <1>1, <1>2, <1>3 DEF LivesOn, LifeInv

(* Two tasks, what is between, and the rest. *)
LEMMA PairFirst ==
  ASSUME NEW S, NEW x \in S, NEW y \in S, NEW c \in Seq(S), NEW r \in Seq(S)
  PROVE  LET s == (((<<x>> \o <<y>>) \o c) \o r)
         IN /\ s # <<>> /\ Head(s) = x
            /\ Tail(s) # <<>> /\ Head(Tail(s)) = y
            /\ Tail(Tail(s)) = c \o r
<1>. DEFINE d == <<x>> \o <<y>>
            s == (d \o c) \o r
<1>1. d \in Seq(S) /\ Len(d) = 2 /\ d[1] = x /\ d[2] = y
  <2>. DEFINE v == <<x>>
              w == <<y>>
  <2>1. v \in Seq(S) /\ Len(v) = 1 /\ v[1] = x /\ w \in Seq(S) /\ Len(w) = 1 /\ w[1] = y
    OBVIOUS
  <2>2. d = v \o w
    OBVIOUS
  <2>. HIDE DEF v, w, d
  <2>3. /\ v \o w \in Seq(S) /\ Len(v \o w) = Len(v) + Len(w)
        /\ \A i \in 1..(Len(v) + Len(w)) : (v \o w)[i] = IF i <= Len(v) THEN v[i] ELSE w[i - Len(v)]
    BY <2>1, ConcatProperties
  <2>4. 1 \in 1..(Len(v) + Len(w)) /\ 2 \in 1..(Len(v) + Len(w))
    BY <2>1
  <2>5. (v \o w)[1] = v[1] /\ (v \o w)[2] = w[1] /\ Len(v \o w) = 2
    BY <2>1, <2>3, <2>4
  <2>. QED
    BY <2>1, <2>2, <2>3, <2>5
<1>2. Len(c) \in Nat /\ Len(r) \in Nat
  BY LenProperties
<1>. HIDE DEF d
<1>3. /\ d \o c \in Seq(S) /\ Len(d \o c) = 2 + Len(c)
      /\ \A i \in 1..(2 + Len(c)) : (d \o c)[i] = IF i <= 2 THEN d[i] ELSE c[i - 2]
  <2>1. /\ d \o c \in Seq(S) /\ Len(d \o c) = Len(d) + Len(c)
        /\ \A i \in 1..(Len(d) + Len(c)) : (d \o c)[i] = IF i <= Len(d) THEN d[i] ELSE c[i - Len(d)]
    BY <1>1, ConcatProperties
  <2>. QED
    BY <1>1, <1>2, <2>1
<1>. DEFINE e == d \o c
            q == c \o r
<1>4. /\ s \in Seq(S) /\ Len(s) = 2 + Len(c) + Len(r)
      /\ \A i \in 1..(2 + Len(c) + Len(r)) : s[i] = IF i <= 2 + Len(c) THEN e[i] ELSE r[i - 2 - Len(c)]
  <2>1. e \in Seq(S) /\ Len(e) = 2 + Len(c)
    BY <1>3
  <2>. HIDE DEF e
  <2>2. /\ e \o r \in Seq(S) /\ Len(e \o r) = Len(e) + Len(r)
        /\ \A i \in 1..(Len(e) + Len(r)) : (e \o r)[i] = IF i <= Len(e) THEN e[i] ELSE r[i - Len(e)]
    BY <2>1, <1>2, ConcatProperties
  <2>3. s = e \o r
    BY DEF e
  <2>. QED
    BY <1>2, <2>1, <2>2, <2>3
<1>5. /\ q \in Seq(S) /\ Len(q) = Len(c) + Len(r)
      /\ \A i \in 1..(Len(c) + Len(r)) : q[i] = IF i <= Len(c) THEN c[i] ELSE r[i - Len(c)]
  BY <1>2, ConcatProperties
<1>. HIDE DEF s, q
<1>6. s # <<>> /\ Head(s) = x
  BY <1>1, <1>2, <1>3, <1>4
<1>7. /\ Tail(s) \in Seq(S) /\ Len(Tail(s)) = 1 + Len(c) + Len(r)
      /\ \A i \in 1..(1 + Len(c) + Len(r)) : Tail(s)[i] = s[i + 1]
  BY <1>2, <1>4, <1>6, HeadTailProperties
<1>8. Tail(s) # <<>> /\ Head(Tail(s)) = y
  <2>1. Tail(s) # <<>> /\ Head(Tail(s)) = Tail(s)[1] /\ Tail(s)[1] = s[2]
    <3>. DEFINE u == Tail(s)
    <3>1. u \in Seq(S) /\ Len(u) >= 1 /\ 1 \in 1..(1 + Len(c) + Len(r))
      BY <1>2, <1>7
    <3>2. u[1] = s[1 + 1]
      BY <1>7, <3>1
    <3>. HIDE DEF u
    <3>3. u # <<>> /\ Head(u) = u[1]
      BY <3>1
    <3>. QED
      BY <3>2, <3>3 DEF u
  <2>2. s[2] = e[2] /\ e[2] = d[2]
    BY <1>2, <1>3, <1>4
  <2>. QED
    BY <1>1, <2>1, <2>2
<1>9. /\ Tail(Tail(s)) \in Seq(S) /\ Len(Tail(Tail(s))) = Len(c) + Len(r)
      /\ \A i \in 1..(Len(c) + Len(r)) : Tail(Tail(s))[i] = s[i + 2]
  <2>. DEFINE u == Tail(s)
  <2>. HIDE DEF u
  <2>1. u \in Seq(S) /\ u # <<>> /\ Len(u) = 1 + Len(c) + Len(r)
    BY <1>7, <1>8 DEF u
  <2>2. /\ Tail(u) \in Seq(S) /\ Len(Tail(u)) = Len(u) - 1
        /\ \A i \in 1..Len(Tail(u)) : Tail(u)[i] = u[i + 1]
    BY <2>1, HeadTailProperties
  <2>3. \A i \in 1..(Len(c) + Len(r)) : Tail(u)[i] = s[i + 2]
    <3>1. SUFFICES ASSUME NEW i \in 1..(Len(c) + Len(r))
                   PROVE  Tail(u)[i] = s[i + 2]
      OBVIOUS
    <3>2. i \in 1..Len(Tail(u)) /\ i + 1 \in 1..(1 + Len(c) + Len(r)) /\ (i + 1) + 1 = i + 2
      BY <1>2, <2>1, <2>2
    <3>3. u[i + 1] = s[(i + 1) + 1]
      BY <1>7, <3>2 DEF u
    <3>. QED
      BY <2>2, <3>2, <3>3
  <2>4. Len(Tail(u)) = Len(c) + Len(r)
    BY <1>2, <2>1, <2>2
  <2>. QED
    BY <2>2, <2>3, <2>4 DEF u
<1>10. \A i \in 1..(Len(c) + Len(r)) : Tail(Tail(s))[i] = q[i]
  <2>1. SUFFICES ASSUME NEW i \in 1..(Len(c) + Len(r))
                 PROVE  s[i + 2] = q[i]
    BY <1>9
  <2>2. PICK k \in 1..(2 + Len(c) + Len(r)) : k = i + 2
    BY <1>2
  <2>3. s[k] = IF k <= 2 + Len(c) THEN e[k] ELSE r[k - 2 - Len(c)]
    BY <1>4
  <2>4. k - 2 = i /\ k - 2 - Len(c) = i - Len(c) /\ (k <= 2 + Len(c) <=> i <= Len(c)) /\ ~(k <= 2)
    BY <1>2, <2>2
  <2>5. CASE i <= Len(c)
    <3>1. k \in 1..(2 + Len(c))
      BY <1>2, <2>4, <2>5
    <3>2. e[k] = IF k <= 2 THEN d[k] ELSE c[k - 2]
      BY <1>3, <3>1
    <3>. QED
      BY <1>5, <2>2, <2>3, <2>4, <2>5, <3>2
  <2>6. CASE ~(i <= Len(c))
    BY <1>5, <2>2, <2>3, <2>4, <2>6
  <2>. QED
    BY <2>5, <2>6
<1>11. Tail(Tail(s)) = q
  BY <1>5, <1>9, <1>10, SeqEqual
<1>. QED
  BY <1>6, <1>8, <1>11 DEF s, q, d

-----------------------------------------------------------------------------
(* The owner's steps                                                       *)

(* DeviceBase::Start is the Thread's start(), *)
LEMMA ThreadStartLives ==
  ASSUME IInv, LifeInv, ThreadStart
  PROVE  LivesOn
<1>1. OwnerApart /\ OwnerAt = "idle" /\ OwnerAt' = "idle"
  <2>1. Step("owner") \in Steps \ Quits /\ GoOn("owner", <<>>)
    BY DEF ThreadStart, Steps, Quits, Quitting
  <2>2. OwnerApart /\ OwnerAt = "idle"
    BY <2>1, ApartIs, GoesApart
  <2>. QED
    BY <2>2 DEF OwnerApart
<1>2. /\ m_state' = m_state /\ m_eq' = m_eq /\ packets' = packets /\ beats' = beats
      /\ \/ m_thread' = m_thread /\ worker' = worker
         \/ m_state = "uninit" /\ ~m_thread /\ m_thread' = TRUE /\ worker' = "entering"
  BY DEF ThreadStart, envVars
<1>3. CASE m_thread' = m_thread /\ worker' = worker
  BY <1>1, <1>2, <1>3, ApartLivesOn DEF ThreadSame
<1>4. CASE m_state = "uninit" /\ ~m_thread /\ m_thread' = TRUE /\ worker' = "entering"
  <2>1. worker = "none"
    BY <1>4, CallIs, AllKnown DEF ThreadStart, Steps, WorkerKnown, IInv
  <2>2. QuitTold' = QuitTold /\ WorkOf(m_eq)' = WorkOf(m_eq)
    BY <1>2, <1>4, <2>1 DEF QuitTold, HasQuit, WorkOf
  <2>3. LifeInv'
    <3>1. OwnerCall # "quitMark" /\ OwnerCall' # "quitMark"
      BY <1>1 DEF OwnerAt
    <3>. QED
      BY <1>1, <1>2, <2>2, <3>1, ApartKeepsOrder DEF LifeInv, MarkTellsQuit
  <2>4. Lifecycle!Start
    BY <1>1, <1>2, <1>4, <2>2 DEF Lifecycle!Start, OwnerAt, WorkOf, QuitTold, HasQuit
  <2>. QED
    BY <2>3, <2>4 DEF LivesOn, Lives, Lifecycle!Next
<1>. QED
  BY <1>2, <1>3, <1>4

(* DeviceBase::Stop and ~Thread its Stop when there is something to stop, *)
LEMMA BaseStopLives ==
  ASSUME IInv, LifeInv, BaseStop
  PROVE  LivesOn
<1>. DEFINE stops == m_state = "running" \/ m_thread
            more == IF stops /\ Step("owner") = "stop" THEN SetTo("offline") ELSE <<>>
            b == (IF stops THEN Do("quit") \o Do("join") ELSE <<>>) \o more
            r == Tail(todo["owner"])
<1>1. /\ Step("owner") \in {"stop", "endThread"} /\ GoOn("owner", b)
      /\ ThreadSame /\ packets' = packets /\ beats' = beats
  BY Same DEF BaseStop, EnvSame
<1>2. Step("owner") \in Steps \ Quits
  BY <1>1 DEF Steps, Quits, Quitting
<1>3. CASE ~stops
  <2>1. b = <<>>
    BY <1>3
  <2>. HIDE DEF b
  <2>. QED
    BY <1>1, <1>2, <2>1, ApartIs, GoesApart, ApartLivesOn
<1>4. CASE stops
  <2>1. OwnerAt = "idle" /\ todo["owner"] \in Seq(Tasks) /\ todo["owner"] # <<>>
        /\ todo \in [Actors -> Seq(Tasks)] /\ "owner" \in Actors
    BY <1>2, CallIs, OwnerAtIs DEF IInv, Types, Actors
  <2>2. r \in Seq(Tasks)
    BY <2>1, HeadTailProperties
  <2>3. T("quit") \in Tasks /\ T("join") \in Tasks /\ more \in Seq(Tasks)
    <3>1. "quit" \in Plain /\ "join" \in Plain /\ "offline" \in Made
      BY DEF Plain, Steps, Made, DevStates
    <3>2. Setting("offline") \in Tasks /\ T("quit") \in Tasks /\ T("join") \in Tasks
      BY <3>1 DEF Tasks
    <3>. QED
      BY <3>2, OneTask, NoTask DEF SetTo, Setting
  <2>4. todo'["owner"] = ((<<T("quit")>> \o <<T("join")>>) \o more) \o r
    BY <1>1, <1>4, <2>1 DEF GoOn, Do, T
  <2>. HIDE DEF r, more, b, stops
  <2>5. /\ todo'["owner"] # <<>> /\ Head(todo'["owner"]) = T("quit")
        /\ Tail(todo'["owner"]) # <<>> /\ Head(Tail(todo'["owner"])) = T("join")
    BY <2>2, <2>3, <2>4, PairFirst
  <2>6. OwnerCall' = "quit"
    BY <2>5, Names, OwnerCallIs
  <2>7. OwnerAt' = "quitting"
    BY <2>6 DEF OwnerAt
  <2>8. QuitTold' = QuitTold /\ WorkOf(m_eq)' = WorkOf(m_eq)
    BY <1>1 DEF QuitTold, HasQuit, WorkOf, ThreadSame
  <2>9. LifeInv'
    BY <1>1, <2>5, <2>6, <2>8 DEF LifeInv, QuitOrder, MarkTellsQuit, ThreadSame
  <2>10. m_state = "running" \/ m_thread
    BY <1>4 DEF stops
  <2>11. Lifecycle!Stop
    BY <1>1, <2>1, <2>7, <2>8, <2>10
       DEF Lifecycle!Stop, OwnerAt, WorkOf, QuitTold, HasQuit, ThreadSame
  <2>. QED
    BY <2>9, <2>11 DEF LivesOn, Lives, Lifecycle!Next
<1>. QED
  BY <1>3, <1>4

(* and the steps of quit() and join() are the Thread's: the test, *)
LEMMA QuitTestLives ==
  ASSUME IInv, LifeInv, QuitTest
  PROVE  LivesOn
<1>. DEFINE r == Tail(todo["owner"])
            runs == m_thread /\ m_state = "running"
<1>1. /\ OwnerCall = "quit" /\ OwnerAt = "quitting" /\ todo["owner"] \in Seq(Tasks)
      /\ todo["owner"] # <<>> /\ todo \in [Actors -> Seq(Tasks)] /\ "owner" \in Actors
  BY CallIs, OwnerAtIs DEF IInv, Types, Actors, QuitTest, Steps
<1>2. /\ GoOn("owner", IF runs THEN Do("quitPost") \o Do("quitMark") ELSE <<>>)
      /\ ThreadSame /\ packets' = packets /\ beats' = beats
  BY Same DEF QuitTest, EnvSame
<1>3. r \in Seq(Tasks) /\ r # <<>> /\ Head(r) = T("join")
  BY <1>1, HeadTailProperties DEF LifeInv, QuitOrder
<1>4. QuitTold' = QuitTold /\ WorkOf(m_eq)' = WorkOf(m_eq)
  BY <1>2 DEF QuitTold, HasQuit, WorkOf, ThreadSame
<1>5. CASE runs
  <2>1. T("quitPost") \in Tasks /\ T("quitMark") \in Tasks /\ <<>> \in Seq(Tasks)
    <3>1. "quitPost" \in Plain /\ "quitMark" \in Plain
      BY DEF Plain, Steps
    <3>. QED
      BY <3>1, NoTask DEF Tasks
  <2>2. todo'["owner"] = ((<<T("quitPost")>> \o <<T("quitMark")>>) \o <<>>) \o r
    <3>1. todo'["owner"] = (<<T("quitPost")>> \o <<T("quitMark")>>) \o r
      BY <1>1, <1>2, <1>5 DEF GoOn, Do, T
    <3>2. (<<T("quitPost")>> \o <<T("quitMark")>>) \o <<>> = <<T("quitPost")>> \o <<T("quitMark")>>
      BY <2>1, TwoTasks, ConcatEmptySeq
    <3>. QED
      BY <3>1, <3>2
  <2>. HIDE DEF r
  <2>3. /\ todo'["owner"] # <<>> /\ Head(todo'["owner"]) = T("quitPost")
        /\ Tail(todo'["owner"]) # <<>> /\ Head(Tail(todo'["owner"])) = T("quitMark")
        /\ Tail(Tail(todo'["owner"])) = <<>> \o r
    <3>. DEFINE z == <<>>
                x == T("quitPost")
                y == T("quitMark")
    <3>1. x \in Tasks /\ y \in Tasks /\ z \in Seq(Tasks)
      BY <2>1
    <3>2. todo'["owner"] = ((<<x>> \o <<y>>) \o z) \o r
      BY <2>2
    <3>. HIDE DEF x, y, z
    <3>3. /\ todo'["owner"] # <<>> /\ Head(todo'["owner"]) = x
          /\ Tail(todo'["owner"]) # <<>> /\ Head(Tail(todo'["owner"])) = y
          /\ Tail(Tail(todo'["owner"])) = z \o r
      BY <1>3, <3>1, <3>2, PairFirst
    <3>. QED
      BY <3>3 DEF x, y, z
  <2>4. <<>> \o r = r
    BY <1>3, ConcatEmptySeq
  <2>5. OwnerCall' = "quitPost" /\ OwnerAt' = "posting"
    BY <2>3, Names, OwnerCallIs DEF OwnerAt
  <2>6. LifeInv'
    BY <1>2, <1>3, <1>4, <2>3, <2>4, <2>5 DEF LifeInv, QuitOrder, MarkTellsQuit, ThreadSame
  <2>7. Lifecycle!QuitTest
    BY <1>1, <1>2, <1>4, <1>5, <2>5
       DEF Lifecycle!QuitTest, OwnerAt, WorkOf, QuitTold, HasQuit, ThreadSame
  <2>. QED
    BY <2>6, <2>7 DEF LivesOn, Lives, Lifecycle!Next, Lifecycle!OwnerStep
<1>6. CASE ~runs
  <2>1. todo'["owner"] = <<>> \o r
    BY <1>1, <1>2, <1>6 DEF GoOn
  <2>2. todo'["owner"] = r
    BY <1>3, <2>1, ConcatEmptySeq
  <2>. HIDE DEF r
  <2>3. OwnerCall' = "join" /\ OwnerAt' = "joining"
    BY <1>3, <2>2, Names, OwnerCallIs DEF OwnerAt
  <2>4. LifeInv'
    BY <1>2, <1>4, <2>3 DEF LifeInv, QuitOrder, MarkTellsQuit, ThreadSame
  <2>5. Lifecycle!QuitTest
    BY <1>1, <1>2, <1>4, <1>6, <2>3
       DEF Lifecycle!QuitTest, OwnerAt, WorkOf, QuitTold, HasQuit, ThreadSame
  <2>. QED
    BY <2>4, <2>5 DEF LivesOn, Lives, Lifecycle!Next, Lifecycle!OwnerStep
<1>. QED
  BY <1>5, <1>6

(* the post of the Quit event, *)
LEMMA QuitPostLives ==
  ASSUME IInv, LifeInv, QuitPost
  PROVE  LivesOn
<1>. DEFINE r == Tail(todo["owner"])
<1>1. /\ OwnerCall = "quitPost" /\ OwnerAt = "posting" /\ todo["owner"] \in Seq(Tasks)
      /\ todo["owner"] # <<>> /\ todo \in [Actors -> Seq(Tasks)] /\ "owner" \in Actors
      /\ m_eq \in Seq({"packet", "heartbeat", "quit"})
  BY CallIs, OwnerAtIs DEF IInv, Types, Actors, QuitPost, Steps
<1>2. /\ GoOn("owner", <<>>) /\ m_eq' = Append(m_eq, "quit")
      /\ m_state' = m_state /\ m_thread' = m_thread /\ worker' = worker
      /\ packets' = packets /\ beats' = beats
  BY Same DEF QuitPost, EnvSame
<1>3. r \in Seq(Tasks) /\ r # <<>> /\ Head(r) = T("quitMark")
      /\ Tail(r) # <<>> /\ Head(Tail(r)) = T("join")
  BY <1>1, HeadTailProperties DEF LifeInv, QuitOrder
<1>4. todo'["owner"] = r
  <2>1. todo'["owner"] = <<>> \o r
    BY <1>1, <1>2 DEF GoOn
  <2>. QED
    BY <1>3, <2>1, ConcatEmptySeq
<1>. HIDE DEF r
<1>5. OwnerCall' = "quitMark" /\ OwnerAt' = "marking"
  BY <1>3, <1>4, Names, OwnerCallIs DEF OwnerAt
<1>6. WorkOf(m_eq)' = Append(WorkOf(m_eq), "quit") /\ HasQuit(m_eq)' /\ QuitTold'
  <2>1. WorkOf(m_eq') = Append(WorkOf(m_eq), "quit") /\ HasQuit(m_eq')
    BY <1>1, <1>2, WorkOfAppend
  <2>. QED
    BY <2>1 DEF QuitTold, HasQuit, WorkOf
<1>7. LifeInv'
  BY <1>3, <1>4, <1>5, <1>6 DEF LifeInv, QuitOrder, MarkTellsQuit
<1>8. Lifecycle!QuitPost
  BY <1>1, <1>2, <1>5, <1>6 DEF Lifecycle!QuitPost, OwnerAt, WorkOf, QuitTold, HasQuit
<1>. QED
  BY <1>7, <1>8 DEF LivesOn, Lives, Lifecycle!Next, Lifecycle!OwnerStep

(* the assignment of m_state, *)
LEMMA QuitMarkLives ==
  ASSUME IInv, LifeInv, QuitMark
  PROVE  LivesOn
<1>. DEFINE r == Tail(todo["owner"])
<1>1. /\ OwnerCall = "quitMark" /\ OwnerAt = "marking" /\ todo["owner"] \in Seq(Tasks)
      /\ todo["owner"] # <<>> /\ todo \in [Actors -> Seq(Tasks)] /\ "owner" \in Actors
  BY CallIs, OwnerAtIs DEF IInv, Types, Actors, QuitMark, Steps
<1>2. /\ GoOn("owner", <<>>) /\ m_state' = "quit"
      /\ m_eq' = m_eq /\ m_thread' = m_thread /\ worker' = worker
      /\ packets' = packets /\ beats' = beats
  BY Same DEF QuitMark, EnvSame
<1>3. r \in Seq(Tasks) /\ r # <<>> /\ Head(r) = T("join")
  BY <1>1, HeadTailProperties DEF LifeInv, QuitOrder
<1>4. todo'["owner"] = r
  <2>1. todo'["owner"] = <<>> \o r
    BY <1>1, <1>2 DEF GoOn
  <2>. QED
    BY <1>3, <2>1, ConcatEmptySeq
<1>. HIDE DEF r
<1>5. OwnerCall' = "join" /\ OwnerAt' = "joining"
  BY <1>3, <1>4, Names, OwnerCallIs DEF OwnerAt
<1>6. WorkOf(m_eq)' = WorkOf(m_eq) /\ QuitTold' = QuitTold /\ QuitTold
  BY <1>1, <1>2 DEF QuitTold, HasQuit, WorkOf, LifeInv, MarkTellsQuit
<1>7. LifeInv'
  BY <1>5, <1>6 DEF LifeInv, QuitOrder, MarkTellsQuit
<1>8. Lifecycle!QuitMark
  BY <1>1, <1>2, <1>5, <1>6 DEF Lifecycle!QuitMark, OwnerAt, WorkOf, QuitTold, HasQuit
<1>. QED
  BY <1>7, <1>8 DEF LivesOn, Lives, Lifecycle!Next, Lifecycle!OwnerStep

(* the join. *)
LEMMA JoinLives ==
  ASSUME IInv, LifeInv, Join
  PROVE  LivesOn
<1>1. /\ OwnerCall = "join" /\ OwnerAt = "joining" /\ ~Crashed
      /\ todo["owner"] # <<>> /\ Name(Head(todo["owner"])) = "join"
  BY CallIs, OwnerAtIs DEF IInv, Join, Steps
<1>2. /\ GoOn("owner", <<>>) /\ (m_thread => worker = "done") /\ m_thread' = FALSE
      /\ m_state' = m_state /\ m_eq' = m_eq /\ worker' = worker
      /\ packets' = packets /\ beats' = beats
  BY Same DEF Join, EnvSame
<1>3. OwnerCall' \notin Quits /\ OwnerAt' = "idle"
  <2>1. OwnerCall' \notin Quits
    BY <1>1, <1>2, ApartIs, StaysApart DEF Quitting
  <2>. QED
    BY <2>1 DEF OwnerAt, Quits, Quitting
<1>4. WorkOf(m_eq)' = WorkOf(m_eq) /\ QuitTold' = QuitTold
  BY <1>2 DEF QuitTold, HasQuit, WorkOf
<1>5. LifeInv'
  BY <1>2, <1>3, <1>4 DEF LifeInv, QuitOrder, MarkTellsQuit, Quits, Quitting
<1>6. Lifecycle!Join
  BY <1>1, <1>2, <1>3, <1>4 DEF Lifecycle!Join, OwnerAt, WorkOf, QuitTold, HasQuit
<1>. QED
  BY <1>5, <1>6 DEF LivesOn, Lives, Lifecycle!Next, Lifecycle!OwnerStep

(* All of the owner's steps. *)
LEMMA OwnerLives ==
  ASSUME IInv, LifeInv, OwnerStep
  PROVE  LivesOn
<1>1. CASE Body("owner")
  BY <1>1, BodyStaysApart, ApartLivesOn DEF Actors
<1>2. CASE StopReport \/ StartHeartbeat \/ StopHeartbeat
  <2>1. /\ Step("owner") \in Steps \ Quits
        /\ \E b : GoOn("owner", b) /\ Apart(b)
        /\ ThreadSame /\ packets' = packets /\ beats' = beats
    <3>1. Apart(<<>>) /\ Apart(Do("send"))
      BY ApartIs, OneApart DEF Steps, Quits, Quitting
    <3>. QED
      BY <1>2, <3>1, Same
         DEF StopReport, StartHeartbeat, StopHeartbeat, Steps, Quits, Quitting, EnvSame
  <2>. QED
    BY <2>1, GoesApart, ApartLivesOn
<1>. QED
  BY <1>1, <1>2, ThreadStartLives, BaseStopLives, QuitTestLives, QuitPostLives, QuitMarkLives,
     JoinLives DEF OwnerStep

-----------------------------------------------------------------------------
(* The worker's, and the others'                                           *)

(* A step that leaves the owner's tasks. *)
LEMMA OwnerRests ==
  ASSUME todo'["owner"] = todo["owner"]
  PROVE  OwnerApart /\ OwnerCall' = OwnerCall
BY DEF OwnerApart, OwnerAt, OwnerCall

(* An event is posted by others than quit(). *)
LEMMA PostLives ==
  ASSUME IInv, LifeInv, todo'["owner"] = todo["owner"],
         NEW x \in {"packet", "heartbeat"}, m_eq' = Append(m_eq, x),
         m_state' = m_state, m_thread' = m_thread, worker' = worker,
         packets' + beats' = packets + beats + 1,
         packets + beats < MaxPackets + MaxBeats
  PROVE  LivesOn
<1>1. OwnerApart /\ OwnerCall' = OwnerCall
  BY OwnerRests
<1>2. WorkOf(m_eq)' = Append(WorkOf(m_eq), "work") /\ QuitTold' = QuitTold
  <2>1. m_eq \in Seq({"packet", "heartbeat", "quit"})
    BY DEF IInv, Types
  <2>2. WorkOf(m_eq') = Append(WorkOf(m_eq), "work") /\ (HasQuit(m_eq') <=> HasQuit(m_eq))
    BY <2>1, WorkOfAppend
  <2>. QED
    BY <2>2 DEF QuitTold, HasQuit, WorkOf
<1>3. LifeInv'
  BY <1>1, <1>2, ApartKeepsOrder DEF LifeInv, MarkTellsQuit
<1>4. Lifecycle!PostEvent
  BY <1>1, <1>2 DEF Lifecycle!PostEvent, OwnerApart, OwnerAt, WorkOf, QuitTold, HasQuit
<1>. QED
  BY <1>3, <1>4 DEF LivesOn, Lives, Lifecycle!Next

(* What innerRun() and the loop do to m_state: a worker that leaves the loop by
   its test has been told to, for the Quit event is still in the queue. *)
LEMMA WorkerLoopLives ==
  ASSUME IInv, LifeInv, WorkerLoop
  PROVE  LivesOn
<1>1. OwnerApart /\ OwnerCall' = OwnerCall /\ QuitOrder'
  <2>1. todo' = todo
    BY DEF WorkerLoop
  <2>. QED
    BY <2>1, OwnerRests, ApartKeepsOrder DEF LifeInv
<1>2. /\ m_thread' = m_thread /\ m_eq' = m_eq /\ packets' = packets /\ beats' = beats
      /\ HasQuit(m_eq)' = HasQuit(m_eq) /\ WorkOf(m_eq)' = WorkOf(m_eq) /\ OwnerAt' = OwnerAt
  BY <1>1, Same DEF WorkerLoop, EnvSame, HasQuit, WorkOf, OwnerApart
<1>3. ~Crashed /\ WorkerKnown /\ QuitHasWorker
      /\ m_state \in {"uninit", "running", "quit", "stopped"}
  BY AllKnown DEF WorkerLoop, Types
<1>4. CASE worker = "entering"
  <2>1. m_state' = "running" /\ worker' = "testing" /\ m_state = "uninit"
    BY <1>3, <1>4 DEF WorkerLoop, WorkerKnown
  <2>2. OwnerCall # "quitMark"
    <3>1. SUFFICES ASSUME OwnerCall = "quitMark"
                   PROVE  Has("owner", "quitMark")
      BY <1>3, <1>4 DEF QuitHasWorker
    <3>2. todo["owner"] # <<>> /\ Name(Head(todo["owner"])) = "quitMark"
      BY <3>1 DEF OwnerCall, Name
    <3>3. Head(todo["owner"]) \in Pending("owner") /\ Head(todo["owner"]) \in Tasks
      BY <3>2, BusyIs DEF IInv, Actors
    <3>. QED
      BY <3>2, <3>3, ByName DEF Has
  <2>3. QuitTold' = QuitTold
    BY <1>2, <1>4, <2>1 DEF QuitTold
  <2>4. LifeInv'
    BY <1>1, <2>1, <2>2 DEF LifeInv, MarkTellsQuit
  <2>5. Lifecycle!Enter
    BY <1>2, <1>4, <2>1, <2>3 DEF Lifecycle!Enter, OwnerAt, WorkOf, QuitTold, HasQuit
  <2>. QED
    BY <2>4, <2>5 DEF LivesOn, Lives, Lifecycle!Next, Lifecycle!WorkerStep
<1>5. CASE worker = "testing"
  <2>1. m_state' = m_state /\ worker' = IF m_state = "running" THEN "popping" ELSE "leaving"
    BY <1>5 DEF WorkerLoop
  <2>2. m_state \in {"running", "quit"}
    BY <1>3, <1>5 DEF WorkerKnown
  <2>3. QuitTold' = QuitTold
    BY <1>2, <1>5, <2>1, <2>2 DEF QuitTold, LifeInv, MarkTellsQuit
  <2>4. LifeInv'
    BY <1>1, <2>1, <2>3 DEF LifeInv, MarkTellsQuit
  <2>5. Lifecycle!LoopTest
    BY <1>2, <1>5, <2>1, <2>3 DEF Lifecycle!LoopTest, OwnerAt, WorkOf, QuitTold, HasQuit
  <2>. QED
    BY <2>4, <2>5 DEF LivesOn, Lives, Lifecycle!Next, Lifecycle!WorkerStep
<1>6. CASE worker = "handling"
  <2>1. m_state' = m_state /\ worker' = "testing"
    BY <1>6 DEF WorkerLoop
  <2>2. QuitTold' = QuitTold
    BY <1>2, <1>6, <2>1 DEF QuitTold
  <2>3. LifeInv'
    BY <1>1, <2>1, <2>2 DEF LifeInv, MarkTellsQuit
  <2>4. Lifecycle!LoopHandle
    BY <1>2, <1>6, <2>1, <2>2 DEF Lifecycle!LoopHandle, OwnerAt, WorkOf, QuitTold, HasQuit
  <2>. QED
    BY <2>3, <2>4 DEF LivesOn, Lives, Lifecycle!Next, Lifecycle!WorkerStep
<1>7. CASE worker = "leaving"
  <2>1. m_state' = "stopped" /\ worker' = "done"
    BY <1>7 DEF WorkerLoop
  <2>2. QuitTold' = QuitTold /\ QuitTold'
    BY <1>7, <2>1 DEF QuitTold
  <2>3. LifeInv'
    BY <1>1, <2>2 DEF LifeInv, MarkTellsQuit
  <2>4. Lifecycle!Leave
    BY <1>2, <1>7, <2>1, <2>2 DEF Lifecycle!Leave, OwnerAt, WorkOf, QuitTold, HasQuit
  <2>. QED
    BY <2>3, <2>4 DEF LivesOn, Lives, Lifecycle!Next, Lifecycle!WorkerStep
<1>. QED
  BY <1>4, <1>5, <1>6, <1>7 DEF WorkerLoop

(* The worker takes an event. *)
LEMMA WorkerPopLives ==
  ASSUME IInv, LifeInv, WorkerPop
  PROVE  LivesOn
<1>1. OwnerApart /\ OwnerCall' = OwnerCall /\ QuitOrder'
  <2>1. todo'["owner"] = todo["owner"]
    BY DEF WorkerPop, IInv, Types, Actors
  <2>. QED
    BY <2>1, OwnerRests, ApartKeepsOrder DEF LifeInv
<1>2. /\ worker = "popping" /\ m_eq # <<>> /\ m_eq' = Tail(m_eq)
      /\ worker' = IF Head(m_eq) = "quit" THEN "leaving" ELSE "handling"
      /\ m_state' = m_state /\ m_thread' = m_thread /\ packets' = packets /\ beats' = beats
  BY Same DEF WorkerPop, EnvSame
<1>3. m_eq \in Seq({"packet", "heartbeat", "quit"})
  BY DEF IInv, Types
<1>4. /\ WorkOf(m_eq) # <<>> /\ WorkOf(m_eq') = Tail(WorkOf(m_eq))
      /\ Head(WorkOf(m_eq)) = IF Head(m_eq) = "quit" THEN "quit" ELSE "work"
      /\ HasQuit(m_eq) => Head(m_eq) = "quit" \/ HasQuit(m_eq')
  BY <1>2, <1>3, WorkOfTail
<1>5. HasQuit(m_eq') \/ Head(m_eq) = "quit" => HasQuit(m_eq)
  <2>1. /\ Len(m_eq) >= 1 /\ Head(m_eq) = m_eq[1] /\ Len(m_eq) \in Nat
        /\ Len(Tail(m_eq)) = Len(m_eq) - 1
        /\ \A i \in 1..Len(Tail(m_eq)) : Tail(m_eq)[i] = m_eq[i + 1]
    BY <1>2, <1>3, HeadTailProperties, ItemsOf, LenProperties
  <2>2. ASSUME NEW i \in 1..Len(Tail(m_eq)), Tail(m_eq)[i] = "quit"
        PROVE  \E j \in 1..Len(m_eq) : m_eq[j] = "quit"
    <3>1. i + 1 \in 1..Len(m_eq) /\ m_eq[i + 1] = "quit"
      BY <2>1, <2>2
    <3>. QED
      BY <3>1
  <2>3. Head(m_eq) = "quit" => \E j \in 1..Len(m_eq) : m_eq[j] = "quit"
    BY <2>1
  <2>. QED
    BY <1>2, <2>2, <2>3 DEF HasQuit
<1>6. QuitTold' = QuitTold
  <2>1. QuitTold' <=> worker' \in {"leaving", "done"} \/ HasQuit(m_eq')
    BY DEF QuitTold, HasQuit
  <2>2. QuitTold' <=> QuitTold
    BY <1>2, <1>4, <1>5, <2>1 DEF QuitTold
  <2>3. QuitTold' \in BOOLEAN /\ QuitTold \in BOOLEAN
    BY DEF QuitTold, HasQuit
  <2>. QED
    BY <2>2, <2>3
<1>7. LifeInv'
  BY <1>1, <1>2, <1>6 DEF LifeInv, MarkTellsQuit
<1>8. WorkOf(m_eq)' = Tail(WorkOf(m_eq)) /\ OwnerAt' = OwnerAt
  BY <1>1, <1>4 DEF WorkOf, OwnerApart
<1>9. Lifecycle!LoopPop
  <2>. DEFINE w == WorkOf(m_eq)
  <2>1. w # <<>> /\ w' = Tail(w) /\ (Head(w) = "quit" <=> Head(m_eq) = "quit")
    BY <1>4, <1>8
  <2>2. worker' = IF Head(w) = "quit" THEN "leaving" ELSE "handling"
    BY <1>2, <2>1
  <2>. QED
    BY <1>2, <1>6, <1>8, <2>1, <2>2 DEF Lifecycle!LoopPop, OwnerAt, WorkOf, QuitTold, HasQuit
<1>. QED
  BY <1>7, <1>9 DEF LivesOn, Lives, Lifecycle!Next, Lifecycle!WorkerStep

(* The reader, the callback and the dispatch are no part of the Thread's life;
   a heartbeat and a packet are posted. *)
LEMMA OthersLive ==
  ASSUME IInv, LifeInv, ReadLoop \/ HeartbeatLoop \/ SetStatusCallback \/ ExecutePacket \/ Dispatch
  PROVE  LivesOn
<1>1. Types
  BY DEF IInv
<1>2. CASE ReadLoop \/ SetStatusCallback
  <2>1. todo' = todo /\ ThreadSame /\ packets' = packets /\ beats' = beats
    BY <1>2, Same DEF ReadLoop, SetStatusCallback, EnvSame
  <2>. QED
    BY <2>1, OwnerRests, ApartLivesOn
<1>3. CASE Dispatch
  <2>1. ThreadSame /\ packets' = packets /\ beats' = beats
    BY <1>3, Same DEF Dispatch, EnvSame
  <2>2. todo'["owner"] = todo["owner"]
    BY <1>1, <1>3 DEF Dispatch, GoOn, Types, Actors
  <2>. QED
    BY <2>1, <2>2, OwnerRests, ApartLivesOn
<1>4. CASE HeartbeatLoop
  <2>1. todo' = todo /\ m_state' = m_state /\ m_thread' = m_thread /\ worker' = worker
        /\ packets' = packets
    BY <1>4 DEF HeartbeatLoop
  <2>2. \/ m_eq' = m_eq /\ beats' = beats
        \/ beat = "posting" /\ m_eq' = Append(m_eq, "heartbeat") /\ beats' = beats + 1
    BY <1>4 DEF HeartbeatLoop
  <2>3. CASE m_eq' = m_eq /\ beats' = beats
    BY <2>1, <2>3, OwnerRests, ApartLivesOn DEF ThreadSame
  <2>4. CASE beat = "posting" /\ m_eq' = Append(m_eq, "heartbeat") /\ beats' = beats + 1
    <3>1. packets + beats < MaxPackets + MaxBeats /\ packets' + beats' = packets + beats + 1
      BY <1>1, <2>1, <2>4, DeviceAssumption DEF Types
    <3>. QED
      BY <2>1, <2>4, <3>1, PostLives
  <2>. QED
    BY <2>2, <2>3, <2>4
<1>5. CASE ExecutePacket
  <2>1. /\ todo' = todo /\ m_state' = m_state /\ m_thread' = m_thread /\ worker' = worker
        /\ m_eq' = Append(m_eq, "packet") /\ packets' = packets + 1 /\ beats' = beats
        /\ packets < MaxPackets
    BY <1>5 DEF ExecutePacket
  <2>2. packets + beats < MaxPackets + MaxBeats /\ packets' + beats' = packets + beats + 1
    BY <1>1, <2>1, DeviceAssumption DEF Types
  <2>. QED
    BY <2>1, <2>2, PostLives
<1>. QED
  BY <1>2, <1>3, <1>4, <1>5

(* The owner's calls begin with other steps than those. *)
LEMMA CallLives ==
  ASSUME IInv, LifeInv, Call
  PROVE  LivesOn
<1>1. /\ \A s : StartsWith(Do(s), s) /\ StartsWith(SetTo(s), "set")
      /\ \A b, n, s : StartsWith(b, n) => StartsWith(b \o Do(s), n)
      /\ \A b, n : StartsWith(b, n) => StartsWith(b \o <<>>, n)
  <2>1. \A s : StartsWith(Do(s), s) /\ StartsWith(SetTo(s), "set")
    BY FirstStep DEF Do, SetTo
  <2>2. ASSUME NEW b, NEW n, NEW s, StartsWith(b, n)
        PROVE  StartsWith(b \o Do(s), n)
    <3>1. PICK S : Do(s) \in Seq(S)
      BY FirstStep DEF Do
    <3>. QED
      BY <2>2, <3>1, FirstStep
  <2>3. ASSUME NEW b, NEW n, StartsWith(b, n)
        PROVE  StartsWith(b \o <<>>, n)
    <3>1. <<>> \in Seq({})
      OBVIOUS
    <3>. QED
      BY <2>3, <3>1, FirstStep
  <2>. QED
    BY <2>1, <2>2, <2>3
<1>2. StartsWith(InitTasks, "set")
  BY <1>1 DEF InitTasks
<1>3. \E n \in {"connect", "start"} : StartsWith(StartTasks, n)
  <2>1. StartsWith(Do("connect") \o Do("start") \o Do("startReader") \o Do("send"), "connect")
    BY <1>1
  <2>2. StartsWith(Do("connect") \o Do("start") \o Do("startHeartbeat"), "connect")
    BY <1>1
  <2>. QED
    BY <1>1, <2>1, <2>2 DEF StartTasks
<1>4. \E n \in {"report", "stopHeartbeat", "stop"} : StartsWith(StopTasks, n)
  <2>1. StartsWith(Do("report") \o Do("stopReader") \o Do("stop"), "report")
    BY <1>1
  <2>2. StartsWith(Do("stopHeartbeat") \o Do("joinHeartbeat") \o Do("close") \o Do("stop"),
                   "stopHeartbeat")
    BY <1>1
  <2>. QED
    BY <1>1, <2>1, <2>2 DEF StopTasks
<1>5. \E n \in {"report", "stopHeartbeat", "stop", "close"} : StartsWith(DeleteTasks, n)
  <2>. DEFINE b == IF kind = "sound" THEN StopTasks ELSE Do("close")
  <2>1. PICK n \in {"report", "stopHeartbeat", "stop", "close"} : StartsWith(b, n)
    BY <1>1, <1>4
  <2>2. DeleteTasks = b \o Do("stop") \o Do("endThread")
    BY DEF DeleteTasks
  <2>. HIDE DEF b
  <2>3. StartsWith(b \o Do("stop") \o Do("endThread"), n)
    BY <1>1, <2>1
  <2>. QED
    BY <2>2, <2>3
<1>6. /\ \E b \in {InitTasks, DeleteTasks, StartTasks, StopTasks} :
           todo' = [todo EXCEPT !["owner"] = b]
      /\ todo["owner"] = <<>> /\ ThreadSame /\ packets' = packets /\ beats' = beats
  <2>1. todo["owner"] = <<>> /\ ThreadSame /\ packets' = packets /\ beats' = beats
    BY Same DEF Call
  <2>. DEFINE a == InitTasks
              b == StartTasks
              c == StopTasks
              d == DeleteTasks
              Takes(step) == todo' = [todo EXCEPT !["owner"] = step[3]]
  <2>2. \E step \in {<<"new", "init", a>>, <<"new", "delete", d>>, <<"init", "start", b>>,
                     <<"start", "stop", c>>, <<"stop", "delete", d>>} : Takes(step)
    BY DEF Call
  <2>. HIDE DEF a, b, c, d, Takes
  <2>3. \/ Takes(<<"new", "init", a>>) \/ Takes(<<"new", "delete", d>>)
        \/ Takes(<<"init", "start", b>>) \/ Takes(<<"start", "stop", c>>)
        \/ Takes(<<"stop", "delete", d>>)
    BY <2>2
  <2>4. \E e \in {a, b, c, d} : todo' = [todo EXCEPT !["owner"] = e]
    BY <2>3 DEF Takes
  <2>. QED
    BY <2>1, <2>4 DEF a, b, c, d
<1>7. OwnerCall \notin Quits /\ OwnerCall' \notin Quits
  <2>1. PICK b \in {InitTasks, DeleteTasks, StartTasks, StopTasks} :
          todo' = [todo EXCEPT !["owner"] = b]
    BY <1>6
  <2>2. todo'["owner"] = b
    BY <2>1 DEF IInv, Types, Actors
  <2>3. PICK n \in {"set", "connect", "start", "report", "stopHeartbeat", "stop", "close"} :
          StartsWith(b, n)
    BY <1>2, <1>3, <1>4, <1>5, <2>1
  <2>4. b # <<>> /\ Head(b)[1] = n
    BY <2>3 DEF StartsWith
  <2>. QED
    BY <1>6, <2>2, <2>3, <2>4 DEF OwnerCall, Quits, Quitting
<1>8. OwnerApart
  BY <1>7, OwnerAtIs DEF OwnerApart, OwnerAt, Quits, Quitting
<1>. QED
  BY <1>6, <1>8, ApartLivesOn

(* Every step of a device is one of its Thread, or none. *)
LEMMA StepLives ==
  ASSUME IInv, LifeInv, [Next]_vars
  PROVE  LivesOn
<1>1. CASE UNCHANGED vars
  <2>1. todo' = todo /\ ThreadSame /\ packets' = packets /\ beats' = beats
    BY <1>1 DEF vars, threadVars, envVars, ThreadSame
  <2>. QED
    BY <2>1, OwnerRests, ApartLivesOn
<1>2. CASE WorkerStep
  <2>1. CASE Body("worker")
    BY <2>1, BodyStaysApart, ApartLivesOn DEF Actors
  <2>. QED
    BY <1>2, <2>1, WorkerLoopLives, WorkerPopLives, OthersLive DEF WorkerStep
<1>. QED
  BY <1>1, <1>2, OwnerLives, CallLives, OthersLive DEF Next

(* The thread of a device lives as ThreadLifecycle says, whatever the drivers
   do in between: the device starts, quits and joins it as its owner there,
   and packets and heartbeats are its events.  (Without the fairness.) *)
THEOREM ImplementsThread == Safety => ImplementsLifecycle
<1>1. Init => LifeInv /\ Lifecycle!Init
  <2>1. SUFFICES ASSUME Init
                 PROVE  LifeInv /\ Lifecycle!Init
    OBVIOUS
  <2>2. /\ OwnerCall = "none" /\ OwnerAt = "idle" /\ WorkOf(m_eq) = <<>> /\ ~QuitTold
        /\ m_state = "uninit" /\ m_thread = FALSE /\ worker = "none" /\ packets + beats = 0
    <3>1. todo["owner"] = <<>> /\ m_eq = <<>> /\ Len(m_eq) = 0
      BY <2>1 DEF Init, Actors
    <3>2. ~HasQuit(m_eq)
      BY <3>1 DEF HasQuit
    <3>3. WorkOf(m_eq) = <<>>
      BY <3>1 DEF WorkOf
    <3>. QED
      BY <2>1, <3>1, <3>2, <3>3 DEF Init, OwnerCall, OwnerAt, QuitTold
  <2>3. LifeInv
    BY <2>2 DEF LifeInv, QuitOrder, MarkTellsQuit
  <2>4. Lifecycle!Init
    BY <2>2 DEF Lifecycle!Init, OwnerAt, WorkOf, QuitTold, HasQuit
  <2>. QED
    BY <2>3, <2>4
<1>2. IInv /\ LifeInv /\ [Next]_vars => LifeInv' /\ [Lifecycle!Next]_(Lifecycle!vars)
  BY StepLives DEF LivesOn, Lives
<1>. QED
  BY <1>1, <1>2, DeviceInvariant, PTL DEF Safety, ImplementsLifecycle, Lifecycle!Safety
=============================================================================
