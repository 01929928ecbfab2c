------------------------------- MODULE Commands -------------------------------
(***************************************************************************)
(* The path of a command: a call of EchoControlSDK.h becomes a packet, the *)
(* packet an event of its device's queue, the handler's table finds what   *)
(* the driver does with it, and the driver writes a frame of the device's  *)
(* own protocol: Pelco-D to the light and the PTZ, a numbered JSON command *)
(* to the loudspeaker.  ECCS_Release stops the devices while commands are  *)
(* queued, and what is queued by then is not handled any more.             *)
(* There is at most one device of each kind that can be made (Sdk).  A     *)
(* worker handles an event in one step: what a device's threads do to each *)
(* other inside it is in Device, the audio stream SetMic switches in       *)
(* AudioPath.  A write sends a frame as a whole or fails: how a stream is  *)
(* cut is in TcpStream.                                                    *)
(***************************************************************************)
EXTENDS DeviceIds

CONSTANTS
  Fleets,                             \* sets of kinds: what device.cfg may have devices of
  Levels, Speeds, Indexes, Volumes,   \* what a client passes, in the documented ranges
  Texts,                              \* names of files, texts to speak
  MaxCalls,                           \* bound: control calls
  MaxBeats                            \* bound: heartbeats

VARIABLES
  client,   \* "calls", "releases" while it is in ECCS_Release, "released"
  asked,    \* kind -> the control calls that found the device, with their fate
  m_eq,     \* kind -> its event queue
  dev,      \* kind -> its device: state, socket and flags, where Stop() is and
            \* where its worker is, and the events popped since TS_QUIT was set
  wire,     \* kind -> the frames the device has received
  m_cseq,   \* the loudspeaker's number of commands
  beats     \* heartbeats so far

vars == <<client, asked, m_eq, dev, wire, m_cseq, beats>>

Kinds == {Types.LIGHT, Types.SOUND, Types.PTZ}

-----------------------------------------------------------------------------
(* protocol/Packet_ID.h, Packet_Def.h: the requests and their IDs          *)

Control(type, idx) == type * 2^24 + 2 * 2^16 + idx
Setting(type, idx) == type * 2^24 + 4 * 2^16 + idx

Rq == [ LightSwitch |-> Control(Types.LIGHT, 1), LightLevel |-> Control(Types.LIGHT, 2),
        LightStrobe |-> Control(Types.LIGHT, 3),
        SoundPlay |-> Control(Types.SOUND, 1), SoundStop |-> Control(Types.SOUND, 2),
        SoundTTS |-> Control(Types.SOUND, 3), SoundMic |-> Control(Types.SOUND, 4),
        SetSoundVolume |-> Setting(Types.SOUND, 1),
        PtzMove |-> Control(Types.PTZ, 1), PtzStop |-> Control(Types.PTZ, 2),
        PtzPreset |-> Control(Types.PTZ, 3) ]

-----------------------------------------------------------------------------
(* EchoControlSDK.cpp: what a client may call, and the packet it becomes   *)

Calls ==
  [name: {"Light_SetSwitch", "Light_SetStrobe", "Sound_SetMic"}, isOpen: {0, 1}]
  \cup [name: {"Light_SetLevel"}, level: Levels]
  \cup [name: {"PTZ_Move"}, action: 1..5, speed: Speeds]
  \cup [name: {"PTZ_Preset"}, action: {1, 2}, index: Indexes]
  \cup [name: {"Sound_Play"}, filename: Texts]
  \cup [name: {"Sound_Stop"}]
  \cup [name: {"Sound_SetVolume"}, volume: Volumes]
  \cup [name: {"Sound_TTS"}, text: Texts]

u8(n) == n % 2^8

Packet(c) ==
  CASE c.name = "Light_SetSwitch" -> [id |-> Rq.LightSwitch, data |-> c.isOpen # 0]
    [] c.name = "Light_SetLevel"  -> [id |-> Rq.LightLevel, data |-> u8(c.level)]
    [] c.name = "Light_SetStrobe" -> [id |-> Rq.LightStrobe, data |-> c.isOpen # 0]
    [] c.name = "PTZ_Move"   -> [id |-> Rq.PtzMove, data |-> <<u8(c.action), u8(c.speed)>>]
    [] c.name = "PTZ_Preset" -> [id |-> Rq.PtzPreset, data |-> <<u8(c.action), u8(c.index)>>]
    [] c.name = "Sound_Play" -> [id |-> Rq.SoundPlay, data |-> c.filename]
    [] c.name = "Sound_Stop" -> [id |-> Rq.SoundStop, data |-> "none"]
    [] c.name = "Sound_SetVolume" -> [id |-> Rq.SetSoundVolume, data |-> u8(c.volume)]
    [] c.name = "Sound_TTS"    -> [id |-> Rq.SoundTTS, data |-> c.text]
    [] c.name = "Sound_SetMic" -> [id |-> Rq.SoundMic, data |-> c.isOpen # 0]

\* The type PostPkt() looks for.
Target(c) ==
  CASE c.name \in {"Light_SetSwitch", "Light_SetLevel", "Light_SetStrobe"} -> Types.LIGHT
    [] c.name \in {"PTZ_Move", "PTZ_Preset"} -> Types.PTZ
    [] OTHER -> Types.SOUND

-----------------------------------------------------------------------------
(* The drivers: the frame a command becomes                                *)

\* Seven bytes, the last one the sum of those behind the first.
Frame(addr, cmd1, cmd2, d1, d2) ==
  <<255, addr, cmd1, cmd2, d1, d2, u8(addr + cmd1 + cmd2 + d1 + d2)>>

SetSwitch(isOpen) == Frame(1, 0, IF isOpen THEN 31 ELSE 47, 0, 0)
SetStrobe(isOpen) == Frame(1, 0, IF isOpen THEN 63 ELSE 79, 0, 0)

(* Mutant of SetBrightness: the product is taken in eight bits. *)
SetBrightnessInBytes(level) == Frame(1, 0, 159, 0, u8(level * 255) \div 100)

SetBrightness(level) ==
  LET current == (level * 255) \div 100
  IN  Frame(1, 0, 159, current \div 2^8, current % 2^8)

PtzMove(action, speed) ==
  CASE action = 1 -> Frame(1, 0, 8, 0, speed)
    [] action = 2 -> Frame(1, 0, 16, 0, speed)
    [] action = 3 -> Frame(1, 0, 4, speed, 0)
    [] action = 4 -> Frame(1, 0, 2, speed, 0)
    [] OTHER -> Frame(1, 0, 0, 0, 0)

PtzStop == Frame(1, 0, 0, 0, 0)

PtzPreset(action, index) == Frame(1, 0, IF action = 2 THEN 7 ELSE 3, 0, index)

AngleReport(on) == Frame(1, 0, IF on THEN 9 ELSE 11, 0, 5)

\* A JSON command gets the next number, whether or not it will be sent.
BuildJson(cmd, param) == [command |-> cmd, cseq |-> m_cseq + 1, param |-> param]

PlayFile(filename) == BuildJson("start_play", filename)
StopPlay           == BuildJson("stop_play", "none")
TTSPlay(text)      == BuildJson("start_tts_play", text)
SetMic(isOpen)     == BuildJson("model_change", IF isOpen THEN "mic_broadcast" ELSE "idle")
SetVolume(vol)     == BuildJson("set_vol", vol)

\* EchoControlHandler's table.  PtzStop is in it, but no call posts it.
Handler(p) ==
  CASE p.id = Rq.LightSwitch -> SetSwitch(p.data)
    [] p.id = Rq.LightLevel  -> SetBrightness(p.data)
    [] p.id = Rq.LightStrobe -> SetStrobe(p.data)
    [] p.id = Rq.PtzMove     -> PtzMove(p.data[1], p.data[2])
    [] p.id = Rq.PtzStop     -> PtzStop
    [] p.id = Rq.PtzPreset   -> PtzPreset(p.data[1], p.data[2])
    [] p.id = Rq.SoundPlay   -> PlayFile(p.data)
    [] p.id = Rq.SoundStop   -> StopPlay
    [] p.id = Rq.SoundTTS    -> TTSPlay(p.data)
    [] p.id = Rq.SoundMic    -> SetMic(p.data)
    [] p.id = Rq.SetSoundVolume -> SetVolume(p.data)

-----------------------------------------------------------------------------
(* Connecting and sending                                                  *)

Transitions ==
  {<<"INITIALIZED", "OFFLINE">>, <<"INITIALIZED", "CONNECTING">>, <<"OFFLINE", "CONNECTING">>,
   <<"OFFLINE", "ERROR">>, <<"CONNECTING", "ONLINE">>, <<"CONNECTING", "OFFLINE">>,
   <<"CONNECTING", "ERROR">>, <<"ONLINE", "OFFLINE">>, <<"ONLINE", "ERROR">>, <<"ERROR", "OFFLINE">>}

\* A refused change leaves the state as it is, and the caller does not notice.
SetState(d, s) ==
  IF <<d.m_devState, s>> \in Transitions /\ (d.m_shuttingDown => s = "OFFLINE")
  THEN [d EXCEPT !.m_devState = s] ELSE d

\* What Connect() may leave behind; it returned true if the socket is open.
Connect(d) ==
  IF d.m_devState = "ONLINE" /\ d.open THEN {d}
  ELSE LET c == SetState(d, "CONNECTING")
       IN {[SetState(c, "ONLINE") EXCEPT !.open = TRUE], [SetState(c, "OFFLINE") EXCEPT !.open = FALSE]}

\* A frame is sent: no connection, a failing write, or it arrives.
Send(d) ==
  UNION {IF ~c.open THEN {[dev |-> c, sent |-> FALSE]}
         ELSE {[dev |-> c, sent |-> TRUE],
               [dev |-> [SetState(c, "ERROR") EXCEPT !.open = FALSE], sent |-> FALSE]}
         : c \in Connect(d)}

\* What Init() and Start() make of a device: the PTZ also asks for its angles.
Started(kind) ==
  LET new == [m_devState |-> "INITIALIZED", open |-> FALSE, m_shuttingDown |-> FALSE,
              m_state |-> "UNINIT", at |-> "running", worker |-> "starting", late |-> 0]
  IN IF kind = Types.PTZ THEN UNION {Send(c) : c \in Connect(new)}
     ELSE {[dev |-> c, sent |-> FALSE] : c \in Connect(new)}

\* A device that the configuration does not have: nothing runs, nothing is to stop.
Absent == [m_devState |-> "OFFLINE", open |-> FALSE, m_shuttingDown |-> TRUE,
           m_state |-> "STOPPED", at |-> "stopped", worker |-> "ended", late |-> 0]
Begins(fleet, kind) == IF kind \in fleet THEN Started(kind) ELSE {[dev |-> Absent, sent |-> FALSE]}

Init ==
  /\ client = "calls"
  /\ asked = [k \in Kinds |-> <<>>] /\ m_eq = [k \in Kinds |-> <<>>]
  /\ \E fleet \in Fleets : \E r \in [Kinds -> UNION {Begins(fleet, k) : k \in Kinds}] :
       /\ \A k \in Kinds : r[k] \in Begins(fleet, k)
       /\ dev = [k \in Kinds |-> r[k].dev]
       /\ wire = [k \in Kinds |-> IF r[k].sent THEN <<AngleReport(TRUE)>> ELSE <<>>]
  /\ m_cseq = 0 /\ beats = 0

-----------------------------------------------------------------------------
(* The client's calls                                                      *)

Total == Len(asked[Types.LIGHT]) + Len(asked[Types.SOUND]) + Len(asked[Types.PTZ])

\* PostPkt() answers ECCS_SUCCESS, whatever becomes of the packet.  Without a
\* device of the type it only answers so.
PostPkt(c) ==
  /\ client = "calls" /\ Total < MaxCalls /\ dev[Target(c)].at = "running"
  /\ LET k == Target(c) IN
     /\ asked' = [asked EXCEPT ![k] = Append(@, [call |-> c, fate |-> "queued"])]
     /\ m_eq' = [m_eq EXCEPT ![k] = Append(@, [event |-> "PacketArrival", packet |-> Packet(c)])]
  /\ UNCHANGED <<client, dev, wire, m_cseq, beats>>

ReleaseBegin ==
  /\ client = "calls" /\ client' = "releases"
  /\ UNCHANGED <<asked, m_eq, dev, wire, m_cseq, beats>>

\* Stop() of the driver: the loudspeaker closes its socket, the PTZ sends a
\* last frame.  One device is stopped after the other, in the order of their slots.
StopDriver(k) ==
  /\ client = "releases" /\ dev[k].at = "running"
  /\ \A o \in Kinds : o < k => dev[o].at = "stopped"
  /\ \E r \in (IF k = Types.PTZ /\ dev[k].m_devState = "ONLINE" THEN Send(dev[k])
               ELSE {[dev |-> [dev[k] EXCEPT !.open = @ /\ k # Types.SOUND], sent |-> FALSE]}) :
       /\ dev' = [dev EXCEPT ![k] = [r.dev EXCEPT !.at = "stopping"]]
       /\ wire' = [wire EXCEPT ![k] = IF r.sent THEN Append(@, AngleReport(FALSE)) ELSE @]
  /\ UNCHANGED <<client, asked, m_eq, m_cseq, beats>>

(* Mutant of StopPost: no Quit is posted. *)
StopPostNothing(k) ==
  /\ dev[k].at = "stopping"
  /\ dev' = [dev EXCEPT ![k].m_shuttingDown = TRUE,
                        ![k].at = IF dev[k].m_state = "RUNNING" THEN "posted" ELSE "joining"]
  /\ UNCHANGED <<client, asked, m_eq, wire, m_cseq, beats>>

\* DeviceBase::Stop(): quit() posts behind what is queued.  It does nothing if
\* the new thread has not come as far as RUNNING.
StopPost(k) ==
  /\ dev[k].at = "stopping"
  /\ LET runs == dev[k].m_state = "RUNNING" IN
     /\ dev' = [dev EXCEPT ![k].m_shuttingDown = TRUE,
                           ![k].at = IF runs THEN "posted" ELSE "joining"]
     /\ m_eq' = [m_eq EXCEPT ![k] = IF runs THEN Append(@, [event |-> "Quit"]) ELSE @]
  /\ UNCHANGED <<client, asked, wire, m_cseq, beats>>

\* quit() goes on and sets TS_QUIT, whatever the worker has set meanwhile.
StopFlag(k) ==
  /\ dev[k].at = "posted"
  /\ dev' = [dev EXCEPT ![k].m_state = "QUIT", ![k].at = "joining"]
  /\ UNCHANGED <<client, asked, m_eq, wire, m_cseq, beats>>

\* join() has waited for the worker.
StopReturn(k) ==
  /\ dev[k].at = "joining" /\ dev[k].worker = "ended"
  /\ dev' = [dev EXCEPT ![k] = [SetState(@, "OFFLINE") EXCEPT !.at = "stopped"]]
  /\ UNCHANGED <<client, asked, m_eq, wire, m_cseq, beats>>

ReleaseReturn ==
  /\ client = "releases" /\ \A k \in Kinds : dev[k].at = "stopped"
  /\ client' = "released"
  /\ UNCHANGED <<asked, m_eq, dev, wire, m_cseq, beats>>

-----------------------------------------------------------------------------
(* The threads of a device                                                 *)

HeartbeatLoop ==
  /\ dev[Types.SOUND].at = "running" /\ dev[Types.SOUND].m_devState = "ONLINE" /\ beats < MaxBeats
  /\ beats' = beats + 1
  /\ m_eq' = [m_eq EXCEPT ![Types.SOUND] = Append(@, [event |-> "Heartbeat"])]
  /\ UNCHANGED <<client, asked, dev, wire, m_cseq>>

\* innerRun()
Begin(k) ==
  /\ dev[k].worker = "starting"
  /\ dev' = [dev EXCEPT ![k].m_state = "RUNNING", ![k].worker = "testing"]
  /\ UNCHANGED <<client, asked, m_eq, wire, m_cseq, beats>>

Ended(d) == [d EXCEPT !.worker = "ended", !.m_state = "STOPPED"]

(* Mutant of TestState: run() loops for ever. *)
TestNothing(k) ==
  /\ dev[k].worker = "testing"
  /\ dev' = [dev EXCEPT ![k].worker = "popping"]
  /\ UNCHANGED <<client, asked, m_eq, wire, m_cseq, beats>>

\* run() goes on while the thread is RUNNING.
TestState(k) ==
  /\ dev[k].worker = "testing"
  /\ dev' = [dev EXCEPT ![k] = IF @.m_state = "RUNNING" THEN [@ EXCEPT !.worker = "popping"]
                               ELSE Ended(@)]
  /\ UNCHANGED <<client, asked, m_eq, wire, m_cseq, beats>>

\* pop() returns an event.
Pops(k, event) == dev[k].worker = "popping" /\ m_eq[k] # <<>> /\ Head(m_eq[k]).event = event

\* It has been handled, and run() looks at the state again.
Handled(d) == [d EXCEPT !.worker = "testing", !.late = IF d.m_state = "QUIT" THEN @ + 1 ELSE @]

\* The first call that waits is the one whose packet comes first.
Settle(k, fate) ==
  LET n == CHOOSE i \in DOMAIN asked[k] :
             asked[k][i].fate = "queued" /\ \A j \in 1..(i - 1) : asked[k][j].fate # "queued"
  IN  asked' = [asked EXCEPT ![k][n].fate = fate]

\* run(): a packet for a device that is not online is thrown away.
Reject(k) ==
  /\ Pops(k, "PacketArrival") /\ dev[k].m_devState # "ONLINE"
  /\ m_eq' = [m_eq EXCEPT ![k] = Tail(@)] /\ Settle(k, "dropped")
  /\ dev' = [dev EXCEPT ![k] = Handled(@)]
  /\ UNCHANGED <<client, wire, m_cseq, beats>>

\* run(), Dispatch(), the driver's command.
Dispatch(k) ==
  /\ Pops(k, "PacketArrival") /\ dev[k].m_devState = "ONLINE"
  /\ m_eq' = [m_eq EXCEPT ![k] = Tail(@)]
  /\ m_cseq' = IF k = Types.SOUND THEN m_cseq + 1 ELSE m_cseq
  /\ \E r \in Send(dev[k]) :
       /\ dev' = [dev EXCEPT ![k] = Handled(r.dev)]
       /\ wire' = [wire EXCEPT ![k] = IF r.sent THEN Append(@, Handler(Head(m_eq[k]).packet)) ELSE @]
       /\ Settle(k, IF r.sent THEN "sent" ELSE "dropped")
  /\ UNCHANGED <<client, beats>>

\* OnCustomEvent(): a heartbeat is sent in any state.
Heartbeat(k) ==
  /\ Pops(k, "Heartbeat")
  /\ m_eq' = [m_eq EXCEPT ![k] = Tail(@)]
  /\ m_cseq' = m_cseq + 1
  /\ \E r \in Send(dev[k]) :
       /\ dev' = [dev EXCEPT ![k] = Handled(r.dev)]
       /\ wire' = [wire EXCEPT ![k] = IF r.sent THEN Append(@, BuildJson("online", "none")) ELSE @]
  /\ UNCHANGED <<client, asked, beats>>

\* run() ends at the quit; what is behind it is not handled.
Quit(k) ==
  /\ Pops(k, "Quit")
  /\ m_eq' = [m_eq EXCEPT ![k] = Tail(@)]
  /\ dev' = [dev EXCEPT ![k] = Ended(@)]
  /\ UNCHANGED <<client, asked, wire, m_cseq, beats>>

\* ECCS_Release goes on, and a device's worker does.
Releases ==
  ReleaseReturn \/ \E k \in Kinds : StopDriver(k) \/ StopPost(k) \/ StopFlag(k) \/ StopReturn(k)
Works(k) ==
  Begin(k) \/ TestState(k) \/ Reject(k) \/ Dispatch(k) \/ Heartbeat(k) \/ Quit(k)

Next ==
  \/ \E c \in Calls : PostPkt(c)
  \/ ReleaseBegin \/ Releases \/ HeartbeatLoop
  \/ \E k \in Kinds : Works(k)

Spec == Init /\ [][Next]_vars

-----------------------------------------------------------------------------
(* What a device understands                                               *)

IsFrame(f) == f[1] = 255 /\ f[2] = 1 /\ f[7] = (f[2] + f[3] + f[4] + f[5] + f[6]) % 256

\* The brightness of 0 to 255 as the level of 0 to 100 it comes from.
LevelOf(f) == ((f[5] * 256 + f[6]) * 100 + 254) \div 255

Understood(k, f) ==
  CASE k = Types.SOUND ->
         CASE f.command = "start_play" -> [name |-> "Sound_Play", filename |-> f.param]
           [] f.command = "stop_play" -> [name |-> "Sound_Stop"]
           [] f.command = "start_tts_play" -> [name |-> "Sound_TTS", text |-> f.param]
           [] f.command = "set_vol" -> [name |-> "Sound_SetVolume", volume |-> f.param]
           [] OTHER -> [name |-> "Sound_SetMic", isOpen |-> IF f.param = "mic_broadcast" THEN 1 ELSE 0]
    [] k = Types.LIGHT ->
         CASE f[4] \in {31, 47} -> [name |-> "Light_SetSwitch", isOpen |-> IF f[4] = 31 THEN 1 ELSE 0]
           [] f[4] \in {63, 79} -> [name |-> "Light_SetStrobe", isOpen |-> IF f[4] = 63 THEN 1 ELSE 0]
           [] OTHER -> [name |-> "Light_SetLevel", level |-> LevelOf(f)]
    [] k = Types.PTZ ->
         CASE f[4] = 8  -> [name |-> "PTZ_Move", action |-> 1, speed |-> f[6]]
           [] f[4] = 16 -> [name |-> "PTZ_Move", action |-> 2, speed |-> f[6]]
           [] f[4] = 4  -> [name |-> "PTZ_Move", action |-> 3, speed |-> f[5]]
           [] f[4] = 2  -> [name |-> "PTZ_Move", action |-> 4, speed |-> f[5]]
           [] f[4] = 0  -> [name |-> "PTZ_Move", action |-> 5, speed |-> 0]
           [] OTHER -> [name |-> "PTZ_Preset", action |-> IF f[4] = 7 THEN 2 ELSE 1, index |-> f[6]]

\* Frames no call asked for: the angle report and the heartbeat.
Own(k, f) ==
  \/ k = Types.PTZ /\ f \in {AngleReport(TRUE), AngleReport(FALSE)}
  \/ k = Types.SOUND /\ f.command = "online"

\* The frames that are commands, and the calls whose frame was sent.
Heard(k) == {i \in DOMAIN wire[k] : ~Own(k, wire[k][i])}
Sent(k) == {i \in DOMAIN asked[k] : asked[k][i].fate = "sent"}

\* Each number of A has one of B of its own, in the same order, and none is left over.
InOrder(of, A, B) ==
  /\ of \in [A -> B] /\ \A b \in B : \E a \in A : of[a] = b
  /\ \A a, c \in A : a < c => of[a] < of[c]

\* A call as the device has to understand it: a stop has no speed.
Meant(c) == IF c.name = "PTZ_Move" /\ c.action = 5 THEN [c EXCEPT !.speed = 0] ELSE c

-----------------------------------------------------------------------------
(* Properties                                                              *)

TypeOK ==
  /\ client \in {"calls", "releases", "released"}
  /\ \A k \in Kinds :
       /\ dev[k].m_devState \in {"ONLINE", "OFFLINE", "ERROR"} /\ dev[k].open \in BOOLEAN
       /\ \A i \in DOMAIN asked[k] : asked[k][i].call \in Calls
       /\ k # Types.SOUND => \A i \in DOMAIN wire[k] : IsFrame(wire[k][i])
  /\ m_cseq \in 0..(MaxCalls + MaxBeats) /\ beats \in 0..MaxBeats

(* The numbers of the commands a loudspeaker receives rise, though commands
   that were not sent and heartbeats take numbers as well. *)
NumbersRise ==
  \A i, j \in DOMAIN wire[Types.SOUND] :
    i < j => wire[Types.SOUND][i].cseq < wire[Types.SOUND][j].cseq

(* Whatever fails or reconnects on the way, a device understands what its
   client asked for, each call that was not dropped once and in the order of the
   calls: nothing is invented, repeated or taken for another command, and
   a level survives its conversion. *)
CommandsArrive ==
  /\ TypeOK /\ NumbersRise
  /\ \A k \in Kinds : \E of \in [Heard(k) -> Sent(k)] :
       /\ InOrder(of, Heard(k), Sent(k))
       /\ \A i \in Heard(k) : Understood(k, wire[k][i]) = Meant(asked[k][of[i]].call)

(* The calls of a device that nobody has handled, and the packets in its queue. *)
Waiting(k) == {i \in DOMAIN asked[k] : asked[k][i].fate = "queued"}
Left(k) == {i \in DOMAIN m_eq[k] : m_eq[k][i].event = "PacketArrival"}

(* ECCS_Release cuts a device off: once quit() has set TS_QUIT the worker takes
   at most one event more.  The calls it leaves, though they were answered with
   success, are the last ones of the device, and their packets are what stays
   behind in its queue, each once and in order. *)
StopCutsOff ==
  \A k \in Kinds :
    /\ dev[k].late <= 1
    /\ \A i \in Waiting(k), j \in DOMAIN asked[k] : i < j => j \in Waiting(k)
    /\ \E of \in [Left(k) -> Waiting(k)] :
         /\ InOrder(of, Left(k), Waiting(k))
         /\ \A i \in Left(k) : m_eq[k][i].packet = Packet(asked[k][of[i]].call)

(* Stop() found that the device's thread had not begun, and waits in join() for
   a thread that nobody has told to quit. *)
Hangs(k) ==
  client = "releases" /\ dev[k].at = "joining" /\ dev[k].m_state \in {"UNINIT", "RUNNING"}

(* ECCS_Release returns, wherever the workers are and whatever is queued,
   unless a Stop() hangs. *)
ReleaseEnds == client = "releases" ~> (client = "released" \/ \E k \in Kinds : Hangs(k))
=============================================================================
