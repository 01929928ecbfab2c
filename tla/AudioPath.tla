------------------------------ MODULE AudioPath ------------------------------
(***************************************************************************)
(* How live speech travels through Sound_NetSpeaker_V2: a client thread    *)
(* pushes it (ECCS_Sound_PushData, PushAudio) into a RingBuffer, the audio *)
(* thread (AudioTxLoop) sends it in datagrams while the microphone is      *)
(* open, the device's worker opens and closes the microphone (SetMic), and *)
(* the owner starts and stops it all (Start, Stop).  The four share        *)
(* m_audioBuf, m_keepHeartbeat and m_isMicOpen without a lock.  The bytes  *)
(* are numbered in the order in which they are pushed.                     *)
(***************************************************************************)
EXTENDS RingBuffer

CONSTANTS
  Chunk,       \* the most AudioTxLoop sends in one datagram
  MaxPushed,   \* bound: bytes the client ever pushes
  MaxToggles   \* bound: how often the microphone is opened or closed

ASSUME AudioAssumption ==
  /\ Chunk \in Nat \ {0}
  /\ MaxPushed \in Nat
  /\ MaxToggles \in Nat
  /\ Bytes = 0..MaxPushed /\ NoByte = 0

VARIABLES
  m_audioBuf,       \* "null", "alive", or "deleted": it points at freed memory
  m_keepHeartbeat, m_isMicOpen,
  owner,            \* where the owner is in Start and Stop
  client,           \* where the client's streaming thread is
  tx, packet,       \* where AudioTxLoop is, and its buf
  answer,           \* what the last ECCS_Sound_PushData returned
  lost,             \* how many of its bytes there was no room for
  pushed,           \* bytes pushed so far
  accepted, sent,   \* bytes that went into the buffer, and bytes that came out
                    \* of AudioTxLoop, in order
  toggles,
  late              \* datagrams sent since the microphone was closed

shared == <<m_audioBuf, m_keepHeartbeat, m_isMicOpen>>
history == <<answer, lost, pushed, accepted, sent, toggles, late>>
vars == <<ring, shared, owner, client, tx, packet, history>>

Init ==
  /\ RingInit
  /\ m_audioBuf = "null" /\ m_keepHeartbeat = FALSE /\ m_isMicOpen = FALSE
  /\ owner = "new" /\ client = "away" /\ tx = "none" /\ packet = <<>>
  /\ answer = "none" /\ lost = 0 /\ pushed = 0
  /\ accepted = <<>> /\ sent = <<>> /\ toggles = 0 /\ late = 0

-----------------------------------------------------------------------------
(* The owner: ECCS_Init and ECCS_Release                                   *)

(* Start, after the base class's: the flag, the buffer, the thread.  The
   device is handed to clients afterwards. *)
StartKeep ==
  /\ owner = "new" /\ owner' = "keepSet"
  /\ m_keepHeartbeat' = TRUE
  /\ UNCHANGED <<ring, m_audioBuf, m_isMicOpen, client, tx, packet, history>>

StartBuffer ==
  /\ owner = "keepSet" /\ owner' = "bufferMade"
  /\ m_audioBuf' = "alive"
  /\ UNCHANGED <<ring, m_keepHeartbeat, m_isMicOpen, client, tx, packet, history>>

StartAudio ==
  /\ owner = "bufferMade" /\ owner' = "serving"
  /\ tx' = "opening"
  /\ UNCHANGED <<ring, shared, client, packet, history>>

(* Stop, whatever the client's thread is doing: nothing here waits for it. *)
StopKeep ==
  /\ owner = "serving" /\ owner' = "joining"
  /\ m_keepHeartbeat' = FALSE
  /\ UNCHANGED <<ring, m_audioBuf, m_isMicOpen, client, tx, packet, history>>

(* Mutant of JoinAudio: the thread is detached, not joined. *)
DetachAudio ==
  /\ owner = "joining" /\ owner' = "joined"
  /\ UNCHANGED <<ring, shared, client, tx, packet, history>>

JoinAudio ==
  /\ owner = "joining" /\ owner' = "joined"
  /\ tx \in {"done", "failed"}
  /\ UNCHANGED <<ring, shared, client, tx, packet, history>>

DeleteBuffer ==
  /\ owner = "joined" /\ owner' = "deleted"
  /\ m_audioBuf' = "deleted"
  /\ UNCHANGED <<ring, m_keepHeartbeat, m_isMicOpen, client, tx, packet, history>>

ForgetBuffer ==
  /\ owner = "deleted" /\ owner' = "stopped"
  /\ m_audioBuf' = "null"
  /\ UNCHANGED <<ring, m_keepHeartbeat, m_isMicOpen, client, tx, packet, history>>

Owner == \/ StartKeep \/ StartBuffer \/ StartAudio
         \/ StopKeep \/ JoinAudio \/ DeleteBuffer \/ ForgetBuffer

-----------------------------------------------------------------------------
(* The worker thread: SetMic, while the device's own Stop has not ended it *)

SetMic(isOpen) ==
  /\ owner \in {"serving", "joining", "joined", "deleted"}
  /\ toggles < MaxToggles
  /\ m_isMicOpen' = isOpen
  /\ toggles' = toggles + 1
  /\ late' = 0
  /\ UNCHANGED <<ring, m_audioBuf, m_keepHeartbeat, owner, client, tx, packet,
                 answer, lost, pushed, accepted, sent>>

-----------------------------------------------------------------------------
(* The client's streaming thread, which goes on pushing beside and after Stop *)

Appear ==
  /\ client = "away" /\ client' = "idle"
  /\ owner = "serving"
  /\ UNCHANGED <<ring, shared, owner, tx, packet, history>>

Leave ==
  /\ client = "idle" /\ client' = "ended"
  /\ UNCHANGED <<ring, shared, owner, tx, packet, history>>

(* PushAudio's test of the pointer. *)
PushTest ==
  /\ client = "idle" /\ pushed < MaxPushed
  /\ client' = IF m_audioBuf = "null" THEN "pushed" ELSE "writing"
  /\ UNCHANGED <<ring, shared, owner, tx, packet, history>>

(* Its call of Write, whose result it ignores, on a buffer that is there. *)
PushWrite(len) ==
  LET data == [i \in 1..len |-> pushed + i]
      n == Least(len, Writable)
  IN /\ client = "writing" /\ client' = "pushed" /\ m_audioBuf = "alive"
     /\ pushed + len <= MaxPushed
     /\ Write(data)
     /\ pushed' = pushed + len
     /\ accepted' = accepted \o SubSeq(data, 1, n)
     /\ lost' = len - n
     /\ UNCHANGED <<shared, owner, tx, packet, answer, sent, toggles, late>>

(* The same call when Stop came between: Write locks and fills memory that is
   gone.  Undefined: it goes unnoticed, or the program dies. *)
PushFreed ==
  /\ client = "writing" /\ m_audioBuf # "alive"
  /\ client' \in {"pushed", "crashed"}
  /\ UNCHANGED <<ring, shared, owner, tx, packet, history>>

PushData ==
  /\ client = "pushed" /\ client' = "idle"
  /\ answer' = "ECCS_SUCCESS"
  /\ UNCHANGED <<ring, shared, owner, tx, packet, lost, pushed, accepted, sent, toggles, late>>

Client == \/ Appear \/ Leave \/ PushTest \/ PushFreed \/ PushData
          \/ \E len \in 1..MaxLen : PushWrite(len)

-----------------------------------------------------------------------------
(* AudioTxLoop                                                             *)

(* The datagram socket opens, or the thread leaves. *)
OpenSocket ==
  /\ tx = "opening"
  /\ \E opens \in BOOLEAN : tx' = IF opens THEN "testing" ELSE "failed"
  /\ UNCHANGED <<ring, shared, owner, client, packet, history>>

TestKeep ==
  /\ tx = "testing"
  /\ tx' = IF m_keepHeartbeat THEN "asking" ELSE "done"
  /\ UNCHANGED <<ring, shared, owner, client, packet, history>>

(* Mutant of TestMic: the closed microphone is waited for in place. *)
WaitForMic ==
  /\ tx = "asking"
  /\ tx' = IF m_isMicOpen THEN "reading" ELSE "asking"
  /\ UNCHANGED <<ring, shared, owner, client, packet, history>>

TestMic ==
  /\ tx = "asking"
  /\ tx' = IF m_isMicOpen THEN "reading" ELSE "testing"
  /\ UNCHANGED <<ring, shared, owner, client, packet, history>>

(* Mutant of ReadChunk: an empty buffer ends the loop. *)
ReadOrLeave ==
  /\ tx = "reading"
  /\ Read(Chunk)
  /\ packet' = ReadOut(Chunk)
  /\ tx' = IF packet' = <<>> THEN "done" ELSE "sending"
  /\ UNCHANGED <<shared, owner, client, history>>

ReadChunk ==
  /\ tx = "reading"
  /\ Read(Chunk)
  /\ packet' = ReadOut(Chunk)
  /\ tx' = IF packet' = <<>> THEN "testing" ELSE "sending"
  /\ UNCHANGED <<shared, owner, client, history>>

(* Mutant of SendChunk: the next chunk is read before the microphone is looked
   at again. *)
SendAndRead ==
  /\ tx = "sending" /\ tx' = "reading"
  /\ sent' = sent \o packet
  /\ packet' = <<>>
  /\ late' = IF m_isMicOpen THEN 0 ELSE late + 1
  /\ UNCHANGED <<ring, shared, owner, client, answer, lost, pushed, accepted, toggles>>

(* A datagram that cannot be written is forgotten, as one that was. *)
SendChunk ==
  /\ tx = "sending" /\ tx' = "testing"
  /\ sent' = sent \o packet
  /\ packet' = <<>>
  /\ late' = IF m_isMicOpen THEN 0 ELSE late + 1
  /\ UNCHANGED <<ring, shared, owner, client, answer, lost, pushed, accepted, toggles>>

AudioTxLoop == OpenSocket \/ TestKeep \/ TestMic \/ ReadChunk \/ SendChunk

-----------------------------------------------------------------------------
\* The program is still there.
Up == client # "crashed"

Rest == (owner = "stopped" \/ ~Up) /\ UNCHANGED vars

Next == \/ Up /\ Owner
        \/ Up /\ Client
        \/ Up /\ AudioTxLoop
        \/ Up /\ \E isOpen \in BOOLEAN : SetMic(isOpen)
        \/ Rest

(* The audio thread and, once it is called, Stop keep running; the client, the
   worker and the start of Stop are not bound to. *)
Spec == /\ Init /\ [][Next]_vars
        /\ WF_vars(Up /\ AudioTxLoop)
        /\ WF_vars(Up /\ (JoinAudio \/ DeleteBuffer \/ ForgetBuffer))

-----------------------------------------------------------------------------
(* Properties                                                              *)

(* Every variable holds a value the code can give it. *)
TypeOK ==
  /\ RingTypeOK
  /\ m_audioBuf \in {"null", "alive", "deleted"}
  /\ m_keepHeartbeat \in BOOLEAN /\ m_isMicOpen \in BOOLEAN
  /\ owner \in {"new", "keepSet", "bufferMade", "serving", "joining", "joined",
                "deleted", "stopped"}
  /\ client \in {"away", "idle", "writing", "pushed", "ended", "crashed"}
  /\ tx \in {"none", "opening", "testing", "asking", "reading", "sending", "done", "failed"}
  /\ packet \in Seq(Bytes) /\ accepted \in Seq(Bytes) /\ sent \in Seq(Bytes)
  /\ answer \in {"none", "ECCS_SUCCESS"}
  /\ lost \in 0..MaxLen /\ pushed \in 0..MaxPushed
  /\ toggles \in 0..MaxToggles /\ late \in Nat

(* What the client pushed and there was room for leaves in the order it came,
   whole and once: sent, in the datagram under way, or still in the buffer. *)
StreamOrder == accepted = sent \o packet \o Contents

(* AudioTxLoop uses the ring buffer without a test of the pointer: whenever
   Stop comes and whoever still pushes, it finds a buffer that Start has made
   and Stop has not deleted.  (With the types of the variables.)  PushAudio has
   no such promise: PushFreed. *)
BufferAliveWhenRead == TypeOK /\ (tx = "reading" => m_audioBuf = "alive")

(* Speech stops with the microphone: AudioTxLoop looks at m_isMicOpen before
   every chunk, so that at most the chunk under way leaves after it is closed. *)
OneLateChunk == ~m_isMicOpen => late <= 1

(* While the microphone stays open and unless the socket could not be opened,
   what was accepted is sent: an empty buffer does not end the loop, a datagram
   that fails does not hold up the ones behind it. *)
StreamFlows ==
  \A n \in 1..MaxPushed :
    Len(accepted) >= n
      ~> (Len(sent) >= n \/ ~m_isMicOpen \/ ~m_keepHeartbeat \/ tx = "failed")

(* Stop ends whatever the audio thread was doing when it was called, unless a
   push into the deleted buffer ends the program first. *)
StopEnds == owner = "joining" ~> (owner = "stopped" \/ ~Up)

=============================================================================
