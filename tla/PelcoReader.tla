----------------------------- MODULE PelcoReader -----------------------------
(***************************************************************************)
(* How the PTZ driver finds the angle frames of its camera in the bytes it *)
(* reads (OnRawDataReceived() and ParsePelcoResponse() of                  *)
(* src/device/PTZ/PTZ_YZ_BY010W).  Cameras send Pelco-D frames of 7 bytes; *)
(* a read returns any first part of what has arrived.                      *)
(***************************************************************************)
EXTENDS Integers, Sequences

CONSTANTS
  m_addr,      \* the driver's camera
  Addresses,   \* the cameras on the line
  Highs, Lows, \* high and low bytes of the angles they send, below 36000
  MaxFrames    \* bound on the frames sent

VARIABLES
  sent,      \* frames sent, each [addr, cmd2, high, low]
  wire,      \* bytes that arrived and are not read
  reported   \* angles given to the status callback, each [cmd2, val]

vars == <<sent, wire, reported>>

Pan == 89    \* 0x59
Tilt == 91   \* 0x5B

Byte(n) == n % 256

FrameBytes(f) == <<255, f.addr, 0, f.cmd2, f.high, f.low, Byte(f.addr + f.cmd2 + f.high + f.low)>>

Angle(f) == [cmd2 |-> f.cmd2, val |-> f.high * 256 + f.low]

Init == sent = <<>> /\ wire = <<>> /\ reported = <<>>

(* Mutant of IsFrame: the address is not compared. *)
IsFrameOfAny(data, i) ==
  /\ data[i] = 255
  /\ data[i + 6] = Byte(data[i + 1] + data[i + 2] + data[i + 3] + data[i + 4] + data[i + 5])

\* A frame of the driver's camera starts at i.
IsFrame(data, i) ==
  /\ data[i] = 255
  /\ data[i + 1] = m_addr
  /\ data[i + 6] = Byte(data[i + 1] + data[i + 2] + data[i + 3] + data[i + 4] + data[i + 5])

ParsePelcoResponse(data, i) ==
  IF data[i + 3] \in {Pan, Tilt}
  THEN <<[cmd2 |-> data[i + 3], val |-> data[i + 4] * 256 + data[i + 5]]>>
  ELSE <<>>

\* The loop over the bytes of one read.
OnRawDataReceived(data) ==
  LET from[i \in 1 .. Len(data) + 7] ==
        CASE i > Len(data) - 6 -> <<>>
          [] i <= Len(data) - 6 /\ IsFrame(data, i) -> ParsePelcoResponse(data, i) \o from[i + 7]
          [] OTHER -> from[i + 1]
  IN  from[1]

\* A camera reports an angle.
Send(f) ==
  /\ Len(sent) < MaxFrames
  /\ sent' = Append(sent, f)
  /\ wire' = wire \o FrameBytes(f)
  /\ UNCHANGED reported

Read(n) ==
  /\ reported' = reported \o OnRawDataReceived(SubSeq(wire, 1, n))
  /\ wire' = SubSeq(wire, n + 1, Len(wire))
  /\ UNCHANGED sent

Next ==
  \/ \E f \in [addr: Addresses, cmd2: {Pan, Tilt}, high: Highs, low: Lows]: Send(f)
  \/ \E n \in 1 .. Len(wire): Read(n)

Spec == Init /\ [][Next]_vars

----------------------------------------------------------------------------
(* Type invariant: an angle given to the callback is below 360 degrees. *)
TypeOK ==
  /\ sent \in Seq([addr: Addresses, cmd2: {Pan, Tilt}, high: Highs, low: Lows])
  /\ wire \in Seq(0 .. 255)
  /\ reported \in Seq([cmd2: {Pan, Tilt}, val: 0 .. 36095])

(* However the reads cut the stream, every angle reported is one that the
   driver's camera sent, in the order sent: bytes of two frames never pass
   for a frame. *)
ReportedWasSent ==
  \E of \in [DOMAIN reported -> DOMAIN sent]:
    /\ \A i \in DOMAIN reported: sent[of[i]].addr = m_addr /\ reported[i] = Angle(sent[of[i]])
    /\ \A i, j \in DOMAIN reported: i < j => of[i] < of[j]

=============================================================================
