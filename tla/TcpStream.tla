------------------------------ MODULE TcpStream ------------------------------
(***************************************************************************)
(* One direction of a TcpSocket connection (src/net/TCPSocket.cpp): a      *)
(* writer that calls write() for one packet after the other, the byte      *)
(* stream TCP makes of its send() calls, and a reader that takes the       *)
(* packets off again.  A packet of more than MIN_PACKET_LEN and less than  *)
(* 1500 bytes travels in fragments that end in a mark; read() with three   *)
(* arguments puts the fragments together.  Byte k of packet m is <<m, k>>. *)
(***************************************************************************)
EXTENDS Integers, Sequences

CONSTANTS
  Packets,        \* how many packets are written
  Lengths,        \* the lengths a packet may have
  CutLengths,     \* bound: those it has when send() and recv() cut it
  MaxPatch,       \* MAX_PATCH_LEN, 400 in the code
  MinPacket,      \* MIN_PACKET_LEN, 512
  RawLen,         \* 1500
  Mark,           \* the length of $MMS$ and $End$, 5
  Header,         \* the bytes of a packet its reader takes before read(), MinPacketLen
  MaxInterrupts   \* bound: recv() calls a signal interrupts; at most _maxRetries

ASSUME TcpAssumption ==
  /\ Packets \in Nat /\ {MaxPatch, MinPacket, RawLen, Mark, Header} \subseteq Nat \ {0}
  /\ Header + Mark < MaxPatch /\ MaxPatch <= MinPacket
  /\ \A n \in Lengths \cup CutLengths : n \in Nat /\ n > Header

VARIABLES
  faults,   \* send() may take and recv() return fewer bytes than they are asked for,
            \* either may fail, signals may interrupt recv()
  lengths,  \* the length of each packet
  wire,     \* what has been sent and not been received
  pushed,   \* everything send() has taken
  writer,   \* at, msg: the packet; sent: as write() counts; part: what writePartial
            \* was given; frag: its fragment; byteSent: _byte_sent
  reader,   \* at, msg; i: the fragment; index; buf; precv; retries
  received  \* what read() has returned, per packet

setting == <<faults, lengths>>
vars == <<setting, wire, pushed, writer, reader, received>>

Least(a, b) == IF a < b THEN a ELSE b
Junk      == <<-2, 0>>                            \* memory nobody has written
MiddleMark == [k \in 1..Mark |-> <<0, k>>]        \* $MMS$
EndMark    == [k \in 1..Mark |-> <<-1, k>>]       \* $End$
Packet(m) == [k \in 1..lengths[m] |-> <<m, k>>]

Payload == MaxPatch - Mark
Count(len) == IF len % Payload = 0 THEN len \div Payload ELSE (len \div Payload) + 1
LastLen(len) == IF len % Payload = 0 THEN Payload ELSE len % Payload

Init ==
  /\ faults \in BOOLEAN
  /\ lengths \in [1..Packets -> IF faults THEN CutLengths ELSE Lengths]
  /\ wire = <<>> /\ pushed = <<>> /\ received = <<>>
  /\ writer = [at |-> "loop", msg |-> 1, sent |-> 0, part |-> <<>>, frag |-> 0, byteSent |-> 0]
  /\ reader = [at |-> "header", msg |-> 1, i |-> 0, index |-> 0, buf |-> <<>>,
               precv |-> <<>>, retries |-> 0]

-----------------------------------------------------------------------------
(* The writer                                                              *)

Split(len) == len > MinPacket /\ len < RawLen

(* write(): the next turn of its loop, or its return. *)
WriteTurn ==
  /\ writer.at = "loop" /\ writer.msg <= Packets
  /\ writer' = IF writer.sent < lengths[writer.msg]
               THEN [writer EXCEPT !.at = "partial", !.frag = 1, !.byteSent = 0,
                       !.part = SubSeq(Packet(writer.msg), writer.sent + 1, lengths[writer.msg])]
               ELSE [writer EXCEPT !.msg = @ + 1, !.sent = 0, !.part = <<>>]
  /\ UNCHANGED <<setting, wire, pushed, reader, received>>

(* Mutant of SendData: the last fragment of a packet that fills it is empty. *)
SendDataNoFull ==
  LET part == writer.part
      i == writer.frag
      last == Count(Len(part))
  IN IF ~Split(Len(part)) THEN part
     ELSE (IF i = last THEN SubSeq(part, (i - 1) * Payload + 1, (i - 1) * Payload + (Len(part) % Payload))
           ELSE SubSeq(part, (i - 1) * Payload + 1, i * Payload))
            \o (IF i = last THEN EndMark ELSE MiddleMark)

(* What the next send() is given. *)
SendData ==
  LET part == writer.part
      i == writer.frag
      last == Count(Len(part))
  IN IF ~Split(Len(part)) THEN part
     ELSE SubSeq(part, (i - 1) * Payload + 1, Least(i * Payload, Len(part)))
            \o (IF i = last THEN EndMark ELSE MiddleMark)

(* Mutant of Send: what a send() left behind is not counted as unsent. *)
SendCountsAll ==
  /\ writer.at = "partial"
  /\ \E k \in IF faults THEN 1..Len(SendData) ELSE {Len(SendData)} :
       LET taken == SubSeq(SendData, 1, k)
           total == writer.byteSent + Len(SendData)
       IN /\ wire' = wire \o taken /\ pushed' = pushed \o taken
          /\ writer' = IF Split(Len(writer.part)) /\ writer.frag < Count(Len(writer.part))
                       THEN [writer EXCEPT !.frag = @ + 1, !.byteSent = total]
                       ELSE [writer EXCEPT !.at = "loop", !.sent = @ + total]
  /\ UNCHANGED <<setting, reader, received>>

(* writePartial(): one send(); _byte_sent counts the marks with the bytes. *)
Send ==
  /\ writer.at = "partial"
  /\ \E k \in IF faults THEN 1..Len(SendData) ELSE {Len(SendData)} :
       LET taken == SubSeq(SendData, 1, k)
           total == writer.byteSent + k
       IN /\ wire' = wire \o taken /\ pushed' = pushed \o taken
          /\ writer' = IF Split(Len(writer.part)) /\ writer.frag < Count(Len(writer.part))
                       THEN [writer EXCEPT !.frag = @ + 1, !.byteSent = total]
                       ELSE [writer EXCEPT !.at = "loop", !.sent = @ + total]
  /\ UNCHANGED <<setting, reader, received>>

(* send() would block: writePartial() returns 0 whatever it has sent before,
   and write() throws; or it fails, and writePartial() throws. *)
SendFails ==
  /\ faults /\ writer.at = "partial"
  /\ writer' = [writer EXCEPT !.at = "threw"]
  /\ UNCHANGED <<setting, wire, pushed, reader, received>>

-----------------------------------------------------------------------------
(* The reader                                                              *)

Long == lengths[reader.msg] > MinPacket
Last == Count(lengths[reader.msg])

(* The caller takes the header, learns the length and calls read(). *)
ReadHeader ==
  /\ reader.at = "header" /\ reader.msg <= Packets /\ Len(wire) >= Header
  /\ wire' = SubSeq(wire, Header + 1, Len(wire))
  /\ reader' = [reader EXCEPT !.at = "read", !.i = 1, !.index = 0, !.retries = 0,
                  !.buf = [k \in 1..lengths[reader.msg] |-> Junk],
                  !.precv = [k \in 1..MaxPatch |-> Junk]]
  /\ UNCHANGED <<setting, pushed, writer, received>>

(* Mutant of Wanted: the header is not left out of the first fragment. *)
WantedWithHeader ==
  CASE ~Long -> lengths[reader.msg] - Header
    [] Long /\ reader.i > 1 /\ reader.i = Last -> LastLen(lengths[reader.msg]) + Mark
    [] OTHER -> MaxPatch

(* How many bytes recv() is asked for. *)
Wanted ==
  CASE ~Long -> lengths[reader.msg] - Header
    [] Long /\ reader.i = 1 -> MaxPatch - Header
    [] Long /\ reader.i > 1 /\ reader.i = Last -> LastLen(lengths[reader.msg]) + Mark
    [] OTHER -> MaxPatch

(* Bytes laid over memory from place `at' on. *)
Over(memory, at, bytes) ==
  [k \in DOMAIN memory |-> IF k \in at..(at + Len(bytes) - 1) THEN bytes[k - at + 1] ELSE memory[k]]

(* The bytes of a fragment that the marks in precv let through; none if the
   mark is not at its place. *)
Taken(precv) ==
  LET end == Wanted - Mark
      mark == SubSeq(precv, end + 1, Wanted)
      good == CASE reader.i = 1 -> mark = MiddleMark
                [] reader.i > 1 /\ reader.i = Last -> mark = EndMark
                [] OTHER -> mark \in {MiddleMark, EndMark}
  IN IF good THEN SubSeq(precv, 1, end) ELSE <<>>

(* One recv() that returns data. *)
Recv ==
  /\ reader.at = "read" /\ wire # <<>>
  /\ \E k \in 1..Least(Wanted, Len(wire)) :
       LET bytes == SubSeq(wire, 1, k)
           precv == Over(reader.precv, 1, bytes)
           taken == IF Long THEN Taken(precv) ELSE bytes
           buf   == Over(reader.buf, reader.index + 1, taken)
           index == reader.index + Len(taken)
           done  == ~Long \/ reader.i = Last
       IN /\ faults \/ k = Wanted
          /\ wire' = SubSeq(wire, k + 1, Len(wire))
          /\ IF done
             THEN /\ received' = Append(received, SubSeq(buf, 1, index))
                  /\ reader' = [reader EXCEPT !.at = "header", !.msg = @ + 1, !.index = index,
                                  !.buf = <<>>, !.precv = <<>>]
             ELSE /\ reader' = [reader EXCEPT !.i = @ + 1, !.index = index, !.buf = buf,
                                  !.precv = precv]
                  /\ UNCHANGED received
  /\ UNCHANGED <<setting, pushed, writer>>

(* A signal interrupts recv(): read() goes back to `again', where everything
   but buf begins anew. *)
RecvInterrupted ==
  /\ faults /\ reader.at = "read" /\ reader.retries < MaxInterrupts
  /\ reader' = [reader EXCEPT !.retries = @ + 1, !.i = 1, !.index = 0,
                  !.precv = [k \in 1..MaxPatch |-> Junk]]
  /\ UNCHANGED <<setting, wire, pushed, writer, received>>

(* recv() fails, times out or finds the connection closed: read() throws. *)
RecvFails ==
  /\ faults /\ reader.at = "read"
  /\ reader' = [reader EXCEPT !.at = "threw"]
  /\ UNCHANGED <<setting, wire, pushed, writer, received>>

-----------------------------------------------------------------------------
Writes == WriteTurn \/ Send \/ SendFails
Reads  == ReadHeader \/ Recv \/ RecvInterrupted \/ RecvFails
Next == Writes \/ Reads

(* The threads that write and read are scheduled. *)
Spec == Init /\ [][Next]_vars /\ WF_vars(Writes) /\ WF_vars(Reads)

-----------------------------------------------------------------------------
(* Properties                                                              *)

(* Every variable holds a value the code can give it. *)
TypeOK ==
  /\ writer.at \in {"loop", "partial", "threw"} /\ writer.msg \in 1..(Packets + 1)
  /\ writer.at = "partial" => writer.part # <<>> /\ SendData # <<>>
  /\ reader.at \in {"header", "read", "threw"} /\ reader.msg \in 1..(Packets + 1)
  /\ reader.at = "read" => reader.i \in 1..Last \/ ~Long
  /\ Len(received) = reader.msg - 1

(* However recv() cuts the stream, read() writes no more into buf than the
   packet has behind its header, and recv() no byte behind precv.  (With the types of the
   variables.) *)
StaysInBuffer ==
  TypeOK /\ (reader.at = "read" =>
    LET room == lengths[reader.msg] - Header - reader.index
    IN IF Long THEN Wanted <= MaxPatch /\ Wanted - Mark <= room ELSE Wanted <= room)

(* write() that has returned has sent every byte of the packet, once, in order
   and with nothing in between, however send() cut it; this is for packets that
   need no fragments, such as the drivers' commands. *)
WrittenIsSent ==
  \A m \in 1..(writer.msg - 1) :
    lengths[m] <= MinPacket =>
      \E at \in 0..Len(pushed) :
        /\ {j \in DOMAIN pushed : pushed[j][1] = m} = (at + 1)..(at + lengths[m])
        /\ \A k \in 1..lengths[m] : pushed[at + k] = <<m, k>>

(* When every send() and recv() is whole, as the pause after each fragment
   means them to be, read() returns the packet that was written, without its
   header: no fragment is lost, doubled or cut, whether it is full or not. *)
RoundTrip ==
  ~faults =>
    \A m \in DOMAIN received : received[m] = SubSeq(Packet(m), Header + 1, lengths[m])

(* Then every packet is read too: the reader never waits for a byte that the
   writer does not send. *)
EventuallyRead == ~faults => <>(Len(received) = Packets)
=============================================================================
