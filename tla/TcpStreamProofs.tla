--------------------------- MODULE TcpStreamProofs ---------------------------
(***************************************************************************)
(* What TcpStream promises, for any number of packets and whatever their   *)
(* lengths: read() stays in its buffers however the stream is cut          *)
(* (BuffersHold); write() sends what needs no fragments once and in order  *)
(* however send() cuts it (WritesAreWhole); and when both are whole, what  *)
(* is read is what was written (PacketsArrive).                            *)
(*                                                                         *)
(* The invariants behind them: what writer and reader hold and how far     *)
(* they are (Types); where in the stream the packet under way is (Wrote);  *)
(* and for whole calls, where each fragment lies in the stream (Stream),   *)
(* and that the wire is the stream from the reader's place on (Reading).   *)
(***************************************************************************)
EXTENDS TcpStream, SequenceTheorems, TLAPS

-----------------------------------------------------------------------------
(* Lengths and places of fragments                                         *)

(* What TcpAssumption says of the sizes. *)
LEMMA Constants ==
  /\ MaxPatch \in Nat \ {0} /\ MinPacket \in Nat \ {0} /\ RawLen \in Nat \ {0}
  /\ Mark \in Nat \ {0} /\ Header \in Nat \ {0} /\ Payload \in Nat \ {0}
  /\ MaxPatch = Payload + Mark /\ Header < Payload /\ Payload < MinPacket /\ Packets \in Nat
BY TcpAssumption DEF Payload

LEMMA Division ==
  ASSUME NEW n \in Nat, NEW d \in Nat \ {0}
  PROVE  /\ n \div d \in Nat /\ n % d \in 0..(d - 1)
         /\ n = (n \div d) * d + (n % d)
OBVIOUS

(* Where fragment i of a packet starts: behind how many of its bytes, and behind
   how many bytes of the stream. *)
Cut(i) == (i - 1) * Payload
Place(i) == (i - 1) * MaxPatch

LEMMA Order ==
  ASSUME NEW i \in Nat, NEW j \in Nat, i <= j, NEW p \in Nat
  PROVE  i * p <= j * p
BY SMT

LEMMA Starting ==
  ASSUME NEW i \in Nat \ {0}
  PROVE  /\ Cut(i) \in Nat /\ Place(i) \in Nat /\ Cut(i) <= Place(i)
         /\ Cut(i + 1) = Cut(i) + Payload /\ Place(i + 1) = Place(i) + MaxPatch
         /\ Cut(1) = 0 /\ Place(1) = 0
         /\ \A j \in Nat : i < j => Cut(i + 1) <= Cut(j) /\ Place(i + 1) <= Place(j)
<1>. USE Constants
<1>1. i - 1 \in Nat OBVIOUS
<1>2. Cut(i) \in Nat /\ Place(i) \in Nat
  BY <1>1 DEF Cut, Place
<1>3. Cut(i) <= Place(i)
  <2>1. Payload * (i - 1) <= MaxPatch * (i - 1)
    BY <1>1, Order
  <2>. QED
    BY <1>1, <2>1 DEF Cut, Place
<1>4. Cut(i + 1) = Cut(i) + Payload /\ Place(i + 1) = Place(i) + MaxPatch
  BY <1>1 DEF Cut, Place
<1>5. Cut(1) = 0 /\ Place(1) = 0
  BY DEF Cut, Place
<1>6. ASSUME NEW j \in Nat, i < j
      PROVE  Cut(i + 1) <= Cut(j) /\ Place(i + 1) <= Place(j)
  <2>1. j - 1 \in Nat /\ i <= j - 1 /\ i + 1 - 1 = i
    BY <1>6
  <2>. QED
    BY <2>1, Order DEF Cut, Place
<1>. QED
  BY <1>2, <1>3, <1>4, <1>5, <1>6

(* The fragments of a packet cover it: all but the last are full. *)
LEMMA Counting ==
  ASSUME NEW len \in Nat \ {0}
  PROVE  /\ Count(len) \in Nat \ {0} /\ LastLen(len) \in 1..Payload
         /\ len = Cut(Count(len)) + LastLen(len)
         /\ len > Payload => Count(len) > 1
<1>. DEFINE q == len \div Payload
            r == len % Payload
<1>1. q \in Nat /\ r \in 0..(Payload - 1) /\ len = q * Payload + r
  BY Constants, Division
<1>. HIDE DEF q, r
<1>2. Count(len) = (IF r = 0 THEN q ELSE q + 1) /\ LastLen(len) = (IF r = 0 THEN Payload ELSE r)
  BY DEF Count, LastLen, q, r
<1>3. CASE r = 0
  <2>1. q # 0
    BY <1>1, <1>3, Constants
  <2>2. q - 1 \in Nat /\ q * Payload = (q - 1) * Payload + Payload
    BY <1>1, <2>1, Constants
  <2>3. len > Payload => q > 1
    BY <1>1, <1>3, <2>2, Constants
  <2>. QED
    BY <1>1, <1>2, <1>3, <2>1, <2>2, <2>3, Constants DEF Cut
<1>4. CASE r # 0
  <2>1. len > Payload => q > 0
    BY <1>1, Constants
  <2>. QED
    BY <1>1, <1>2, <1>4, <2>1, Constants DEF Cut
<1>. QED
  BY <1>3, <1>4

-----------------------------------------------------------------------------
(* The types, with what the writer and the reader have in their hands      *)

Cell == Int \X Int

SettingOK ==
  /\ faults \in BOOLEAN
  /\ lengths \in [1..Packets -> IF faults THEN CutLengths ELSE Lengths]

(* write() gives writePartial() the rest of its packet.  A packet that is not
   split is never sent beyond its end. *)
WriterOK ==
  /\ writer \in [at : {"loop", "partial", "threw"}, msg : 1..(Packets + 1), sent : Nat,
                 part : Seq(Cell), frag : Nat, byteSent : Nat]
  /\ writer.at = "partial" =>
       /\ writer.msg <= Packets /\ writer.sent < lengths[writer.msg]
       /\ writer.part = SubSeq(Packet(writer.msg), writer.sent + 1, lengths[writer.msg])
       /\ IF Split(Len(writer.part))
          THEN writer.frag \in 1..Count(Len(writer.part))
          ELSE writer.frag = 1 /\ writer.byteSent = 0
  /\ writer.msg <= Packets /\ lengths[writer.msg] <= MinPacket =>
       writer.sent <= lengths[writer.msg]

(* read() has taken no more from the fragments before the i-th than they have. *)
ReaderOK ==
  /\ reader \in [at : {"header", "read", "threw"}, msg : 1..(Packets + 1), i : Nat, index : Nat,
                 buf : Seq(Cell), precv : Seq(Cell), retries : Int]
  /\ received \in Seq(Seq(Cell)) /\ Len(received) = reader.msg - 1
  /\ reader.at = "read" =>
       /\ reader.msg <= Packets
       /\ Len(reader.buf) = lengths[reader.msg] /\ Len(reader.precv) = MaxPatch
       /\ IF Long
          THEN /\ reader.i \in 1..Last
               /\ reader.index <= (IF reader.i = 1 THEN 0 ELSE Cut(reader.i) - Header)
          ELSE reader.i = 1 /\ reader.index = 0

Types == SettingOK /\ wire \in Seq(Cell) /\ pushed \in Seq(Cell) /\ WriterOK /\ ReaderOK

(* A packet is as long as the setting says, and byte k of it is <<m, k>>. *)
LEMMA PacketFacts ==
  ASSUME SettingOK, NEW m \in 1..Packets
  PROVE  /\ lengths[m] \in Nat \ {0} /\ lengths[m] > Header
         /\ Packet(m) \in Seq(Cell) /\ Len(Packet(m)) = lengths[m]
         /\ \A k \in 1..lengths[m] : Packet(m)[k] = <<m, k>>
<1>1. lengths[m] \in Nat \ {0} /\ lengths[m] > Header
  BY TcpAssumption DEF SettingOK
<1>2. \A k \in 1..lengths[m] : <<m, k>> \in Cell
  BY <1>1, Constants DEF Cell
<1>. QED
  BY <1>1, <1>2 DEF Packet

(* The marks are sequences of Mark cells. *)
LEMMA MarkFacts ==
  /\ MiddleMark \in Seq(Cell) /\ Len(MiddleMark) = Mark /\ \A k \in 1..Mark : MiddleMark[k] = <<0, k>>
  /\ EndMark \in Seq(Cell) /\ Len(EndMark) = Mark /\ \A k \in 1..Mark : EndMark[k] = <<-1, k>>
  /\ Junk \in Cell
<1>1. \A k \in 1..Mark : <<0, k>> \in Cell /\ <<-1, k>> \in Cell
  BY Constants DEF Cell
<1>2. Mark \in Nat
  BY Constants
<1>3. Junk \in Cell
  BY DEF Junk, Cell
<1>4. MiddleMark \in Seq(Cell) /\ Len(MiddleMark) = Mark /\ \A k \in 1..Mark : MiddleMark[k] = <<0, k>>
  <2>1. MiddleMark \in [1..Mark -> Cell]
    BY <1>1 DEF MiddleMark
  <2>2. MiddleMark \in Seq(Cell) /\ Len(MiddleMark) = Mark
    BY <1>2, <2>1
  <2>. QED
    BY <2>2 DEF MiddleMark
<1>5. EndMark \in Seq(Cell) /\ Len(EndMark) = Mark /\ \A k \in 1..Mark : EndMark[k] = <<-1, k>>
  <2>1. EndMark \in [1..Mark -> Cell]
    BY <1>1 DEF EndMark
  <2>2. EndMark \in Seq(Cell) /\ Len(EndMark) = Mark
    BY <1>2, <2>1
  <2>. QED
    BY <2>2 DEF EndMark
<1>. QED
  BY <1>3, <1>4, <1>5

(* What writePartial() was given. *)
LEMMA PartFacts ==
  ASSUME Types, writer.at = "partial"
  PROVE  /\ writer.msg \in 1..Packets
         /\ Len(writer.part) \in Nat \ {0} /\ Len(writer.part) = lengths[writer.msg] - writer.sent
         /\ \A k \in 1..Len(writer.part) : writer.part[k] = <<writer.msg, writer.sent + k>>
<1>. DEFINE m == writer.msg
            n == lengths[m]
            s == writer.sent
<1>1. m \in 1..Packets /\ s \in Nat /\ s < n /\ writer.part = SubSeq(Packet(m), s + 1, n)
  BY Constants DEF Types, WriterOK
<1>2. n \in Nat /\ Packet(m) \in Seq(Cell) /\ Len(Packet(m)) = n
      /\ \A k \in 1..n : Packet(m)[k] = <<m, k>>
  BY <1>1, PacketFacts DEF Types
<1>. HIDE DEF m, n, s
<1>3. /\ Len(writer.part) = n - s
      /\ \A k \in 1..(n - s) : writer.part[k] = Packet(m)[s + k]
  <2>1. \A k \in (s + 1)..n : Packet(m)[k] \in Cell
    BY <1>1, <1>2
  <2>2. s + 1 \in Int /\ n \in Int
    BY <1>1, <1>2
  <2>3. /\ Len(writer.part) = IF s + 1 <= n THEN n - (s + 1) + 1 ELSE 0
        /\ \A k \in 1..(n - (s + 1) + 1) : writer.part[k] = Packet(m)[s + 1 + k - 1]
    BY ONLY <1>1, <2>1, <2>2, SubSeqProperties
  <2>. QED
    BY <1>1, <1>2, <2>3
<1>4. \A k \in 1..(n - s) : s + k \in 1..n
  BY <1>1, <1>2
<1>5. \A k \in 1..(n - s) : writer.part[k] = <<m, s + k>>
  BY <1>2, <1>3, <1>4
<1>6. Len(writer.part) \in Nat \ {0}
  BY <1>1, <1>2, <1>3
<1>. QED
  BY <1>1, <1>3, <1>5, <1>6 DEF m, n, s

(* What SubSeq() and \o return, in one place. *)
LEMMA Slice ==
  ASSUME NEW S, NEW s \in Seq(S), NEW a \in Nat, NEW n \in Nat, a + n <= Len(s)
  PROVE  /\ SubSeq(s, a + 1, a + n) \in Seq(S) /\ Len(SubSeq(s, a + 1, a + n)) = n
         /\ \A k \in 1..n : SubSeq(s, a + 1, a + n)[k] = s[a + k]
<1>1. \A k \in (a + 1)..(a + n) : s[k] \in S
  OBVIOUS
<1>2. a + 1 \in Int /\ a + n \in Int
  OBVIOUS
<1>3. /\ SubSeq(s, a + 1, a + n) \in Seq(S)
      /\ Len(SubSeq(s, a + 1, a + n)) = IF a + 1 <= a + n THEN a + n - (a + 1) + 1 ELSE 0
      /\ \A k \in 1..(a + n - (a + 1) + 1) : SubSeq(s, a + 1, a + n)[k] = s[a + 1 + k - 1]
  BY ONLY <1>1, <1>2, SubSeqProperties
<1>4. a + n - (a + 1) + 1 = n /\ \A k \in 1..n : a + 1 + k - 1 = a + k
  OBVIOUS
<1>5. (IF a + 1 <= a + n THEN a + n - (a + 1) + 1 ELSE 0) = n
  OBVIOUS
<1>. QED
  BY ONLY <1>3, <1>4, <1>5

(* How much of a packet fragment i of its c brings. *)
Brings(n, i) == IF i < Count(n) THEN Payload ELSE LastLen(n)

(* What fragment i brings lies within the packet; the last ends it. *)
LEMMA Bringing ==
  ASSUME NEW n \in Nat \ {0}, NEW i \in 1..Count(n)
  PROVE  /\ Brings(n, i) \in 1..Payload /\ Cut(i) \in Nat /\ Cut(i) + Brings(n, i) <= n
         /\ i < Count(n) => Cut(i) + Brings(n, i) < n
         /\ i = Count(n) => Cut(i) + Brings(n, i) = n
<1>1. Count(n) \in Nat \ {0} /\ LastLen(n) \in 1..Payload /\ n = Cut(Count(n)) + LastLen(n)
  BY Counting
<1>2. i \in Nat \ {0} /\ Payload \in Nat \ {0}
  BY <1>1, Constants
<1>3. /\ Cut(i) \in Nat /\ Cut(i + 1) = Cut(i) + Payload
      /\ i < Count(n) => Cut(i + 1) <= Cut(Count(n))
  BY <1>1, <1>2, Starting
<1>4. Cut(Count(n)) \in Nat
  BY <1>1, Starting
<1>. QED
  BY <1>1, <1>2, <1>3, <1>4 DEF Brings

(* What the next send() is given: the rest of the packet, or the part that a
   fragment brings and its mark. *)
LEMMA SendFacts ==
  ASSUME Types, writer.at = "partial"
  PROVE  /\ SendData \in Seq(Cell) /\ Len(SendData) \in Nat \ {0}
         /\ ~Split(Len(writer.part)) => SendData = writer.part
         /\ Split(Len(writer.part)) =>
              LET p == Brings(Len(writer.part), writer.frag)
              IN /\ Len(SendData) = p + Mark
                 /\ \A k \in 1..p : SendData[k] = writer.part[Cut(writer.frag) + k]
                 /\ \A k \in 1..Mark :
                      SendData[p + k] = <<IF writer.frag = Count(Len(writer.part)) THEN -1 ELSE 0, k>>
<1>. DEFINE part == writer.part
            i == writer.frag
            n == Len(part)
            p == Brings(n, i)
            piece == SubSeq(part, (i - 1) * Payload + 1, Least(i * Payload, n))
            mark == IF i = Count(n) THEN EndMark ELSE MiddleMark
<1>1. part \in Seq(Cell) /\ n \in Nat \ {0}
  BY PartFacts DEF Types, WriterOK
<1>2. CASE ~Split(n)
  <2>1. SendData = part
    BY <1>2 DEF SendData
  <2>. QED
    BY <1>1, <1>2, <2>1
<1>3. CASE Split(n)
  <2>1. i \in 1..Count(n)
    BY <1>3 DEF Types, WriterOK
  <2>2. SendData = piece \o mark
    BY <1>3 DEF SendData
  <2>. HIDE DEF part, n, i
  <2>3. p \in 1..Payload /\ Cut(i) \in Nat /\ Cut(i) + p <= n /\ Count(n) \in Nat \ {0}
        /\ (i < Count(n) => Cut(i) + p < n) /\ (i = Count(n) => Cut(i) + p = n)
    BY <1>1, <2>1, Bringing, Counting
  <2>4. i \in Nat \ {0} /\ Payload \in Nat \ {0} /\ Mark \in Nat \ {0}
    BY <2>1, <2>3, Constants
  <2>5. i * Payload = Cut(i) + Payload
    BY <2>4 DEF Cut
  <2>6. Least(i * Payload, n) = Cut(i) + p
    <3>1. CASE i < Count(n)
      <4>1. p = Payload
        BY <3>1 DEF Brings
      <4>. QED
        BY <1>1, <2>3, <2>5, <3>1, <4>1 DEF Least
    <3>2. CASE ~(i < Count(n))
      <4>1. i = Count(n)
        BY <2>1, <2>3, <3>2
      <4>. HIDE DEF p
      <4>. QED
        BY <1>1, <2>3, <2>4, <2>5, <4>1 DEF Least
    <3>. QED
      BY <3>1, <3>2
  <2>7. piece = SubSeq(part, Cut(i) + 1, Cut(i) + p)
    BY <2>6 DEF Cut
  <2>. HIDE DEF piece, p
  <2>8. piece \in Seq(Cell) /\ Len(piece) = p /\ \A k \in 1..p : piece[k] = part[Cut(i) + k]
    <3>1. Cut(i) \in Nat /\ p \in Nat /\ Cut(i) + p <= Len(part) /\ part \in Seq(Cell)
      BY <1>1, <2>3, <2>4 DEF n
    <3>. QED
      BY ONLY <2>7, <3>1, Slice
  <2>9. mark \in Seq(Cell) /\ Len(mark) = Mark
        /\ \A k \in 1..Mark : mark[k] = <<IF i = Count(n) THEN -1 ELSE 0, k>>
    BY MarkFacts
  <2>. HIDE DEF mark
  <2>10. /\ SendData \in Seq(Cell) /\ Len(SendData) = p + Mark
         /\ \A k \in 1..(p + Mark) : SendData[k] = IF k <= p THEN piece[k] ELSE mark[k - p]
    BY <2>2, <2>8, <2>9, ConcatProperties
  <2>11. \A k \in 1..p : SendData[k] = part[Cut(i) + k]
    BY <2>3, <2>4, <2>8, <2>10
  <2>12. \A k \in 1..Mark : SendData[p + k] = mark[k]
    BY <2>3, <2>4, <2>10
  <2>13. \A k \in 1..Mark : SendData[p + k] = <<IF i = Count(n) THEN -1 ELSE 0, k>>
    BY <2>9, <2>12
  <2>14. p + Mark \in Nat \ {0}
    BY <2>3, <2>4
  <2>. QED
    BY <1>3, <2>10, <2>11, <2>13, <2>14 DEF p, n, i, part
<1>. QED
  BY <1>2, <1>3

-----------------------------------------------------------------------------
(* The steps of the writer                                                 *)

(* The types hold at the start, and each step of the writer keeps its own. *)
LEMMA InitTypes == Init => Types
<1>. SUFFICES ASSUME Init PROVE Types
  OBVIOUS
<1>1. SettingOK
  BY DEF Init, SettingOK
<1>2. wire \in Seq(Cell) /\ pushed \in Seq(Cell) /\ received \in Seq(Seq(Cell)) /\ Len(received) = 0
  BY DEF Init
<1>3. 1 \in 1..(Packets + 1) /\ 1 \in Nat /\ 0 \in Nat /\ <<>> \in Seq(Cell) /\ 0 \in Int
  BY Constants
<1>4. WriterOK
  <2>1. 1 \in 1..Packets => 0 <= lengths[1]
    BY <1>1, PacketFacts
  <2>. QED
    BY <1>3, <2>1, Constants DEF Init, WriterOK
<1>5. ReaderOK
  BY <1>2, <1>3 DEF Init, ReaderOK
<1>. QED
  BY <1>1, <1>2, <1>4, <1>5 DEF Types

LEMMA WriteTurnTypes ==
  ASSUME Types, WriteTurn
  PROVE  WriterOK' /\ UNCHANGED <<setting, wire, pushed, reader, received>>
<1>. DEFINE m == writer.msg
<1>1. /\ writer.at = "loop" /\ m \in 1..Packets /\ lengths' = lengths
      /\ UNCHANGED <<setting, wire, pushed, reader, received>>
  BY Constants DEF Types, WriterOK, WriteTurn, setting
<1>2. lengths[m] \in Nat /\ Packet(m) \in Seq(Cell) /\ Len(Packet(m)) = lengths[m] /\ writer.sent \in Nat
  BY <1>1, PacketFacts DEF Types, WriterOK
<1>4. CASE writer.sent < lengths[m]
  <2>. DEFINE part == SubSeq(Packet(m), writer.sent + 1, lengths[m])
              rest == lengths[m] - writer.sent
  <2>1. writer' = [writer EXCEPT !.at = "partial", !.frag = 1, !.byteSent = 0, !.part = part]
    BY <1>1, <1>4 DEF WriteTurn
  <2>2. part \in Seq(Cell) /\ Len(part) = rest
    <3>1. rest \in Nat /\ writer.sent + rest = lengths[m] /\ writer.sent + rest <= Len(Packet(m))
      BY <1>2, <1>4
    <3>. HIDE DEF rest
    <3>2. SubSeq(Packet(m), writer.sent + 1, writer.sent + rest) \in Seq(Cell)
          /\ Len(SubSeq(Packet(m), writer.sent + 1, writer.sent + rest)) = rest
      BY ONLY <1>2, <3>1, Slice
    <3>. QED
      BY <3>1, <3>2
  <2>3. rest \in Nat \ {0}
    BY <1>2, <1>4
  <2>4. 1 \in 1..Count(rest)
    BY <2>3, Counting
  <2>. HIDE DEF part, rest
  <2>6. /\ writer'.at = "partial" /\ writer'.msg = m /\ writer'.sent = writer.sent
        /\ writer'.part = part /\ writer'.frag = 1 /\ writer'.byteSent = 0
        /\ writer' \in [at : {"loop", "partial", "threw"}, msg : 1..(Packets + 1), sent : Nat,
                        part : Seq(Cell), frag : Nat, byteSent : Nat]
    BY <2>1, <2>2 DEF Types, WriterOK
  <2>7. part = SubSeq(Packet(m), writer.sent + 1, lengths[m])
    BY DEF part
  <2>8. m <= Packets /\ lengths[m] <= MinPacket => writer.sent <= lengths[m]
    BY DEF Types, WriterOK
  <2>. QED
    <3>1. IF Split(Len(writer'.part))
          THEN writer'.frag \in 1..Count(Len(writer'.part))
          ELSE writer'.frag = 1 /\ writer'.byteSent = 0
      BY ONLY <2>2, <2>4, <2>6
    <3>2. writer'.part = SubSeq(Packet(writer'.msg), writer'.sent + 1, lengths[writer'.msg])
      BY ONLY <2>6, <2>7
    <3>3. \A q \in 1..(Packets + 1) : Packet(q) = [k \in 1..lengths'[q] |-> <<q, k>>]
      BY <1>1 DEF Packet
    <3>4. writer'.part = SubSeq([k \in 1..lengths'[writer'.msg] |-> <<writer'.msg, k>>],
                                writer'.sent + 1, lengths'[writer'.msg])
      BY <1>1, <2>6, <3>2, <3>3
    <3>5. writer'.msg <= Packets /\ writer'.sent < lengths'[writer'.msg]
      BY <1>1, <1>4, <2>6
    <3>6. writer'.msg <= Packets /\ lengths'[writer'.msg] <= MinPacket =>
            writer'.sent <= lengths'[writer'.msg]
      BY <1>1, <2>6, <2>8
    <3>. QED
      BY ONLY <1>1, <2>6, <3>1, <3>4, <3>5, <3>6 DEF WriterOK, Packet
<1>5. CASE ~(writer.sent < lengths[m])
  <2>1. writer' = [writer EXCEPT !.msg = m + 1, !.sent = 0, !.part = <<>>]
    BY <1>1, <1>5 DEF WriteTurn
  <2>2. m + 1 \in 1..(Packets + 1) /\ <<>> \in Seq(Cell)
    BY <1>1, Constants
  <2>3. m + 1 \in 1..Packets => 0 <= lengths[m + 1]
    BY PacketFacts DEF Types
  <2>4. /\ writer'.at = "loop" /\ writer'.msg = m + 1 /\ writer'.sent = 0
        /\ writer' \in [at : {"loop", "partial", "threw"}, msg : 1..(Packets + 1), sent : Nat,
                        part : Seq(Cell), frag : Nat, byteSent : Nat]
    BY <1>1, <2>1, <2>2 DEF Types, WriterOK
  <2>5. m + 1 <= Packets => 0 <= lengths'[m + 1]
    BY <1>1, <2>2, <2>3, Constants
  <2>. QED
    BY ONLY <1>1, <2>4, <2>5 DEF WriterOK
<1>. QED
  BY <1>1, <1>4, <1>5

(* What a send() does, whatever part it takes. *)
LEMMA SendTypes ==
  ASSUME Types, Send
  PROVE  /\ WriterOK' /\ UNCHANGED <<setting, reader, received>>
         /\ \E k \in 1..Len(SendData) :
              /\ ~faults => k = Len(SendData)
              /\ SubSeq(SendData, 1, k) \in Seq(Cell) /\ Len(SubSeq(SendData, 1, k)) = k
              /\ \A j \in 1..k : SubSeq(SendData, 1, k)[j] = SendData[j]
              /\ wire' = wire \o SubSeq(SendData, 1, k) /\ pushed' = pushed \o SubSeq(SendData, 1, k)
              /\ writer' = IF Split(Len(writer.part)) /\ writer.frag < Count(Len(writer.part))
                           THEN [writer EXCEPT !.frag = @ + 1, !.byteSent = writer.byteSent + k]
                           ELSE [writer EXCEPT !.at = "loop", !.sent = @ + (writer.byteSent + k)]
<1>1. writer.at = "partial" /\ UNCHANGED <<setting, reader, received>> /\ lengths' = lengths
  BY DEF Send, setting
<1>. DEFINE m == writer.msg
            n == Len(writer.part)
            D == SendData
<1>2. D \in Seq(Cell) /\ Len(D) \in Nat \ {0} /\ (~Split(n) => D = writer.part)
  BY <1>1, SendFacts
<1>3. m \in 1..Packets /\ n \in Nat \ {0} /\ n = lengths[m] - writer.sent
  BY <1>1, PartFacts
<1>. HIDE DEF D
<1>4. PICK k \in 1..Len(D) :
        /\ ~faults => k = Len(D)
        /\ wire' = wire \o SubSeq(D, 1, k) /\ pushed' = pushed \o SubSeq(D, 1, k)
        /\ writer' = IF Split(n) /\ writer.frag < Count(n)
                     THEN [writer EXCEPT !.frag = @ + 1, !.byteSent = writer.byteSent + k]
                     ELSE [writer EXCEPT !.at = "loop", !.sent = @ + (writer.byteSent + k)]
  <2>1. PICK k \in IF faults THEN 1..Len(D) ELSE {Len(D)} :
          /\ wire' = wire \o SubSeq(D, 1, k) /\ pushed' = pushed \o SubSeq(D, 1, k)
          /\ writer' = IF Split(n) /\ writer.frag < Count(n)
                       THEN [writer EXCEPT !.frag = @ + 1, !.byteSent = writer.byteSent + k]
                       ELSE [writer EXCEPT !.at = "loop", !.sent = @ + (writer.byteSent + k)]
    BY DEF Send, D
  <2>2. k \in 1..Len(D) /\ (~faults => k = Len(D))
    BY <1>2, <2>1
  <2>. QED
    BY <2>1, <2>2
<1>5. /\ SubSeq(D, 1, k) \in Seq(Cell) /\ Len(SubSeq(D, 1, k)) = k
      /\ \A j \in 1..k : SubSeq(D, 1, k)[j] = D[j]
  <2>1. 0 \in Nat /\ k \in Nat /\ 0 + k <= Len(D) /\ 0 + 1 = 1 /\ 0 + k = k /\ \A j \in 1..k : 0 + j = j
    BY <1>2
  <2>. QED
    BY ONLY <1>2, <2>1, Slice
<1>6. WriterOK'
  <2>1. /\ writer \in [at : {"loop", "partial", "threw"}, msg : 1..(Packets + 1), sent : Nat,
                       part : Seq(Cell), frag : Nat, byteSent : Nat]
        /\ writer.part = SubSeq(Packet(m), writer.sent + 1, lengths[m]) /\ writer.sent < lengths[m]
        /\ (IF Split(n) THEN writer.frag \in 1..Count(n) ELSE writer.frag = 1 /\ writer.byteSent = 0)
        /\ m <= Packets /\ (m <= Packets /\ lengths[m] <= MinPacket => writer.sent <= lengths[m])
    BY <1>1 DEF Types, WriterOK
  <2>2. CASE Split(n) /\ writer.frag < Count(n)
    <3>1. writer' = [writer EXCEPT !.frag = @ + 1, !.byteSent = writer.byteSent + k]
      BY <1>4, <2>2
    <3>2. Count(n) \in Nat /\ writer.byteSent + k \in Nat /\ writer.frag + 1 \in Nat
      <4>1. Count(n) \in Nat
        BY <1>3, Counting
      <4>2. writer.byteSent \in Nat /\ writer.frag \in Nat
        BY <2>1
      <4>3. k \in Nat
        BY <1>2
      <4>. QED
        BY <4>1, <4>2, <4>3
    <3>3. writer.frag + 1 \in 1..Count(n)
      <4>1. writer.frag \in 1..Count(n)
        BY ONLY <2>1, <2>2
      <4>. HIDE DEF n
      <4>. QED
        BY <2>2, <3>2, <4>1
    <3>4. /\ writer'.at = "partial" /\ writer'.msg = m /\ writer'.sent = writer.sent
          /\ writer'.part = writer.part /\ writer'.frag = writer.frag + 1
          /\ writer' \in [at : {"loop", "partial", "threw"}, msg : 1..(Packets + 1), sent : Nat,
                          part : Seq(Cell), frag : Nat, byteSent : Nat]
      BY <1>1, <2>1, <3>1, <3>2
    <3>. QED
      BY <1>1, <2>1, <2>2, <3>3, <3>4 DEF WriterOK, Split, Packet, Count, Payload
  <2>3. CASE ~(Split(n) /\ writer.frag < Count(n))
    <3>1. writer' = [writer EXCEPT !.at = "loop", !.sent = @ + (writer.byteSent + k)]
      BY <1>4, <2>3
    <3>2. writer.sent + (writer.byteSent + k) \in Nat
      BY <1>2, <2>1
    <3>3. lengths[m] <= MinPacket => writer.sent + (writer.byteSent + k) <= lengths[m]
      <4>1. SUFFICES ASSUME lengths[m] <= MinPacket
                     PROVE  writer.sent + (writer.byteSent + k) <= lengths[m]
        OBVIOUS
      <4>2. lengths[m] \in Nat
        BY <1>3, PacketFacts DEF Types
      <4>3. ~Split(n)
        BY <1>3, <2>1, <4>1, <4>2, Constants DEF Split
      <4>. QED
        BY <1>2, <1>3, <2>1, <4>2, <4>3
    <3>. QED
      BY <1>1, <2>1, <3>1, <3>2, <3>3 DEF WriterOK
  <2>. QED
    BY <2>2, <2>3
<1>. QED
  BY <1>1, <1>4, <1>5, <1>6 DEF D

LEMMA WriterTypes ==
  ASSUME Types, Writes
  PROVE  WriterOK' /\ wire' \in Seq(Cell) /\ pushed' \in Seq(Cell) /\ UNCHANGED <<setting, reader, received>>
<1>1. wire \in Seq(Cell) /\ pushed \in Seq(Cell)
  BY DEF Types
<1>2. CASE WriteTurn
  BY <1>1, <1>2, WriteTurnTypes
<1>3. CASE Send
  <2>1. PICK k \in 1..Len(SendData) :
          /\ SubSeq(SendData, 1, k) \in Seq(Cell)
          /\ wire' = wire \o SubSeq(SendData, 1, k) /\ pushed' = pushed \o SubSeq(SendData, 1, k)
    BY <1>3, SendTypes
  <2>. QED
    BY <1>1, <1>3, <2>1, SendTypes, ConcatProperties
<1>4. CASE SendFails
  <2>1. /\ writer' = [writer EXCEPT !.at = "threw"]
        /\ UNCHANGED <<setting, wire, pushed, reader, received>> /\ lengths' = lengths
    BY <1>4 DEF SendFails, setting
  <2>2. WriterOK'
    <3>1. /\ writer \in [at : {"loop", "partial", "threw"}, msg : 1..(Packets + 1), sent : Nat,
                         part : Seq(Cell), frag : Nat, byteSent : Nat]
          /\ writer.msg <= Packets /\ lengths[writer.msg] <= MinPacket =>
               writer.sent <= lengths[writer.msg]
      BY DEF Types, WriterOK
    <3>. QED
      BY <2>1, <3>1 DEF WriterOK
  <2>. QED
    BY <1>1, <2>1, <2>2
<1>. QED
  BY <1>2, <1>3, <1>4 DEF Writes

-----------------------------------------------------------------------------
(* The steps of the reader                                                 *)

(* Over() keeps the length of the memory it writes to. *)
LEMMA OverFacts ==
  ASSUME NEW memory \in Seq(Cell), NEW at \in Nat \ {0}, NEW bytes \in Seq(Cell)
  PROVE  /\ Over(memory, at, bytes) \in Seq(Cell) /\ Len(Over(memory, at, bytes)) = Len(memory)
         /\ \A k \in 1..Len(memory) :
              Over(memory, at, bytes)[k] =
                IF k \in at..(at + Len(bytes) - 1) THEN bytes[k - at + 1] ELSE memory[k]
<1>. DEFINE over(k) == IF k \in at..(at + Len(bytes) - 1) THEN bytes[k - at + 1] ELSE memory[k]
<1>1. Over(memory, at, bytes) = [k \in 1..Len(memory) |-> over(k)]
  BY DEF Over
<1>2. ASSUME NEW k \in 1..Len(memory) PROVE over(k) \in Cell
  <2>1. k \in at..(at + Len(bytes) - 1) => k - at + 1 \in 1..Len(bytes)
    OBVIOUS
  <2>. QED
    BY <2>1
<1>. HIDE DEF over
<1>3. Over(memory, at, bytes) \in [1..Len(memory) -> Cell]
  BY <1>1, <1>2
<1>4. Over(memory, at, bytes) \in Seq(Cell) /\ Len(Over(memory, at, bytes)) = Len(memory)
  BY <1>3
<1>. QED
  BY <1>1, <1>4 DEF over

(* What recv() is asked for in the i-th turn: of a packet in fragments one
   fragment with its mark, the first without the header. *)
LEMMA WantedFacts ==
  ASSUME Types, reader.at = "read"
  PROVE  /\ reader.msg \in 1..Packets /\ lengths[reader.msg] \in Nat \ {0}
         /\ Wanted \in Nat \ {0}
         /\ ~Long => Wanted = lengths[reader.msg] - Header
         /\ Long => LET n == lengths[reader.msg]
                        i == reader.i
                    IN /\ Last = Count(n) /\ Last \in Nat /\ Last > 1 /\ i \in 1..Last
                       /\ Wanted <= MaxPatch /\ Wanted - Mark \in Nat
                       /\ Wanted = (IF i = 1 THEN Payload - Header ELSE Brings(n, i)) + Mark
                       /\ Wanted - Mark + reader.index <= Cut(i) + Brings(n, i) - Header
<1>. DEFINE n == lengths[reader.msg]
            i == reader.i
<1>1. reader.msg \in 1..Packets /\ i \in Nat /\ reader.index \in Nat
  BY Constants DEF Types, ReaderOK
<1>2. n \in Nat \ {0} /\ n > Header
  BY <1>1, PacketFacts DEF Types
<1>3. CASE ~Long
  <2>1. Wanted = n - Header
    BY <1>3, Constants DEF Wanted, Long
  <2>. QED
    BY <1>1, <1>2, <1>3, <2>1, Constants
<1>4. CASE Long
  <2>1. n > MinPacket /\ Last = Count(n) /\ i \in 1..Last
        /\ reader.index <= (IF i = 1 THEN 0 ELSE Cut(i) - Header)
    BY <1>4 DEF Long, Last, Types, ReaderOK
  <2>. HIDE DEF n, i
  <2>2. Last \in Nat /\ Last > 1
    BY <1>2, <2>1, Counting, Constants
  <2>3. Brings(n, i) \in 1..Payload /\ Cut(i) \in Nat
    BY <1>2, <2>1, Bringing
  <2>4. CASE i = 1
    <3>1. Wanted = MaxPatch - Header
      BY <1>4, <2>2, <2>4 DEF Wanted, i
    <3>2. Brings(n, i) = Payload /\ Cut(i) = 0
      BY <2>1, <2>2, <2>4, Constants DEF Brings, Cut
    <3>. QED
      BY <1>1, <1>2, <1>4, <2>1, <2>2, <2>4, <3>1, <3>2, Constants DEF n, i
  <2>5. CASE i # 1
    <3>1. i > 1
      BY <2>1, <2>2, <2>5
    <3>2. Wanted = (IF i = Last THEN LastLen(n) + Mark ELSE MaxPatch)
      BY <1>4, <3>1 DEF Wanted, i, n
    <3>3. Wanted = Brings(n, i) + Mark
      BY <2>1, <2>2, <3>2, Constants DEF Brings
    <3>. QED
      BY <1>1, <1>2, <1>4, <2>1, <2>2, <2>3, <2>5, <3>1, <3>3, Constants DEF n, i
  <2>. QED
    BY <2>4, <2>5
<1>. QED
  BY <1>3, <1>4

(* What is left of a sequence behind its first n members, and these. *)
LEMMA Behind ==
  ASSUME NEW S, NEW s \in Seq(S), NEW n \in 0..Len(s)
  PROVE  /\ SubSeq(s, n + 1, Len(s)) \in Seq(S) /\ Len(SubSeq(s, n + 1, Len(s))) = Len(s) - n
         /\ \A k \in 1..(Len(s) - n) : SubSeq(s, n + 1, Len(s))[k] = s[n + k]
<1>1. n \in Nat /\ Len(s) - n \in Nat /\ n + (Len(s) - n) = Len(s) /\ Len(s) <= Len(s)
  OBVIOUS
<1>. DEFINE r == Len(s) - n
<1>2. n \in Nat /\ r \in Nat /\ n + r <= Len(s) /\ n + r = Len(s)
  BY <1>1
<1>. HIDE DEF r
<1>3. /\ SubSeq(s, n + 1, n + r) \in Seq(S) /\ Len(SubSeq(s, n + 1, n + r)) = r
      /\ \A k \in 1..r : SubSeq(s, n + 1, n + r)[k] = s[n + k]
  BY ONLY <1>2, Slice
<1>. QED
  BY <1>2, <1>3 DEF r

LEMMA Front ==
  ASSUME NEW S, NEW s \in Seq(S), NEW n \in 0..Len(s)
  PROVE  /\ SubSeq(s, 1, n) \in Seq(S) /\ Len(SubSeq(s, 1, n)) = n
         /\ \A k \in 1..n : SubSeq(s, 1, n)[k] = s[k]
<1>1. 0 \in Nat /\ n \in Nat /\ 0 + n <= Len(s) /\ 0 + 1 = 1 /\ 0 + n = n /\ \A j \in 1..n : 0 + j = j
  OBVIOUS
<1>. QED
  BY ONLY <1>1, Slice

(* One recv() of k bytes: what it heard, precv with it, what the mark let
   through, and buf with that. *)
Heard(k) == SubSeq(wire, 1, k)
Laid(k) == Over(reader.precv, 1, Heard(k))
Gained(k) == IF Long THEN Taken(Laid(k)) ELSE Heard(k)
Kept(k) == Over(reader.buf, reader.index + 1, Gained(k))
Index(k) == reader.index + Len(Gained(k))
Finished == ~Long \/ reader.i = Last

(* What Recv does, in these terms. *)
LEMMA RecvFacts ==
  ASSUME Types, Recv
  PROVE  /\ reader.at = "read" /\ UNCHANGED <<setting, pushed, writer>>
         /\ \E k \in 1..Wanted :
              /\ k <= Len(wire) /\ (~faults => k = Wanted)
              /\ wire' = SubSeq(wire, k + 1, Len(wire))
              /\ IF Finished
                 THEN /\ received' = Append(received, SubSeq(Kept(k), 1, Index(k)))
                      /\ reader' = [reader EXCEPT !.at = "header", !.msg = @ + 1, !.index = Index(k),
                                      !.buf = <<>>, !.precv = <<>>]
                 ELSE /\ reader' = [reader EXCEPT !.i = @ + 1, !.index = Index(k), !.buf = Kept(k),
                                      !.precv = Laid(k)]
                      /\ UNCHANGED received
<1>1. reader.at = "read" /\ UNCHANGED <<setting, pushed, writer>>
  BY DEF Recv
<1>2. Wanted \in Nat \ {0} /\ Len(wire) \in Nat
  BY <1>1, WantedFacts DEF Types
<1>3. \A k \in 1..Least(Wanted, Len(wire)) : k \in 1..Wanted /\ k <= Len(wire)
  BY <1>2 DEF Least
<1>. QED
  BY <1>1, <1>3 DEF Recv, Heard, Laid, Gained, Kept, Index, Finished

(* They stay in precv and in buf. *)
LEMMA PieceFacts ==
  ASSUME Types, reader.at = "read", NEW k \in 1..Wanted, k <= Len(wire)
  PROVE  /\ Heard(k) \in Seq(Cell) /\ Len(Heard(k)) = k /\ \A j \in 1..k : Heard(k)[j] = wire[j]
         /\ Laid(k) \in Seq(Cell) /\ Len(Laid(k)) = MaxPatch
         /\ \A j \in 1..MaxPatch : j <= k => Laid(k)[j] = wire[j]
         /\ Gained(k) \in Seq(Cell) /\ Len(Gained(k)) \in Nat
         /\ Len(Gained(k)) <= (IF Long THEN Wanted - Mark ELSE Wanted)
         /\ Kept(k) \in Seq(Cell) /\ Len(Kept(k)) = lengths[reader.msg]
         /\ Index(k) \in Nat /\ Index(k) <= lengths[reader.msg]
         /\ Long => Index(k) <= Cut(reader.i) + Brings(lengths[reader.msg], reader.i) - Header
<1>. DEFINE n == lengths[reader.msg]
<1>1. /\ reader.precv \in Seq(Cell) /\ Len(reader.precv) = MaxPatch
      /\ reader.buf \in Seq(Cell) /\ Len(reader.buf) = n
      /\ reader.index \in Nat /\ wire \in Seq(Cell) /\ (~Long => reader.index = 0)
  BY DEF Types, ReaderOK
<1>2. n \in Nat \ {0} /\ Wanted \in Nat \ {0}
  BY WantedFacts
<1>3. k \in Nat \ {0} /\ k \in 0..Len(wire)
  BY <1>1, <1>2
<1>4. Heard(k) \in Seq(Cell) /\ Len(Heard(k)) = k /\ \A j \in 1..k : Heard(k)[j] = wire[j]
  BY <1>1, <1>3, Front DEF Heard
<1>5. /\ Laid(k) \in Seq(Cell) /\ Len(Laid(k)) = MaxPatch
      /\ \A j \in 1..MaxPatch : j <= k => Laid(k)[j] = wire[j]
  <2>1. /\ Laid(k) \in Seq(Cell) /\ Len(Laid(k)) = MaxPatch
        /\ \A j \in 1..MaxPatch : Laid(k)[j] = IF j \in 1..(1 + k - 1) THEN Heard(k)[j - 1 + 1]
                                              ELSE reader.precv[j]
    <3>1. 1 \in Nat \ {0} /\ Heard(k) \in Seq(Cell) /\ reader.precv \in Seq(Cell)
      BY <1>1, <1>4
    <3>2. /\ Laid(k) \in Seq(Cell) /\ Len(Laid(k)) = Len(reader.precv)
          /\ \A j \in 1..Len(reader.precv) :
               Laid(k)[j] = IF j \in 1..(1 + Len(Heard(k)) - 1) THEN Heard(k)[j - 1 + 1]
                                                             ELSE reader.precv[j]
      BY ONLY <3>1, OverFacts DEF Laid
    <3>. QED
      BY ONLY <1>1, <1>4, <3>2
  <2>2. \A j \in 1..MaxPatch : j <= k => j \in 1..(1 + k - 1) /\ j - 1 + 1 = j /\ j \in 1..k
    BY <1>3, Constants
  <2>. QED
    BY <1>4, <2>1, <2>2
<1>6. /\ Gained(k) \in Seq(Cell) /\ Len(Gained(k)) \in Nat
      /\ Len(Gained(k)) <= (IF Long THEN Wanted - Mark ELSE Wanted)
  <2>1. CASE Long
    <3>1. Wanted - Mark \in 0..Len(Laid(k))
      BY <1>2, <1>5, <2>1, WantedFacts, Constants
    <3>2. SubSeq(Laid(k), 1, Wanted - Mark) \in Seq(Cell)
          /\ Len(SubSeq(Laid(k), 1, Wanted - Mark)) = Wanted - Mark
      BY <1>5, <3>1, Front
    <3>3. Taken(Laid(k)) \in {<<>>, SubSeq(Laid(k), 1, Wanted - Mark)}
      BY DEF Taken
    <3>4. <<>> \in Seq(Cell) /\ Len(<<>>) = 0
      OBVIOUS
    <3>5. CASE Taken(Laid(k)) = <<>>
      BY <2>1, <3>1, <3>4, <3>5 DEF Gained
    <3>6. CASE Taken(Laid(k)) = SubSeq(Laid(k), 1, Wanted - Mark)
      BY <2>1, <3>1, <3>2, <3>6 DEF Gained
    <3>. QED
      BY <3>3, <3>5, <3>6
  <2>2. CASE ~Long
    BY <1>2, <1>3, <1>4, <2>2 DEF Gained
  <2>. QED
    BY <2>1, <2>2
<1>7. Kept(k) \in Seq(Cell) /\ Len(Kept(k)) = n
  <2>1. reader.index + 1 \in Nat \ {0}
    BY <1>1
  <2>. QED
    BY <1>1, <1>6, <2>1, OverFacts DEF Kept
<1>8. /\ Index(k) \in Nat /\ Index(k) <= n
      /\ Long => Index(k) <= Cut(reader.i) + Brings(n, reader.i) - Header
  <2>1. CASE Long
    <3>1. Cut(reader.i) + Brings(n, reader.i) <= n /\ Cut(reader.i) \in Nat /\ Brings(n, reader.i) \in Nat
      BY <1>2, <2>1, WantedFacts, Bringing
    <3>2. Wanted - Mark + reader.index <= Cut(reader.i) + Brings(n, reader.i) - Header
      BY <2>1, WantedFacts
    <3>3. Len(Gained(k)) <= Wanted - Mark /\ Len(Gained(k)) \in Nat
      BY <1>6, <2>1
    <3>. DEFINE g == Len(Gained(k))
                c == Cut(reader.i)
                b == Brings(n, reader.i)
                x == reader.index
    <3>4. /\ g \in Nat /\ g <= Wanted - Mark /\ Wanted \in Nat /\ Mark \in Nat /\ Header \in Nat
          /\ x \in Nat /\ c \in Nat /\ b \in Nat /\ c + b <= n /\ n \in Nat
          /\ Wanted - Mark + x <= c + b - Header
      BY <1>1, <1>2, <3>1, <3>2, <3>3, Constants
    <3>5. Index(k) = x + g
      BY DEF Index
    <3>. HIDE DEF g, c, b, x
    <3>6. Index(k) \in Nat /\ Index(k) <= n /\ Index(k) <= c + b - Header
      <4>. HIDE DEF n
      <4>. QED
        BY ONLY <3>4, <3>5
    <3>. QED
      BY <3>6 DEF c, b
  <2>2. CASE ~Long
    <3>1. Wanted = n - Header
      BY <2>2, WantedFacts
    <3>. QED
      BY <1>1, <1>2, <1>6, <2>2, <3>1, Constants DEF Index
  <2>. QED
    BY <2>1, <2>2
<1>. QED
  BY <1>4, <1>5, <1>6, <1>7, <1>8

(* Each step of the reader keeps the types. *)
LEMMA ReadHeaderTypes ==
  ASSUME Types, ReadHeader
  PROVE  /\ ReaderOK' /\ wire' \in Seq(Cell) /\ UNCHANGED <<setting, pushed, writer>>
<1>. DEFINE m == reader.msg
            n == lengths[m]
            buf == [k \in 1..n |-> Junk]
            precv == [k \in 1..MaxPatch |-> Junk]
<1>1. /\ m \in 1..Packets /\ Header \in 0..Len(wire) /\ wire' = SubSeq(wire, Header + 1, Len(wire))
      /\ reader' = [reader EXCEPT !.at = "read", !.i = 1, !.index = 0, !.retries = 0,
                      !.buf = buf, !.precv = precv]
      /\ UNCHANGED <<setting, pushed, writer, received>> /\ lengths' = lengths
  BY Constants DEF Types, ReaderOK, ReadHeader, setting
<1>2. n \in Nat \ {0}
  BY <1>1, PacketFacts DEF Types
<1>3. buf \in Seq(Cell) /\ Len(buf) = n /\ precv \in Seq(Cell) /\ Len(precv) = MaxPatch
  <2>1. buf \in [1..n -> Cell] /\ precv \in [1..MaxPatch -> Cell]
    BY MarkFacts
  <2>. QED
    BY <1>2, <2>1, Constants
<1>. HIDE DEF buf, precv, n
<1>4. wire' \in Seq(Cell)
  BY <1>1, Behind DEF Types
<1>5. 1 \in 1..Count(n)
  BY <1>2, Counting
<1>6. /\ reader'.at = "read" /\ reader'.msg = m /\ reader'.i = 1 /\ reader'.index = 0
      /\ reader'.buf = buf /\ reader'.precv = precv
      /\ reader' \in [at : {"header", "read", "threw"}, msg : 1..(Packets + 1), i : Nat, index : Nat,
                      buf : Seq(Cell), precv : Seq(Cell), retries : Int]
  <2>1. reader \in [at : {"header", "read", "threw"}, msg : 1..(Packets + 1), i : Nat, index : Nat,
                    buf : Seq(Cell), precv : Seq(Cell), retries : Int]
    BY DEF Types, ReaderOK
  <2>2. /\ reader'.at = "read" /\ reader'.msg = m /\ reader'.i = 1 /\ reader'.index = 0
        /\ reader'.buf = buf /\ reader'.precv = precv
    BY ONLY <1>1, <2>1
  <2>3. reader' \in [at : {"header", "read", "threw"}, msg : 1..(Packets + 1), i : Nat, index : Nat,
                     buf : Seq(Cell), precv : Seq(Cell), retries : Int]
    <3>1. 0 \in Int /\ 0 \in Nat /\ 1 \in Nat
      OBVIOUS
    <3>. DEFINE zero == 0
                one == 1
    <3>2. /\ reader' = [reader EXCEPT !.at = "read", !.i = one, !.index = zero, !.retries = zero,
                           !.buf = buf, !.precv = precv]
          /\ zero \in Int /\ zero \in Nat /\ one \in Nat
      BY ONLY <1>1, <3>1
    <3>. HIDE DEF zero, one
    <3>. QED
      BY ONLY <1>3, <2>1, <3>2
  <2>. QED
    BY ONLY <2>2, <2>3
<1>7. received' \in Seq(Seq(Cell)) /\ Len(received') = reader'.msg - 1 /\ reader'.msg <= Packets
  BY <1>1, <1>6 DEF Types, ReaderOK
<1>8. Long' = (lengths[m] > MinPacket) /\ Last' = Count(n)
  BY <1>1, <1>6 DEF Long, Last, n
<1>9. Len(reader'.buf) = lengths'[reader'.msg] /\ Len(reader'.precv) = MaxPatch
  BY <1>1, <1>3, <1>6 DEF n
<1>. QED
  BY <1>1, <1>4, <1>5, <1>6, <1>7, <1>8, <1>9 DEF ReaderOK

LEMMA RecvTypes ==
  ASSUME Types, Recv
  PROVE  /\ ReaderOK' /\ wire' \in Seq(Cell) /\ UNCHANGED <<setting, pushed, writer>>
<1>. DEFINE m == reader.msg
            n == lengths[m]
<1>1. reader.at = "read" /\ UNCHANGED <<setting, pushed, writer>> /\ lengths' = lengths
  BY RecvFacts DEF setting
<1>2. PICK k \in 1..Wanted :
        /\ k <= Len(wire) /\ wire' = SubSeq(wire, k + 1, Len(wire))
        /\ IF Finished
           THEN /\ received' = Append(received, SubSeq(Kept(k), 1, Index(k)))
                /\ reader' = [reader EXCEPT !.at = "header", !.msg = @ + 1, !.index = Index(k),
                                !.buf = <<>>, !.precv = <<>>]
           ELSE /\ reader' = [reader EXCEPT !.i = @ + 1, !.index = Index(k), !.buf = Kept(k),
                                !.precv = Laid(k)]
                /\ UNCHANGED received
  BY RecvFacts
<1>3. m \in 1..Packets /\ n \in Nat \ {0} /\ Wanted \in Nat \ {0}
  BY <1>1, WantedFacts
<1>4. wire' \in Seq(Cell)
  <2>1. k \in 0..Len(wire) /\ wire \in Seq(Cell)
    BY <1>2, <1>3 DEF Types
  <2>. QED
    BY <1>2, <2>1, Behind
<1>5. /\ Laid(k) \in Seq(Cell) /\ Len(Laid(k)) = MaxPatch
      /\ Kept(k) \in Seq(Cell) /\ Len(Kept(k)) = n
      /\ Index(k) \in Nat /\ Index(k) <= n
      /\ Long => Index(k) <= Cut(reader.i) + Brings(n, reader.i) - Header
  BY <1>1, <1>2, PieceFacts
<1>6. /\ reader \in [at : {"header", "read", "threw"}, msg : 1..(Packets + 1), i : Nat, index : Nat,
                     buf : Seq(Cell), precv : Seq(Cell), retries : Int]
      /\ received \in Seq(Seq(Cell)) /\ Len(received) = m - 1
  BY DEF Types, ReaderOK
<1>. HIDE DEF n
<1>7. CASE Finished
  <2>1. SubSeq(Kept(k), 1, Index(k)) \in Seq(Cell)
    BY <1>3, <1>5, Front
  <2>2. received' \in Seq(Seq(Cell)) /\ Len(received') = m
    <3>1. received' = Append(received, SubSeq(Kept(k), 1, Index(k)))
      BY <1>2, <1>7
    <3>2. received' \in Seq(Seq(Cell)) /\ Len(received') = Len(received) + 1
      BY ONLY <1>6, <2>1, <3>1, AppendProperties
    <3>3. m - 1 + 1 = m
      BY <1>3
    <3>. QED
      BY <1>6, <3>2, <3>3
  <2>3. m + 1 \in 1..(Packets + 1) /\ <<>> \in Seq(Cell) /\ m + 1 - 1 = m
    BY <1>3, Constants
  <2>4. reader' = [reader EXCEPT !.at = "header", !.msg = m + 1, !.index = Index(k),
                     !.buf = <<>>, !.precv = <<>>]
    BY <1>2, <1>7
  <2>5. /\ reader' \in [at : {"header", "read", "threw"}, msg : 1..(Packets + 1), i : Nat, index : Nat,
                        buf : Seq(Cell), precv : Seq(Cell), retries : Int]
        /\ reader'.at = "header" /\ reader'.msg = m + 1
    BY <1>5, <1>6, <2>3, <2>4
  <2>. QED
    BY <1>1, <1>4, <2>2, <2>3, <2>5 DEF ReaderOK
<1>8. CASE ~Finished
  <2>1. Long /\ reader.i # Last
    BY <1>8 DEF Finished
  <2>2. Last = Count(n) /\ Last \in Nat /\ reader.i \in 1..Last
    BY <1>1, <2>1, WantedFacts DEF n
  <2>3. reader.i \in Nat \ {0} /\ reader.i < Last /\ reader.i + 1 \in 1..Last
    BY <2>1, <2>2
  <2>4. Index(k) <= Cut(reader.i + 1) - Header
    <3>1. Brings(n, reader.i) = Payload
      BY <2>2, <2>3 DEF Brings
    <3>2. Cut(reader.i + 1) = Cut(reader.i) + Payload
      BY <2>3, Starting
    <3>3. Cut(reader.i) \in Nat
      BY <2>3, Starting
    <3>. QED
      BY <1>5, <2>1, <3>1, <3>2, <3>3, Constants
  <2>5. reader' = [reader EXCEPT !.i = reader.i + 1, !.index = Index(k), !.buf = Kept(k),
                     !.precv = Laid(k)] /\ received' = received
    BY <1>2, <1>8
  <2>6. /\ reader'.at = "read" /\ reader'.msg = m /\ reader'.i = reader.i + 1
        /\ reader'.index = Index(k) /\ reader'.buf = Kept(k) /\ reader'.precv = Laid(k)
        /\ reader' \in [at : {"header", "read", "threw"}, msg : 1..(Packets + 1), i : Nat, index : Nat,
                        buf : Seq(Cell), precv : Seq(Cell), retries : Int]
    <3>1. reader.i + 1 \in Nat
      BY <2>3
    <3>2. /\ reader'.at = "read" /\ reader'.msg = m /\ reader'.i = reader.i + 1
          /\ reader'.index = Index(k) /\ reader'.buf = Kept(k) /\ reader'.precv = Laid(k)
      BY ONLY <1>1, <1>6, <2>5
    <3>3. reader' \in [at : {"header", "read", "threw"}, msg : 1..(Packets + 1), i : Nat, index : Nat,
                       buf : Seq(Cell), precv : Seq(Cell), retries : Int]
      BY ONLY <1>5, <1>6, <2>5, <3>1
    <3>. QED
      BY ONLY <3>2, <3>3
  <2>7. Long' /\ Last' = Last
    BY <1>1, <2>1, <2>6 DEF Long, Last
  <2>8. Len(reader'.buf) = lengths'[reader'.msg] /\ Len(reader'.precv) = MaxPatch /\ reader'.msg <= Packets
    BY <1>1, <1>3, <1>5, <2>6 DEF n
  <2>9. reader'.i \in 1..Last' /\ reader'.i # 1 /\ reader'.index <= Cut(reader'.i) - Header
    BY <2>3, <2>4, <2>6, <2>7
  <2>. QED
    BY <1>1, <1>4, <1>6, <2>5, <2>6, <2>7, <2>8, <2>9 DEF ReaderOK
<1>. QED
  BY <1>7, <1>8

LEMMA ReaderTypes ==
  ASSUME Types, Reads
  PROVE  /\ ReaderOK' /\ wire' \in Seq(Cell) /\ UNCHANGED <<setting, pushed, writer>>
<1>1. CASE ReadHeader
  BY <1>1, ReadHeaderTypes
<1>2. CASE Recv
  BY <1>2, RecvTypes
<1>3. CASE RecvInterrupted
  <2>. DEFINE precv == [k \in 1..MaxPatch |-> Junk]
  <2>1. /\ reader.at = "read" /\ UNCHANGED <<setting, wire, pushed, writer, received>> /\ lengths' = lengths
        /\ reader' = [reader EXCEPT !.retries = @ + 1, !.i = 1, !.index = 0, !.precv = precv]
    BY <1>3 DEF RecvInterrupted, setting
  <2>2. precv \in Seq(Cell) /\ Len(precv) = MaxPatch
    <3>1. precv \in [1..MaxPatch -> Cell]
      BY MarkFacts
    <3>. QED
      BY <3>1, Constants
  <2>. HIDE DEF precv
  <2>3. Long => 1 \in 1..Last
    BY <2>1, WantedFacts
  <2>4. /\ reader'.at = "read" /\ reader'.msg = reader.msg /\ reader'.i = 1 /\ reader'.index = 0
        /\ reader'.buf = reader.buf /\ reader'.precv = precv
        /\ reader' \in [at : {"header", "read", "threw"}, msg : 1..(Packets + 1), i : Nat, index : Nat,
                        buf : Seq(Cell), precv : Seq(Cell), retries : Int]
    <3>1. reader \in [at : {"header", "read", "threw"}, msg : 1..(Packets + 1), i : Nat, index : Nat,
                      buf : Seq(Cell), precv : Seq(Cell), retries : Int]
      BY DEF Types, ReaderOK
    <3>2. /\ reader'.at = "read" /\ reader'.msg = reader.msg /\ reader'.i = 1 /\ reader'.index = 0
          /\ reader'.buf = reader.buf /\ reader'.precv = precv
      BY ONLY <2>1, <3>1
    <3>3. reader' \in [at : {"header", "read", "threw"}, msg : 1..(Packets + 1), i : Nat, index : Nat,
                       buf : Seq(Cell), precv : Seq(Cell), retries : Int]
      <4>. DEFINE zero == 0
                  one == 1
                  again == reader.retries + 1
      <4>1. /\ reader' = [reader EXCEPT !.retries = again, !.i = one, !.index = zero, !.precv = precv]
            /\ again \in Int /\ zero \in Nat /\ one \in Nat
        BY <2>1, <3>1
      <4>. HIDE DEF zero, one, again
      <4>. QED
        BY ONLY <2>2, <3>1, <4>1
    <3>. QED
      BY ONLY <3>2, <3>3
  <2>5. Long' = Long /\ Last' = Last
    BY <2>1, <2>4 DEF Long, Last
  <2>6. /\ reader.msg <= Packets /\ Len(reader.buf) = lengths[reader.msg]
        /\ received \in Seq(Seq(Cell)) /\ Len(received) = reader.msg - 1 /\ wire \in Seq(Cell)
    BY <2>1 DEF Types, ReaderOK
  <2>. QED
    BY <2>1, <2>2, <2>3, <2>4, <2>5, <2>6 DEF ReaderOK
<1>4. CASE RecvFails
  <2>1. /\ reader' = [reader EXCEPT !.at = "threw"]
        /\ UNCHANGED <<setting, wire, pushed, writer, received>>
    BY <1>4 DEF RecvFails
  <2>2. /\ reader \in [at : {"header", "read", "threw"}, msg : 1..(Packets + 1), i : Nat, index : Nat,
                       buf : Seq(Cell), precv : Seq(Cell), retries : Int]
        /\ received \in Seq(Seq(Cell)) /\ Len(received) = reader.msg - 1 /\ wire \in Seq(Cell)
    BY DEF Types, ReaderOK
  <2>3. /\ reader'.at = "threw" /\ reader'.msg = reader.msg
        /\ reader' \in [at : {"header", "read", "threw"}, msg : 1..(Packets + 1), i : Nat, index : Nat,
                        buf : Seq(Cell), precv : Seq(Cell), retries : Int]
    BY <2>1, <2>2
  <2>. QED
    BY <2>1, <2>2, <2>3 DEF ReaderOK
<1>. QED
  BY <1>1, <1>2, <1>3, <1>4 DEF Reads

(* The types are inductive. *)
LEMMA TypesStep == Types /\ [Next]_vars => Types'
<1>. SUFFICES ASSUME Types, [Next]_vars PROVE Types'
  OBVIOUS
<1>1. ASSUME UNCHANGED setting PROVE SettingOK'
  BY <1>1 DEF setting, SettingOK, Types
<1>2. CASE Writes
  <2>1. WriterOK' /\ wire' \in Seq(Cell) /\ pushed' \in Seq(Cell) /\ UNCHANGED <<setting, reader, received>>
    BY <1>2, WriterTypes
  <2>2. ReaderOK'
    BY <2>1 DEF Types, ReaderOK, Long, Last, setting
  <2>. QED
    BY <1>1, <2>1, <2>2 DEF Types
<1>3. CASE Reads
  <2>1. ReaderOK' /\ wire' \in Seq(Cell) /\ UNCHANGED <<setting, pushed, writer>>
    BY <1>3, ReaderTypes
  <2>2. WriterOK'
    BY <2>1 DEF Types, WriterOK, Packet, setting
  <2>. QED
    BY <1>1, <2>1, <2>2 DEF Types
<1>4. CASE UNCHANGED vars
  BY <1>4 DEF vars, setting, Types, SettingOK, WriterOK, ReaderOK, Packet, Long, Last
<1>. QED
  BY <1>2, <1>3, <1>4 DEF Next

LEMMA TypesAlways == Spec => []Types
BY InitTypes, TypesStep, PTL DEF Spec

(* However send() and recv() cut, fail or are interrupted, and however long a
   packet is, read() writes no more into its caller's buffer than the packet
   has behind its header, and recv() nothing behind precv. *)
THEOREM BuffersHold == Spec => []StaysInBuffer
<1>1. Types => StaysInBuffer
  <2>. SUFFICES ASSUME Types PROVE StaysInBuffer
    OBVIOUS
  <2>1. writer.at = "partial" => writer.part # <<>> /\ SendData # <<>>
    BY PartFacts, SendFacts
  <2>2. ASSUME reader.at = "read"
        PROVE  /\ reader.i \in 1..Last \/ ~Long
               /\ LET room == lengths[reader.msg] - Header - reader.index
                  IN IF Long THEN Wanted <= MaxPatch /\ Wanted - Mark <= room ELSE Wanted <= room
    <3>1. CASE Long
      <4>. DEFINE n == lengths[reader.msg]
                  c == Cut(reader.i)
                  b == Brings(n, reader.i)
      <4>1. /\ Wanted \in Nat /\ Wanted <= MaxPatch /\ reader.i \in 1..Last
            /\ Wanted - Mark + reader.index <= c + b - Header /\ n \in Nat \ {0} /\ Last = Count(n)
        BY <2>2, <3>1, WantedFacts
      <4>2. c + b <= n /\ c \in Nat /\ b \in Nat
        BY <4>1, Bringing
      <4>3. reader.index \in Nat
        BY DEF Types, ReaderOK
      <4>. HIDE DEF n, c, b
      <4>4. Wanted - Mark <= n - Header - reader.index
        BY <4>1, <4>2, <4>3, Constants
      <4>. QED
        BY <3>1, <4>1, <4>4 DEF n
    <3>2. CASE ~Long
      <4>1. Wanted = lengths[reader.msg] - Header /\ reader.index = 0 /\ Wanted \in Nat
        BY <2>2, <3>2, WantedFacts DEF Types, ReaderOK
      <4>. QED
        BY <3>2, <4>1
    <3>. QED
      BY <3>1, <3>2
  <2>3. TypeOK
    BY <2>1, <2>2 DEF TypeOK, Types, WriterOK, ReaderOK
  <2>. QED
    BY <2>2, <2>3 DEF StaysInBuffer
<1>. QED
  BY <1>1, TypesAlways, PTL

-----------------------------------------------------------------------------
(* What write() has sent                                                   *)

(* Of a packet that needs no fragments, what has been sent of it is the end of
   the stream; of later packets nothing has been sent. *)
Wrote ==
  /\ \A j \in DOMAIN pushed : pushed[j][1] <= writer.msg
  /\ writer.msg <= Packets /\ lengths[writer.msg] <= MinPacket =>
       /\ writer.sent <= Len(pushed)
       /\ \A j \in DOMAIN pushed :
            /\ j <= Len(pushed) - writer.sent => pushed[j][1] # writer.msg
            /\ ~(j <= Len(pushed) - writer.sent) => pushed[j] = <<writer.msg, j - (Len(pushed) - writer.sent)>>

(* A send() sends bytes of the packet, and marks. *)
LEMMA SendOwns ==
  ASSUME Types, writer.at = "partial", NEW j \in 1..Len(SendData)
  PROVE  SendData[j][1] \in {writer.msg, 0, -1}
<1>. DEFINE n == Len(writer.part)
            p == Brings(n, writer.frag)
<1>1. n \in Nat \ {0} /\ \A k \in 1..n : writer.part[k] = <<writer.msg, writer.sent + k>>
  BY PartFacts
<1>2. CASE ~Split(n)
  <2>1. SendData = writer.part
    BY <1>2, SendFacts
  <2>. QED
    BY <1>1, <2>1
<1>3. CASE Split(n)
  <2>1. writer.frag \in 1..Count(n)
    BY <1>3 DEF Types, WriterOK
  <2>2. p \in Nat \ {0} /\ Cut(writer.frag) \in Nat /\ Cut(writer.frag) + p <= n
    BY <1>1, <2>1, Bringing
  <2>3. /\ Len(SendData) = p + Mark
        /\ \A k \in 1..p : SendData[k] = writer.part[Cut(writer.frag) + k]
        /\ \A k \in 1..Mark : SendData[p + k] = <<IF writer.frag = Count(n) THEN -1 ELSE 0, k>>
    BY <1>3, SendFacts
  <2>. HIDE DEF n, p
  <2>4. CASE j <= p
    <3>1. j \in 1..p /\ Cut(writer.frag) + j \in 1..n
      BY <1>1, <2>2, <2>4
    <3>. QED
      BY <1>1, <2>3, <3>1
  <2>5. CASE ~(j <= p)
    <3>1. j - p \in 1..Mark /\ p + (j - p) = j
      BY <2>2, <2>3, <2>5, Constants
    <3>2. SendData[j] = <<IF writer.frag = Count(n) THEN -1 ELSE 0, j - p>>
      BY <2>3, <3>1
    <3>. QED
      BY <3>2
  <2>. QED
    BY <2>4, <2>5
<1>. QED
  BY <1>2, <1>3

(* What a send() adds to the stream. *)
LEMMA Added ==
  ASSUME Types, NEW t \in Seq(Cell), pushed' = pushed \o t
  PROVE  /\ Len(pushed) \in Nat /\ Len(t) \in Nat
         /\ DOMAIN pushed = 1..Len(pushed) /\ DOMAIN pushed' = 1..Len(pushed')
         /\ Len(pushed') = Len(pushed) + Len(t)
         /\ \A j \in 1..Len(pushed) : pushed'[j] = pushed[j]
         /\ \A j \in 1..Len(t) : pushed'[Len(pushed) + j] = t[j]
         /\ \A j \in DOMAIN pushed' : j \in DOMAIN pushed \/ j - Len(pushed) \in 1..Len(t)
<1>1. pushed \in Seq(Cell)
  BY DEF Types
<1>2. /\ pushed' \in Seq(Cell) /\ Len(pushed') = Len(pushed) + Len(t)
      /\ \A j \in 1..(Len(pushed) + Len(t)) :
           pushed'[j] = IF j <= Len(pushed) THEN pushed[j] ELSE t[j - Len(pushed)]
  BY <1>1, ConcatProperties
<1>. QED
  BY <1>1, <1>2

(* What has been sent of a packet, and of those before it, is inductive with the
   types. *)
LEMMA WroteStep == Types /\ Wrote /\ WrittenIsSent /\ [Next]_vars => Wrote' /\ WrittenIsSent'
<1>. SUFFICES ASSUME Types, Wrote, WrittenIsSent, [Next]_vars PROVE Wrote' /\ WrittenIsSent'
  OBVIOUS
<1>. DEFINE m == writer.msg
<1>1. /\ m \in 1..(Packets + 1) /\ writer.sent \in Nat /\ pushed \in Seq(Cell)
      /\ DOMAIN pushed = 1..Len(pushed) /\ Len(pushed) \in Nat
  BY DEF Types, WriterOK
<1>2. ASSUME UNCHANGED <<lengths, pushed, writer>> PROVE Wrote' /\ WrittenIsSent'
  BY <1>2 DEF Wrote, WrittenIsSent
<1>2a. ASSUME UNCHANGED <<lengths, pushed>>, writer'.msg = m, writer'.sent = writer.sent
       PROVE  Wrote' /\ WrittenIsSent'
  <2>1. Wrote'
    BY <1>2a DEF Wrote
  <2>2. WrittenIsSent'
    BY <1>2a DEF WrittenIsSent
  <2>. QED
    BY <2>1, <2>2
<1>3. CASE WriteTurn
  <2>1. /\ UNCHANGED <<lengths, pushed>> /\ writer.at = "loop" /\ m \in 1..Packets
        /\ lengths[m] \in Nat
    BY <1>1, <1>3, PacketFacts DEF WriteTurn, setting, Types
  <2>2. CASE writer.sent < lengths[m]
    <3>1. writer'.msg = m /\ writer'.sent = writer.sent
      BY <1>3, <2>2 DEF WriteTurn, Types, WriterOK
    <3>. QED
      BY <1>2a, <2>1, <3>1
  <2>3. CASE ~(writer.sent < lengths[m])
    <3>1. writer'.msg = m + 1 /\ writer'.sent = 0
      BY <1>3, <2>3 DEF WriteTurn, Types, WriterOK
    <3>2. \A j \in DOMAIN pushed : pushed[j][1] \in Int /\ pushed[j][1] <= m
      BY <1>1 DEF Wrote, Cell
    <3>3. \A j \in DOMAIN pushed : pushed[j][1] <= m + 1 /\ pushed[j][1] # m + 1
      BY <1>1, <3>2
    <3>4. Wrote'
      BY <1>1, <2>1, <3>1, <3>3 DEF Wrote
    <3>5. ASSUME lengths[m] <= MinPacket
          PROVE  \E at \in 0..Len(pushed) :
                   /\ {j \in DOMAIN pushed : pushed[j][1] = m} = (at + 1)..(at + lengths[m])
                   /\ \A k \in 1..lengths[m] : pushed[at + k] = <<m, k>>
      <4>1. writer.sent = lengths[m]
        BY <1>1, <2>1, <2>3, <3>5 DEF Types, WriterOK
      <4>. DEFINE at == Len(pushed) - lengths[m]
      <4>2. /\ lengths[m] <= Len(pushed)
            /\ \A j \in DOMAIN pushed : (j <= at => pushed[j][1] # m) /\ (~(j <= at) => pushed[j] = <<m, j - at>>)
        BY <2>1, <3>5, <4>1 DEF Wrote
      <4>3. at \in 0..Len(pushed) /\ at + lengths[m] = Len(pushed)
        BY <1>1, <2>1, <4>2
      <4>. HIDE DEF at
      <4>4. \A j \in (at + 1)..(at + lengths[m]) : j \in DOMAIN pushed /\ pushed[j][1] = m
        BY <1>1, <2>1, <4>2, <4>3
      <4>5. \A j \in DOMAIN pushed : pushed[j][1] = m => j \in (at + 1)..(at + lengths[m])
        BY <1>1, <2>1, <4>2, <4>3
      <4>6. \A k \in 1..lengths[m] : pushed[at + k] = <<m, k>>
        <5>1. \A k \in 1..lengths[m] : at + k \in DOMAIN pushed /\ ~(at + k <= at) /\ (at + k) - at = k
          BY <1>1, <2>1, <4>3
        <5>2. ASSUME NEW k \in 1..lengths[m] PROVE pushed[at + k] = <<m, k>>
          <6>1. at + k \in DOMAIN pushed /\ ~(at + k <= at)
            BY <5>1
          <6>2. (at + k) - at = k
            BY <5>1
          <6>3. \A j \in DOMAIN pushed : ~(j <= at) => pushed[j] = <<m, j - at>>
            BY <4>2
          <6>4. pushed[at + k] = <<m, (at + k) - at>>
            BY ONLY <6>1, <6>3
          <6>. QED
            BY <6>2, <6>4
        <5>. QED
          BY <5>2
      <4>. QED
        BY <4>3, <4>4, <4>5, <4>6
    <3>6. \A q \in 1..m : lengths[q] <= MinPacket =>
            \E at \in 0..Len(pushed) :
              /\ {j \in DOMAIN pushed : pushed[j][1] = q} = (at + 1)..(at + lengths[q])
              /\ \A k \in 1..lengths[q] : pushed[at + k] = <<q, k>>
      <4>1. \A q \in 1..m : q = m \/ q \in 1..(m - 1)
        BY <1>1
      <4>. QED
        BY <3>5, <4>1 DEF WrittenIsSent
    <3>7. WrittenIsSent'
      <4>1. writer'.msg - 1 = m
        BY <1>1, <3>1
      <4>2. ASSUME NEW q \in 1..(writer'.msg - 1), lengths'[q] <= MinPacket
            PROVE  \E at \in 0..Len(pushed') :
                     /\ {j \in DOMAIN pushed' : pushed'[j][1] = q} = (at + 1)..(at + lengths'[q])
                     /\ \A k \in 1..lengths'[q] : pushed'[at + k] = <<q, k>>
        <5>1. q \in 1..m /\ lengths[q] <= MinPacket /\ lengths' = lengths /\ pushed' = pushed
          BY <2>1, <4>1, <4>2
        <5>2. \E at \in 0..Len(pushed) :
                /\ {j \in DOMAIN pushed : pushed[j][1] = q} = (at + 1)..(at + lengths[q])
                /\ \A k \in 1..lengths[q] : pushed[at + k] = <<q, k>>
          BY <3>6, <5>1
        <5>. QED
          BY ONLY <5>1, <5>2
      <4>. QED
        BY ONLY <4>2 DEF WrittenIsSent
    <3>. QED
      BY <3>4, <3>7
  <2>. QED
    BY <2>2, <2>3
<1>4. CASE Send
  <2>1. PICK k \in 1..Len(SendData) :
          /\ SubSeq(SendData, 1, k) \in Seq(Cell) /\ Len(SubSeq(SendData, 1, k)) = k
          /\ \A j \in 1..k : SubSeq(SendData, 1, k)[j] = SendData[j]
          /\ pushed' = pushed \o SubSeq(SendData, 1, k)
          /\ writer' = IF Split(Len(writer.part)) /\ writer.frag < Count(Len(writer.part))
                       THEN [writer EXCEPT !.frag = @ + 1, !.byteSent = writer.byteSent + k]
                       ELSE [writer EXCEPT !.at = "loop", !.sent = @ + (writer.byteSent + k)]
    BY <1>4, SendTypes
  <2>. DEFINE t == SubSeq(SendData, 1, k)
              L == Len(pushed)
  <2>2. writer.at = "partial" /\ m \in 1..Packets /\ lengths' = lengths /\ k \in Nat \ {0}
    <3>1. writer.at = "partial" /\ lengths' = lengths
      BY <1>4 DEF Send, setting
    <3>2. Len(SendData) \in Nat
      BY <3>1, SendFacts
    <3>. QED
      BY <3>1, <3>2, PartFacts
  <2>3. writer'.msg = m
    BY <2>1 DEF Types, WriterOK
  <2>4. t \in Seq(Cell) /\ Len(t) = k /\ \A j \in 1..k : t[j][1] \in {m, 0, -1}
    <3>1. Len(SendData) \in Nat /\ \A j \in 1..k : j \in 1..Len(SendData)
      BY <2>2, SendFacts
    <3>. QED
      BY <2>1, <2>2, <3>1, SendOwns
  <2>. HIDE DEF t
  <2>5. /\ L \in Nat /\ DOMAIN pushed' = 1..Len(pushed') /\ Len(pushed') = L + k
        /\ \A j \in 1..L : pushed'[j] = pushed[j]
        /\ \A j \in 1..k : pushed'[L + j] = t[j]
        /\ \A j \in DOMAIN pushed' : j \in DOMAIN pushed \/ j - L \in 1..k
    BY <2>1, <2>4, Added DEF t
  <2>. HIDE DEF L
  <2>6. \A j \in DOMAIN pushed' : j \notin DOMAIN pushed => pushed'[j] = t[j - L] /\ j - L \in 1..k
    <3>1. \A j \in DOMAIN pushed' : j \notin DOMAIN pushed => j - L \in 1..k /\ L + (j - L) = j
      BY <2>5
    <3>. QED
      BY <2>5, <3>1
  <2>7. \A j \in DOMAIN pushed : pushed'[j] = pushed[j] /\ j \in DOMAIN pushed'
    BY <1>1, <2>2, <2>5 DEF L
  <2>8. \A j \in DOMAIN pushed' : pushed'[j][1] <= m
    <3>1. \A j \in DOMAIN pushed' : j \in DOMAIN pushed => pushed'[j][1] <= m
      BY <2>7 DEF Wrote
    <3>2. \A j \in DOMAIN pushed' : j \notin DOMAIN pushed => pushed'[j][1] <= m
      BY <1>1, <2>4, <2>6
    <3>. QED
      BY <3>1, <3>2
  <2>9. WrittenIsSent'
    <3>1. SUFFICES ASSUME NEW q \in 1..(m - 1), lengths[q] <= MinPacket
                   PROVE  \E at \in 0..Len(pushed') :
                            /\ {j \in DOMAIN pushed' : pushed'[j][1] = q} = (at + 1)..(at + lengths[q])
                            /\ \A i \in 1..lengths[q] : pushed'[at + i] = <<q, i>>
      BY <2>2, <2>3 DEF WrittenIsSent
    <3>2. PICK at \in 0..Len(pushed) :
            /\ {j \in DOMAIN pushed : pushed[j][1] = q} = (at + 1)..(at + lengths[q])
            /\ \A i \in 1..lengths[q] : pushed[at + i] = <<q, i>>
      BY <3>1 DEF WrittenIsSent
    <3>3. \A j \in DOMAIN pushed' : j \notin DOMAIN pushed => pushed'[j][1] # q
      BY <1>1, <2>4, <2>6
    <3>4. {j \in DOMAIN pushed' : pushed'[j][1] = q} = {j \in DOMAIN pushed : pushed[j][1] = q}
      BY <2>7, <3>3
    <3>5. q \in 1..Packets /\ lengths[q] \in Nat
      <4>1. q \in 1..Packets
        BY <2>2, <3>1, Constants
      <4>. QED
        BY <4>1, PacketFacts DEF Types
    <3>6. \A i \in 1..lengths[q] : at + i \in DOMAIN pushed
      <4>1. \A i \in 1..lengths[q] : at + i \in (at + 1)..(at + lengths[q])
        BY <1>1, <3>5
      <4>. QED
        BY <3>2, <4>1
    <3>7. at \in 0..Len(pushed')
      BY <1>1, <2>2, <2>5 DEF L
    <3>. QED
      BY <2>7, <3>2, <3>4, <3>6, <3>7
  <2>10. Wrote'
    <3>1. ASSUME lengths[m] <= MinPacket
          PROVE  /\ writer'.sent <= L + k
                 /\ \A j \in DOMAIN pushed' :
                      /\ j <= (L + k) - writer'.sent => pushed'[j][1] # m
                      /\ ~(j <= (L + k) - writer'.sent) => pushed'[j] = <<m, j - ((L + k) - writer'.sent)>>
      <4>1. lengths[m] \in Nat /\ Len(writer.part) \in Nat /\ Len(writer.part) <= lengths[m]
        BY <1>1, <2>2, PartFacts, PacketFacts DEF Types
      <4>2. ~Split(Len(writer.part))
        BY <3>1, <4>1, Constants DEF Split
      <4>3. writer.byteSent = 0 /\ SendData = writer.part
        BY <2>2, <4>2, SendFacts DEF Types, WriterOK
      <4>4. writer'.sent = writer.sent + k
        <5>1. writer' = [writer EXCEPT !.at = "loop", !.sent = @ + (writer.byteSent + k)]
          BY <2>1, <4>2
        <5>2. writer'.sent = writer.sent + (writer.byteSent + k)
          BY <5>1 DEF Types, WriterOK
        <5>. QED
          BY <1>1, <2>2, <4>3, <5>2
      <4>5. \A j \in 1..k : t[j] = <<m, writer.sent + j>>
        <5>1. \A j \in 1..k : j \in 1..Len(writer.part)
          BY <2>2, <4>1, <4>3
        <5>. QED
          BY <2>1, <2>2, <4>3, <5>1, PartFacts DEF t
      <4>. DEFINE b == L - writer.sent
      <4>6. /\ writer.sent <= L /\ b \in Nat /\ (L + k) - writer'.sent = b
            /\ \A j \in DOMAIN pushed : (j <= b => pushed[j][1] # m) /\ (~(j <= b) => pushed[j] = <<m, j - b>>)
        BY <1>1, <2>2, <2>5, <3>1, <4>4 DEF Wrote, L
      <4>7. ASSUME NEW j \in DOMAIN pushed', j \notin DOMAIN pushed
            PROVE  ~(j <= b) /\ pushed'[j] = <<m, j - b>>
        <5>1. pushed'[j] = t[j - L] /\ j - L \in 1..k /\ j \in Int
          BY <2>5, <2>6, <4>7
        <5>2. pushed'[j] = <<m, writer.sent + (j - L)>>
          BY <4>5, <5>1
        <5>3. writer.sent + (j - L) = j - b /\ ~(j <= b)
          <6>1. L \in Nat /\ k \in Nat /\ writer.sent \in Nat /\ j - L \in 1..k /\ j \in Int
            BY <1>1, <2>2, <2>5, <5>1
          <6>. QED
            BY ONLY <6>1
        <5>. QED
          BY <5>2, <5>3
      <4>. HIDE DEF b
      <4>8. \A j \in DOMAIN pushed' : (j <= b => pushed'[j][1] # m) /\ (~(j <= b) => pushed'[j] = <<m, j - b>>)
        BY <2>7, <4>6, <4>7
      <4>9. writer'.sent <= L + k
        BY <1>1, <2>2, <2>5, <4>4, <4>6
      <4>. QED
        BY <4>6, <4>8, <4>9
    <3>. QED
      <4>1. lengths'[writer'.msg] = lengths[m] /\ Len(pushed') = L + k
        BY <2>2, <2>3, <2>5
      <4>. QED
        <5>1. ASSUME writer'.msg <= Packets, lengths'[writer'.msg] <= MinPacket
              PROVE  /\ writer'.sent <= Len(pushed')
                     /\ \A j \in DOMAIN pushed' :
                          /\ j <= Len(pushed') - writer'.sent => pushed'[j][1] # writer'.msg
                          /\ ~(j <= Len(pushed') - writer'.sent) => pushed'[j] = <<writer'.msg, j - (Len(pushed') - writer'.sent)>>
          <6>1. lengths[m] <= MinPacket
            BY <4>1, <5>1
          <6>2. writer'.sent <= Len(pushed')
            BY ONLY <3>1, <4>1, <6>1
          <6>3. ASSUME NEW j \in DOMAIN pushed'
                PROVE  /\ j <= Len(pushed') - writer'.sent => pushed'[j][1] # writer'.msg
                       /\ ~(j <= Len(pushed') - writer'.sent) =>
                            pushed'[j] = <<writer'.msg, j - (Len(pushed') - writer'.sent)>>
            BY ONLY <2>3, <3>1, <4>1, <6>1, <6>3
          <6>. QED
            BY <6>2, <6>3
        <5>. QED
          BY ONLY <2>3, <2>8, <5>1 DEF Wrote
  <2>. QED
    BY <2>9, <2>10
<1>5. CASE SendFails
  <2>1. /\ UNCHANGED <<lengths, pushed>> /\ writer'.msg = m /\ writer'.sent = writer.sent
    BY <1>5 DEF SendFails, setting, Types, WriterOK
  <2>. QED
    BY <1>2a, <2>1
<1>6. CASE Reads
  BY <1>2, <1>6, ReaderTypes DEF setting
<1>7. CASE UNCHANGED vars
  BY <1>2, <1>7 DEF vars, setting
<1>. QED
  BY <1>3, <1>4, <1>5, <1>6, <1>7 DEF Next, Writes

(* However send() cuts what it is given, write() that has returned has sent every
   byte of a packet that needs no fragments, once, in order and with nothing in
   between: the loop of write() begins again where send() stopped. *)
THEOREM WritesAreWhole == Spec => []WrittenIsSent
<1>1. Init => Wrote /\ WrittenIsSent
  <2>. SUFFICES ASSUME Init PROVE Wrote /\ WrittenIsSent
    OBVIOUS
  <2>1. pushed = <<>> /\ writer.msg = 1 /\ writer.sent = 0
    BY DEF Init
  <2>. QED
    BY <2>1 DEF Wrote, WrittenIsSent
<1>2. Spec => [](Wrote /\ WrittenIsSent)
  BY <1>1, WroteStep, TypesAlways, PTL DEF Spec
<1>. QED
  BY <1>2, PTL

-----------------------------------------------------------------------------
(* The stream when every send() and recv() is whole                        *)

(* The fragments of packet m: how many, how long with their marks, and the bytes
   of the i-th; a packet that is not split is one fragment without a mark. *)
Frags(m) == IF lengths[m] > MinPacket THEN Count(lengths[m]) ELSE 1

FragLen(m, i) == IF lengths[m] > MinPacket THEN Brings(lengths[m], i) + Mark ELSE lengths[m]

FragByte(m, i, k) ==
  IF lengths[m] > MinPacket /\ k > Brings(lengths[m], i)
  THEN <<IF i = Frags(m) THEN -1 ELSE 0, k - Brings(lengths[m], i)>>
  ELSE <<m, Cut(i) + k>>

EncLen(m) == Place(Frags(m)) + FragLen(m, Frags(m))

(* How far the writer is in its packet: all of it is sent, or some fragments. *)
Complete == writer.at = "loop" /\ writer.sent # 0
SentFrags == IF writer.at = "partial" THEN writer.frag - 1
             ELSE IF Complete THEN Frags(writer.msg) ELSE 0
Progress == IF writer.at = "partial" THEN Place(writer.frag)
            ELSE IF Complete THEN EncLen(writer.msg) ELSE 0

(* Fragment i of packet m is in the stream, of which the packet begins behind
   `from' bytes. *)
Placed(from, m, i) ==
  /\ from + Place(i) + FragLen(m, i) <= Len(pushed)
  /\ \A k \in 1..FragLen(m, i) : pushed[from + Place(i) + k] = FragByte(m, i, k)

(* Whole send() and recv() calls never fail, and a packet is given to
   writePartial() once. *)
Whole ==
  /\ writer.at # "threw" /\ reader.at # "threw"
  /\ writer.at = "partial" =>
       /\ writer.sent = 0
       /\ Split(Len(writer.part)) => writer.byteSent = Place(writer.frag)
  /\ Complete => writer.msg <= Packets /\ writer.sent >= lengths[writer.msg]

(* Packet m begins behind base[m] bytes of the stream. *)
Stream(base) ==
  /\ base \in [1..(writer.msg + 1) -> Nat]
  /\ \A m \in 1..writer.msg : m <= Packets => base[m + 1] = base[m] + EncLen(m)
  /\ \A m \in 1..(writer.msg - 1) : \A i \in 1..Frags(m) : Placed(base[m], m, i)
  /\ \A i \in 1..SentFrags : Placed(base[writer.msg], writer.msg, i)
  /\ Len(pushed) = base[writer.msg] + Progress

(* What the reader has not received follows what it has; buf holds what the
   fragments before the i-th brought. *)
Skip == IF reader.i = 1 THEN Header ELSE 0
Passed(base) == base[reader.msg] + (IF reader.at = "read" THEN Place(reader.i) + Skip ELSE 0)
Reading(base) ==
  /\ reader.msg <= writer.msg + 1
  /\ Len(pushed) = Passed(base) + Len(wire)
  /\ \A k \in 1..Len(wire) : wire[k] = pushed[Passed(base) + k]
  /\ reader.at = "read" =>
       /\ reader.msg <= writer.msg
       /\ reader.index + Header = Cut(reader.i) + Skip
       /\ \A k \in 1..reader.index : reader.buf[k] = <<reader.msg, Header + k>>

(* The inductive invariant of behaviours without faults. *)
Arrives == ~faults => Whole /\ RoundTrip /\ \E base : Stream(base) /\ Reading(base)

(* The fragments of a packet follow each other without a gap. *)
LEMMA FragmentFacts ==
  ASSUME SettingOK, NEW m \in 1..Packets
  PROVE  /\ Frags(m) \in Nat \ {0} /\ EncLen(m) \in Nat /\ EncLen(m) >= lengths[m]
         /\ \A i \in 1..Frags(m) :
              /\ FragLen(m, i) \in Nat \ {0} /\ Place(i) \in Nat
              /\ Place(i) + FragLen(m, i) <= EncLen(m)
              /\ i < Frags(m) => Place(i) + FragLen(m, i) = Place(i + 1)
<1>. DEFINE n == lengths[m]
            c == Frags(m)
<1>1. n \in Nat \ {0}
  BY PacketFacts
<1>2. CASE ~(n > MinPacket)
  <2>1. c = 1 /\ \A i \in 1..c : i = 1 /\ FragLen(m, i) = n
    BY <1>2 DEF Frags, FragLen
  <2>2. Place(1) = 0
    BY Constants DEF Place
  <2>3. EncLen(m) = n
    BY <1>1, <2>1, <2>2 DEF EncLen
  <2>. HIDE DEF n, c
  <2>. QED
    BY <1>1, <2>1, <2>2, <2>3 DEF n, c
<1>3. CASE n > MinPacket
  <2>1. c = Count(n) /\ c \in Nat \ {0} /\ \A i \in 1..c : FragLen(m, i) = Brings(n, i) + Mark
    BY <1>1, <1>3, Counting DEF Frags, FragLen
  <2>2. EncLen(m) = Place(c) + FragLen(m, c)
    BY DEF EncLen
  <2>. HIDE DEF c, n
  <2>3. \A i \in 1..c : i \in Nat \ {0} /\ Brings(n, i) \in 1..Payload /\ Place(i) \in Nat
    BY <1>1, <2>1, Bringing, Starting
  <2>4. \A i \in 1..c : FragLen(m, i) \in Nat \ {0}
    BY <2>1, <2>3, Constants
  <2>5. c \in 1..c
    BY <2>1
  <2>6. EncLen(m) \in Nat
    BY <2>2, <2>3, <2>4, <2>5
  <2>7. EncLen(m) >= n
    <3>1. Cut(c) + Brings(n, c) = n /\ Cut(c) \in Nat
      BY <1>1, <2>1, <2>5, Bringing
    <3>2. Cut(c) <= Place(c)
      BY <2>1, Starting
    <3>3. FragLen(m, c) = Brings(n, c) + Mark
      BY <2>1, <2>5
    <3>. QED
      BY <1>1, <2>2, <2>3, <2>5, <3>1, <3>2, <3>3, Constants
  <2>8. ASSUME NEW i \in 1..c, i < c
        PROVE  /\ Place(i) + FragLen(m, i) = Place(i + 1)
               /\ Place(i) + FragLen(m, i) <= EncLen(m)
    <3>1. FragLen(m, i) = MaxPatch
      BY <2>1, <2>8, Constants DEF Brings
    <3>2. Place(i + 1) = Place(i) + MaxPatch /\ Place(i + 1) <= Place(c)
      BY <2>1, <2>3, <2>8, Starting
    <3>. QED
      BY <2>2, <2>3, <2>4, <2>5, <3>1, <3>2, Constants
  <2>9. \A i \in 1..c : Place(i) + FragLen(m, i) <= EncLen(m)
    <3>1. \A i \in 1..c : i < c \/ i = c
      BY <2>1
    <3>2. Place(c) + FragLen(m, c) <= EncLen(m)
      BY <2>2, <2>6
    <3>. QED
      BY <2>8, <3>1, <3>2
  <2>. QED
    BY <2>1, <2>3, <2>4, <2>6, <2>7, <2>8, <2>9 DEF n, c
<1>. QED
  BY <1>2, <1>3

(* What was placed stays where it is. *)
LEMMA PlacedStays ==
  ASSUME Types, NEW t \in Seq(Cell), pushed' = pushed \o t, lengths' = lengths,
         NEW from \in Nat, NEW m \in 1..Packets, NEW i \in 1..Frags(m), Placed(from, m, i)
  PROVE  Placed(from, m, i)'
<1>1. /\ Len(pushed) \in Nat /\ Len(t) \in Nat /\ Len(pushed') = Len(pushed) + Len(t)
      /\ \A j \in 1..Len(pushed) : pushed'[j] = pushed[j]
  BY Added
<1>2. FragLen(m, i) \in Nat \ {0} /\ Place(i) \in Nat
  BY FragmentFacts DEF Types
<1>3. /\ from + Place(i) + FragLen(m, i) <= Len(pushed)
      /\ \A k \in 1..FragLen(m, i) : pushed[from + Place(i) + k] = FragByte(m, i, k)
  BY DEF Placed
<1>4. FragLen(m, i)' = FragLen(m, i) /\ \A k : FragByte(m, i, k)' = FragByte(m, i, k)
  BY DEF FragLen, FragByte, Frags
<1>5. \A k \in 1..FragLen(m, i) : from + Place(i) + k \in 1..Len(pushed)
  BY <1>1, <1>2, <1>3
<1>6. from + Place(i) + FragLen(m, i) <= Len(pushed')
  BY <1>1, <1>2, <1>3
<1>. QED
  BY <1>1, <1>3, <1>4, <1>5, <1>6 DEF Placed

(* What a whole send() sends is the fragment that is due. *)
LEMMA SendsFragment ==
  ASSUME Types, Whole, writer.at = "partial", lengths[writer.msg] < RawLen
  PROVE  LET m == writer.msg
             i == writer.frag
         IN /\ m \in 1..Packets /\ i \in 1..Frags(m)
            /\ SendData \in Seq(Cell) /\ Len(SendData) = FragLen(m, i)
            /\ \A k \in 1..FragLen(m, i) : SendData[k] = FragByte(m, i, k)
            /\ Split(Len(writer.part)) <=> lengths[m] > MinPacket
            /\ Split(Len(writer.part)) => Count(Len(writer.part)) = Frags(m)
            /\ Place(i) = writer.byteSent
<1>. DEFINE m == writer.msg
            i == writer.frag
            n == lengths[m]
<1>1. /\ m \in 1..Packets /\ writer.sent = 0 /\ n \in Nat \ {0}
      /\ Len(writer.part) = n - 0 /\ \A k \in 1..n : writer.part[k] = <<m, 0 + k>>
  <2>1. m \in 1..Packets /\ writer.sent = 0
    BY PartFacts DEF Whole
  <2>2. n \in Nat \ {0}
    BY <2>1, PacketFacts DEF Types
  <2>3. Len(writer.part) = n - 0 /\ \A k \in 1..Len(writer.part) : writer.part[k] = <<m, 0 + k>>
    BY <2>1, PartFacts
  <2>. QED
    BY <2>1, <2>2, <2>3
<1>2. Len(writer.part) = n /\ \A k \in 1..n : writer.part[k] = <<m, k>>
  BY <1>1
<1>3. SendData \in Seq(Cell)
  BY SendFacts
<1>4. Split(n) <=> n > MinPacket
  BY DEF Split
<1>5. CASE ~(n > MinPacket)
  <2>1. SendData = writer.part /\ i = 1 /\ writer.byteSent = 0
    BY <1>2, <1>4, <1>5, SendFacts DEF Types, WriterOK
  <2>2. Frags(m) = 1 /\ FragLen(m, i) = n /\ Cut(1) = 0 /\ Place(1) = 0
    BY <1>5, Constants DEF Frags, FragLen, Cut, Place
  <2>3. \A k \in 1..n : FragByte(m, i, k) = <<m, 0 + k>> /\ 0 + k = k
    BY <1>5, <2>1, <2>2 DEF FragByte
  <2>4. \A k \in 1..n : SendData[k] = FragByte(m, i, k)
    BY <1>2, <2>1, <2>3
  <2>. QED
    BY <1>1, <1>2, <1>3, <1>4, <1>5, <2>1, <2>2, <2>4
<1>6. CASE n > MinPacket
  <2>1. i \in 1..Count(n) /\ writer.byteSent = Place(i)
    BY <1>2, <1>4, <1>6 DEF Types, WriterOK, Whole
  <2>2. Frags(m) = Count(n) /\ FragLen(m, i) = Brings(n, i) + Mark
    BY <1>6 DEF Frags, FragLen
  <2>. DEFINE p == Brings(n, i)
  <2>3. /\ Len(SendData) = p + Mark
        /\ \A k \in 1..p : SendData[k] = writer.part[Cut(i) + k]
        /\ \A k \in 1..Mark : SendData[p + k] = <<IF i = Count(n) THEN -1 ELSE 0, k>>
    BY <1>2, <1>4, <1>6, SendFacts
  <2>4. p \in 1..Payload /\ Cut(i) \in Nat /\ Cut(i) + p <= n
    BY <1>1, <2>1, Bringing
  <2>5. ASSUME NEW k \in 1..(p + Mark) PROVE SendData[k] = FragByte(m, i, k)
    <3>. HIDE DEF p, n
    <3>1. CASE k <= p
      <4>1. k \in 1..p /\ Cut(i) + k \in 1..n /\ ~(k > p)
        BY <1>1, <2>4, <3>1
      <4>2. SendData[k] = <<m, Cut(i) + k>>
        BY <1>2, <2>3, <4>1
      <4>. QED
        BY <4>1, <4>2 DEF FragByte, p, n
    <3>2. CASE ~(k <= p)
      <4>1. k > p /\ k - p \in 1..Mark /\ p + (k - p) = k
        BY <2>4, <3>2, Constants
      <4>2. SendData[k] = <<IF i = Count(n) THEN -1 ELSE 0, k - p>>
        BY <2>3, <4>1
      <4>. QED
        BY <1>6, <2>2, <4>1, <4>2 DEF FragByte, p, n
    <3>. QED
      BY <3>1, <3>2
  <2>. QED
    BY <1>1, <1>2, <1>3, <1>4, <1>6, <2>1, <2>2, <2>3, <2>5
<1>. QED
  BY <1>5, <1>6

(* The reader's place in the stream is a number. *)
LEMMA PassedIs ==
  ASSUME Types, NEW base \in [1..(writer.msg + 1) -> Nat], Reading(base)
  PROVE  /\ reader.msg \in 1..(writer.msg + 1) /\ base[reader.msg] \in Nat
         /\ Passed(base) \in Nat /\ Skip \in Nat
         /\ reader.at = "read" => Place(reader.i) \in Nat /\ reader.i \in Nat \ {0}
<1>1. reader.msg \in 1..(writer.msg + 1)
  BY DEF Types, ReaderOK, Reading
<1>2. Skip \in Nat
  BY Constants DEF Skip
<1>3. ASSUME reader.at = "read" PROVE reader.i \in Nat \ {0}
  <2>1. CASE Long
    BY <1>3, <2>1, WantedFacts
  <2>2. CASE ~Long
    BY <1>3, <2>2 DEF Types, ReaderOK
  <2>. QED
    BY <2>1, <2>2
<1>4. reader.at = "read" => Place(reader.i) \in Nat
  BY <1>3, Starting
<1>. QED
  BY <1>1, <1>2, <1>3, <1>4 DEF Passed

(* The reader's place does not move while the writer sends. *)
LEMMA ReadingStays ==
  ASSUME Types, NEW base \in [1..(writer.msg + 1) -> Nat], Reading(base),
         NEW t \in Seq(Cell), wire' = wire \o t, pushed' = pushed \o t, reader' = reader,
         writer'.msg \in Nat, writer'.msg >= writer.msg,
         NEW later, \A q \in 1..(writer.msg + 1) : later[q] = base[q]
  PROVE  Reading(later)'
<1>1. /\ reader.msg \in 1..(writer.msg + 1) /\ Passed(base) \in Nat /\ writer.msg \in Nat
  BY PassedIs DEF Types, WriterOK
<1>2. Passed(later)' = Passed(base)
  BY <1>1 DEF Passed, Skip
<1>3. /\ Len(pushed) \in Nat /\ Len(t) \in Nat /\ Len(pushed') = Len(pushed) + Len(t)
      /\ \A j \in 1..Len(pushed) : pushed'[j] = pushed[j]
      /\ \A j \in 1..Len(t) : pushed'[Len(pushed) + j] = t[j]
  BY Added
<1>4. /\ Len(wire) \in Nat /\ Len(wire') = Len(wire) + Len(t)
      /\ \A k \in 1..(Len(wire) + Len(t)) : wire'[k] = IF k <= Len(wire) THEN wire[k] ELSE t[k - Len(wire)]
  BY ConcatProperties DEF Types
<1>5. Len(pushed) = Passed(base) + Len(wire) /\ \A k \in 1..Len(wire) : wire[k] = pushed[Passed(base) + k]
  BY DEF Reading
<1>6. ASSUME NEW k \in 1..Len(wire') PROVE wire'[k] = pushed'[Passed(base) + k]
  <2>1. CASE k <= Len(wire)
    <3>1. k \in 1..Len(wire) /\ Passed(base) + k \in 1..Len(pushed)
      BY <1>1, <1>3, <1>4, <1>5, <2>1
    <3>. QED
      BY <1>3, <1>4, <1>5, <1>6, <2>1, <3>1
  <2>2. CASE ~(k <= Len(wire))
    <3>1. k - Len(wire) \in 1..Len(t) /\ Len(pushed) + (k - Len(wire)) = Passed(base) + k
      BY <1>1, <1>3, <1>4, <1>5, <2>2
    <3>2. wire'[k] = t[k - Len(wire)]
      BY <1>4, <1>6, <2>2
    <3>3. pushed'[Passed(base) + k] = t[k - Len(wire)]
      BY <1>3, <3>1
    <3>. QED
      BY <3>2, <3>3
  <2>. QED
    BY <2>1, <2>2
<1>7. Len(pushed') = Passed(base) + Len(wire')
  BY <1>1, <1>3, <1>4, <1>5
<1>8. reader'.msg <= writer'.msg + 1 /\ (reader'.at = "read" => reader'.msg <= writer'.msg)
  BY <1>1 DEF Reading
<1>9. reader'.at = "read" =>
        /\ reader'.index + Header = Cut(reader'.i) + Skip'
        /\ \A k \in 1..reader'.index : reader'.buf[k] = <<reader'.msg, Header + k>>
  BY DEF Reading, Skip
<1>. QED
  BY <1>2, <1>6, <1>7, <1>8, <1>9 DEF Reading

(* A turn of write() puts nothing on the stream; behind the last fragment the
   next packet begins. *)
LEMMA WriteTurnArrives ==
  ASSUME Types, Whole, NEW base, Stream(base), Reading(base), WriteTurn
  PROVE  Whole' /\ \E later : Stream(later)' /\ Reading(later)'
<1>. DEFINE m == writer.msg
<1>1. /\ writer.at = "loop" /\ m \in 1..Packets /\ UNCHANGED <<lengths, wire, pushed, reader>>
      /\ base \in [1..(m + 1) -> Nat] /\ writer.sent \in Nat
  BY Constants DEF Types, WriterOK, WriteTurn, setting, Stream
<1>2. lengths[m] \in Nat \ {0} /\ Frags(m) \in Nat \ {0} /\ EncLen(m) \in Nat
  BY <1>1, PacketFacts, FragmentFacts DEF Types
<1>3. reader.at # "threw"
  BY DEF Whole
<1>4. wire' = wire \o <<>> /\ pushed' = pushed \o <<>> /\ <<>> \in Seq(Cell)
  BY <1>1, ConcatEmptySeq DEF Types
<1>5. ASSUME NEW from, NEW q, NEW i, Placed(from, q, i)
      PROVE  Placed(from, q, i)'
  BY <1>1, <1>5 DEF Placed, FragLen, FragByte, Frags
<1>5a. m \in Nat /\ m >= m /\ m + 1 >= m /\ m + 1 \in Nat /\ Packets \in Nat
  BY <1>1, Constants
<1>6. \A q : Frags(q)' = Frags(q) /\ EncLen(q)' = EncLen(q)
  BY <1>1 DEF Frags, EncLen, FragLen
<1>7. CASE writer.sent < lengths[m]
  <2>1. writer.sent = 0
    BY <1>1, <1>2, <1>7 DEF Whole, Complete
  <2>2. writer'.at = "partial" /\ writer'.msg = m /\ writer'.sent = 0 /\ writer'.frag = 1 /\ writer'.byteSent = 0
    BY <1>7, <2>1 DEF WriteTurn, Types, WriterOK
  <2>3. Place(1) = 0
    BY Constants DEF Place
  <2>4. Whole'
    BY <1>1, <1>3, <2>2, <2>3 DEF Whole, Complete
  <2>5. SentFrags' = 0 /\ Progress' = 0 /\ Progress = 0
    BY <1>1, <2>1, <2>2, <2>3 DEF SentFrags, Progress, Complete
  <2>6. \A q \in 1..m : q <= Packets => base[q + 1] = base[q] + EncLen(q)'
    BY <1>6 DEF Stream
  <2>7. \A q \in 1..(m - 1) : \A i \in 1..Frags(q)' : Placed(base[q], q, i)'
    BY <1>5, <1>6 DEF Stream
  <2>8. Len(pushed') = base[m] + Progress'
    BY <1>1, <2>5 DEF Stream
  <2>9. Stream(base)'
    BY <1>1, <2>2, <2>5, <2>6, <2>7, <2>8 DEF Stream
  <2>10. Reading(base)'
    <3>1. writer'.msg \in Nat /\ writer'.msg >= writer.msg /\ reader' = reader
      BY <1>1, <1>5a, <2>2
    <3>2. \A q \in 1..(writer.msg + 1) : base[q] = base[q]
      OBVIOUS
    <3>3. Types /\ Reading(base)
      OBVIOUS
    <3>. HIDE DEF m
    <3>. QED
      BY ONLY <1>1, <1>4, <3>1, <3>2, <3>3, ReadingStays DEF m
  <2>. QED
    BY <2>4, <2>9, <2>10
<1>8. CASE ~(writer.sent < lengths[m])
  <2>1. Complete
    BY <1>1, <1>2, <1>8 DEF Complete
  <2>2. writer'.at = "loop" /\ writer'.msg = m + 1 /\ writer'.sent = 0
    BY <1>1, <1>8 DEF WriteTurn, Types, WriterOK
  <2>3. Whole'
    BY <1>1, <1>3, <2>2 DEF Whole, Complete
  <2>4. SentFrags' = 0 /\ Progress' = 0 /\ Progress = EncLen(m) /\ SentFrags = Frags(m)
    BY <1>1, <2>1, <2>2 DEF SentFrags, Progress, Complete
  <2>. DEFINE next == IF m + 1 <= Packets THEN base[m + 1] + EncLen(m + 1) ELSE 0
  <2>5. next \in Nat
    <3>1. m + 1 <= Packets => EncLen(m + 1) \in Nat
      <4>1. m + 1 <= Packets => m + 1 \in 1..Packets
        BY <1>1
      <4>. QED
        BY <4>1, FragmentFacts DEF Types
    <3>2. base[m + 1] \in Nat
      BY <1>1
    <3>. QED
      BY <3>1, <3>2
  <2>6. PICK later : /\ later \in [1..(m + 2) -> Nat] /\ later[m + 2] = next
                     /\ \A q \in 1..(m + 1) : later[q] = base[q]
    <3>. HIDE DEF next
    <3>. DEFINE l == [q \in 1..(m + 2) |-> IF q <= m + 1 THEN base[q] ELSE next]
    <3>1. /\ l \in [1..(m + 2) -> Nat] /\ l[m + 2] = next
          /\ \A q \in 1..(m + 1) : l[q] = base[q]
      BY <1>1, <2>5
    <3>. HIDE DEF l
    <3>. QED
      BY <3>1
  <2>7. m + 1 \in Nat /\ m + 1 >= m /\ (m + 1) - 1 = m /\ (m + 1) + 1 = m + 2 /\ m \in 1..(m + 1) /\ m + 1 \in 1..(m + 1)
    BY <1>1
  <2>8. ASSUME NEW q \in 1..(m + 1), q <= Packets PROVE later[q + 1] = later[q] + EncLen(q)'
    <3>1. CASE q = m + 1
      <4>1. later[q + 1] = next /\ later[q] = base[m + 1]
        BY <2>6, <2>7, <3>1
      <4>. QED
        BY <1>6, <2>8, <3>1, <4>1
    <3>2. CASE q # m + 1
      <4>1. q \in 1..m /\ q \in 1..(m + 1) /\ q + 1 \in 1..(m + 1)
        BY <1>1, <2>8, <3>2
      <4>2. base[q + 1] = base[q] + EncLen(q)
        BY <2>8, <4>1 DEF Stream
      <4>. QED
        BY <1>6, <2>6, <4>1, <4>2
    <3>. QED
      BY <3>1, <3>2
  <2>. HIDE DEF next
  <2>9. ASSUME NEW q \in 1..m, NEW i \in 1..Frags(q)' PROVE Placed(later[q], q, i)'
    <3>1. i \in 1..Frags(q)
      BY <1>6
    <3>2. Placed(base[q], q, i)
      <4>1. CASE q = m
        BY <2>4, <3>1, <4>1 DEF Stream
      <4>2. CASE q # m
        <5>1. q \in 1..(m - 1)
          BY <1>1, <4>2
        <5>. QED
          BY <3>1, <5>1 DEF Stream
      <4>. QED
        BY <4>1, <4>2
    <3>3. later[q] = base[q]
      BY <1>1, <2>6
    <3>. QED
      BY <1>5, <3>2, <3>3
  <2>10. Len(pushed') = later[m + 1] + Progress'
    <3>1. Len(pushed) = base[m] + EncLen(m)
      BY <2>4 DEF Stream
    <3>2. base[m + 1] = base[m] + EncLen(m) /\ base[m + 1] \in Nat
      BY <1>1, <2>7 DEF Stream
    <3>. QED
      BY <1>1, <2>4, <2>6, <2>7, <3>1, <3>2
  <2>11. Stream(later)'
    BY <2>2, <2>4, <2>6, <2>7, <2>8, <2>9, <2>10 DEF Stream
  <2>12. Reading(later)'
    <3>1. writer'.msg \in Nat /\ writer'.msg >= writer.msg /\ reader' = reader
      BY <1>1, <1>5a, <2>2
    <3>2. \A q \in 1..(writer.msg + 1) : later[q] = base[q]
      BY <2>6
    <3>3. Types /\ Reading(base)
      OBVIOUS
    <3>. HIDE DEF m
    <3>. QED
      BY ONLY <1>1, <1>4, <3>1, <3>2, <3>3, ReadingStays DEF m
  <2>. QED
    BY <2>3, <2>11, <2>12
<1>. QED
  BY <1>7, <1>8

(* A whole send() puts the next fragment where it belongs. *)
LEMMA SendArrives ==
  ASSUME Types, Whole, NEW base, Stream(base), Reading(base), ~faults, Send,
         lengths[writer.msg] < RawLen
  PROVE  Whole' /\ Stream(base)' /\ Reading(base)'
<1>0. PICK m, i, d : m = writer.msg /\ i = writer.frag /\ d = FragLen(m, i)
  OBVIOUS
<1>1. writer.at = "partial" /\ UNCHANGED <<setting, reader>> /\ lengths' = lengths
  BY DEF Send, setting
<1>2. /\ m \in 1..Packets /\ i \in 1..Frags(m) /\ SendData \in Seq(Cell) /\ Len(SendData) = d
      /\ \A k \in 1..d : SendData[k] = FragByte(m, i, k)
      /\ Split(Len(writer.part)) <=> lengths[m] > MinPacket
      /\ Split(Len(writer.part)) => Count(Len(writer.part)) = Frags(m)
      /\ Place(i) = writer.byteSent
  BY <1>0, <1>1, SendsFragment
<1>3. /\ Frags(m) \in Nat \ {0} /\ EncLen(m) \in Nat /\ EncLen(m) >= lengths[m] /\ d \in Nat \ {0}
      /\ Place(i) \in Nat /\ (i < Frags(m) => Place(i) + d = Place(i + 1))
      /\ i \in Nat \ {0} /\ lengths[m] \in Nat \ {0}
  BY <1>0, <1>2, FragmentFacts, PacketFacts DEF Types
<1>4. PICK t \in Seq(Cell) :
        /\ Len(t) = d /\ \A j \in 1..d : t[j] = SendData[j]
        /\ wire' = wire \o t /\ pushed' = pushed \o t
        /\ writer' = IF Split(Len(writer.part)) /\ i < Count(Len(writer.part))
                     THEN [writer EXCEPT !.frag = @ + 1, !.byteSent = writer.byteSent + d]
                     ELSE [writer EXCEPT !.at = "loop", !.sent = @ + (writer.byteSent + d)]
  <2>1. PICK k \in 1..Len(SendData) :
          /\ ~faults => k = Len(SendData)
          /\ SubSeq(SendData, 1, k) \in Seq(Cell) /\ Len(SubSeq(SendData, 1, k)) = k
          /\ \A j \in 1..k : SubSeq(SendData, 1, k)[j] = SendData[j]
          /\ wire' = wire \o SubSeq(SendData, 1, k) /\ pushed' = pushed \o SubSeq(SendData, 1, k)
          /\ writer' = IF Split(Len(writer.part)) /\ writer.frag < Count(Len(writer.part))
                       THEN [writer EXCEPT !.frag = @ + 1, !.byteSent = writer.byteSent + k]
                       ELSE [writer EXCEPT !.at = "loop", !.sent = @ + (writer.byteSent + k)]
    BY SendTypes
  <2>2. k = d
    BY <1>2, <2>1
  <2>. QED
    BY <1>0, <1>2, <2>1, <2>2
<1>5. base \in [1..(m + 1) -> Nat] /\ m \in 1..(m + 1) /\ base[m] \in Nat
  BY <1>0, <1>2 DEF Stream
<1>6. SentFrags = i - 1 /\ Progress = Place(i) /\ Len(pushed) = base[m] + Place(i)
  BY <1>0, <1>1 DEF SentFrags, Progress, Stream
<1>7. \A from, q, j : Frags(q)' = Frags(q) /\ EncLen(q)' = EncLen(q) /\ FragLen(q, j)' = FragLen(q, j)
  BY <1>1 DEF Frags, EncLen, FragLen
<1>8. Placed(base[m], m, i)'
  <2>1. /\ Len(pushed') = Len(pushed) + Len(t)
        /\ \A j \in 1..Len(t) : pushed'[Len(pushed) + j] = t[j]
    BY <1>4, Added
  <2>2. base[m] + Place(i) + d <= Len(pushed')
    BY <1>3, <1>4, <1>5, <1>6, <2>1
  <2>3. \A k : FragByte(m, i, k)' = FragByte(m, i, k)
    BY <1>1 DEF FragByte, Frags
  <2>4. FragLen(m, i)' = d
    BY <1>0, <1>7
  <2>5. \A k \in 1..d : pushed'[base[m] + Place(i) + k] = FragByte(m, i, k)'
    BY <1>2, <1>4, <1>6, <2>1, <2>3
  <2>. QED
    BY <2>2, <2>4, <2>5 DEF Placed
<1>9. \A q \in 1..m : q <= Packets => base[q + 1] = base[q] + EncLen(q)'
  BY <1>0, <1>7 DEF Stream
<1>10. ASSUME NEW q \in 1..Packets, NEW j \in 1..Frags(q), base[q] \in Nat, Placed(base[q], q, j)
       PROVE  Placed(base[q], q, j)'
  BY <1>1, <1>4, <1>10, PlacedStays
<1>11. \A q \in 1..(m - 1) : \A j \in 1..Frags(q)' : Placed(base[q], q, j)'
  <2>1. \A q \in 1..(m - 1) : q \in 1..Packets /\ base[q] \in Nat
    <3>1. \A q \in 1..(m - 1) : q \in 1..(m + 1) /\ q \in 1..Packets
      BY <1>2, Constants
    <3>. QED
      BY <1>5, <3>1
  <2>2. \A q \in 1..(m - 1) : \A j \in 1..Frags(q) : Placed(base[q], q, j)
    BY <1>0 DEF Stream
  <2>. QED
    BY <1>7, <1>10, <2>1, <2>2
<1>12. \A j \in 1..i : Placed(base[m], m, j)'
  <2>1. ASSUME NEW j \in 1..i PROVE Placed(base[m], m, j)'
    <3>1. CASE j = i
      BY <1>8, <3>1
    <3>2. CASE j # i
      <4>1. j \in 1..(i - 1) /\ j \in 1..Frags(m)
        BY <1>2, <1>3, <3>2
      <4>2. Placed(base[m], m, j)
        BY <1>0, <1>6, <4>1 DEF Stream
      <4>. QED
        BY <1>2, <1>5, <1>10, <4>1, <4>2
    <3>. QED
      BY <3>1, <3>2
  <2>. QED
    BY <2>1
<1>13. Len(pushed') = base[m] + (Place(i) + d)
  <2>1. Len(pushed') = Len(pushed) + Len(t)
    BY <1>4, Added
  <2>. QED
    BY <1>3, <1>4, <1>5, <1>6, <2>1
<1>14. writer.at # "threw" /\ reader'.at # "threw" /\ writer.sent = 0
  BY <1>1 DEF Whole
<1>15. ASSUME writer'.msg = m PROVE Reading(base)'
  <2>1. writer'.msg \in Nat /\ writer'.msg >= writer.msg /\ reader' = reader
    BY <1>0, <1>1, <1>2, <1>15
  <2>2. \A q \in 1..(writer.msg + 1) : base[q] = base[q]
    OBVIOUS
  <2>3. Types /\ Reading(base) /\ base \in [1..(writer.msg + 1) -> Nat]
    BY <1>0, <1>5
  <2>. QED
    BY ONLY <1>4, <2>1, <2>2, <2>3, ReadingStays
<1>16. CASE Split(Len(writer.part)) /\ i < Count(Len(writer.part))
  <2>1. /\ writer'.at = "partial" /\ writer'.msg = m /\ writer'.sent = 0 /\ writer'.frag = i + 1
        /\ writer'.byteSent = Place(i) + d /\ writer'.part = writer.part
    BY <1>0, <1>1, <1>2, <1>4, <1>14, <1>16 DEF Types, WriterOK
  <2>2. Place(i) + d = Place(i + 1)
    BY <1>2, <1>3, <1>16
  <2>3. SentFrags' = i /\ Progress' = Place(i + 1)
    BY <1>3, <2>1 DEF SentFrags, Progress
  <2>4. Whole'
    BY <1>14, <2>1, <2>2 DEF Whole, Complete
  <2>5. Stream(base)'
    BY <1>5, <1>9, <1>11, <1>12, <1>13, <2>1, <2>2, <2>3 DEF Stream
  <2>6. writer'.msg = m
    BY <2>1
  <2>. QED
    BY <1>15, <2>4, <2>5, <2>6
<1>17. CASE ~(Split(Len(writer.part)) /\ i < Count(Len(writer.part)))
  <2>1. i = Frags(m)
    <3>1. ~(lengths[m] > MinPacket) => Frags(m) = 1
      BY DEF Frags
    <3>. QED
      BY <1>2, <1>3, <1>17, <3>1
  <2>2. EncLen(m) = Place(i) + d
    BY <1>0, <2>1 DEF EncLen
  <2>3. writer'.at = "loop" /\ writer'.msg = m /\ writer'.sent = EncLen(m)
    BY <1>0, <1>1, <1>2, <1>3, <1>4, <1>14, <1>17, <2>2 DEF Types, WriterOK
  <2>4. Complete' /\ SentFrags' = i /\ Progress' = EncLen(m)
    BY <1>3, <1>7, <2>1, <2>3 DEF SentFrags, Progress, Complete
  <2>5. Whole'
    BY <1>1, <1>2, <1>3, <1>14, <2>3 DEF Whole
  <2>6. Stream(base)'
    BY <1>5, <1>9, <1>11, <1>12, <1>13, <2>2, <2>3, <2>4 DEF Stream
  <2>. QED
    BY <1>15, <2>3, <2>5, <2>6
<1>. QED
  BY <1>16, <1>17

(* No more of a packet is in the stream than its fragments hold. *)
LEMMA ProgressBound ==
  ASSUME Types, Whole, writer.msg <= Packets, lengths[writer.msg] < RawLen
  PROVE  Progress \in Nat /\ Progress <= EncLen(writer.msg)
<1>0. PICK m, i : m = writer.msg /\ i = writer.frag
  OBVIOUS
<1>1. m \in 1..Packets
  BY <1>0, Constants DEF Types, WriterOK
<1>2. EncLen(m) \in Nat /\ \A j \in 1..Frags(m) :
        FragLen(m, j) \in Nat \ {0} /\ Place(j) \in Nat /\ Place(j) + FragLen(m, j) <= EncLen(m)
  BY <1>1, FragmentFacts DEF Types
<1>3. CASE writer.at = "partial"
  <2>1. i \in 1..Frags(m)
    BY <1>0, <1>3, SendsFragment
  <2>2. Progress = Place(i)
    BY <1>0, <1>3 DEF Progress
  <2>3. FragLen(m, i) \in Nat \ {0} /\ Place(i) \in Nat /\ Place(i) + FragLen(m, i) <= EncLen(m)
    BY <1>2, <2>1
  <2>. QED
    BY <1>0, <1>2, <2>2, <2>3
<1>4. CASE writer.at # "partial"
  BY <1>0, <1>2, <1>4 DEF Progress
<1>. QED
  BY <1>3, <1>4

(* The reader does not touch the stream. *)
LEMMA StreamStays ==
  ASSUME NEW base, Stream(base), UNCHANGED <<lengths, pushed, writer>>
  PROVE  Stream(base)'
<1>1. \A q : Frags(q)' = Frags(q) /\ EncLen(q)' = EncLen(q)
  BY DEF Frags, EncLen, FragLen
<1>2. \A from, q, j : Placed(from, q, j)' <=> Placed(from, q, j)
  BY DEF Placed, FragLen, FragByte, Frags
<1>3. SentFrags' = SentFrags /\ Progress' = Progress
  BY <1>1 DEF SentFrags, Progress, Complete
<1>. QED
  BY <1>1, <1>2, <1>3 DEF Stream

(* What recv() takes off the wire, the rest of the wire follows. *)
LEMMA WireFollows ==
  ASSUME Types, NEW from \in Nat, NEW n \in 0..Len(wire),
         Len(pushed) = from + Len(wire), \A k \in 1..Len(wire) : wire[k] = pushed[from + k],
         wire' = SubSeq(wire, n + 1, Len(wire)), pushed' = pushed
  PROVE  /\ Len(pushed') = (from + n) + Len(wire')
         /\ \A k \in 1..Len(wire') : wire'[k] = pushed'[(from + n) + k]
<1>1. /\ wire \in Seq(Cell) /\ Len(wire) \in Nat /\ Len(wire') = Len(wire) - n
      /\ \A k \in 1..(Len(wire) - n) : wire'[k] = wire[n + k]
  BY Behind DEF Types
<1>2. ASSUME NEW k \in 1..Len(wire') PROVE wire'[k] = pushed'[(from + n) + k]
  <2>1. n + k \in 1..Len(wire) /\ from + (n + k) = (from + n) + k
    BY <1>1
  <2>2. wire[n + k] = pushed[from + (n + k)]
    BY <2>1
  <2>. QED
    BY <1>1, <2>1, <2>2
<1>3. Len(pushed') = (from + n) + Len(wire')
  <2>1. Len(pushed') = from + Len(wire)
    OBVIOUS
  <2>2. n + Len(wire') = Len(wire) /\ Len(wire') \in Nat /\ n \in Nat /\ from \in Nat
    BY <1>1
  <2>. QED
    BY ONLY <2>1, <2>2
<1>4. \A k \in 1..Len(wire') : wire'[k] = pushed'[(from + n) + k]
  BY <1>2
<1>. QED
  BY ONLY <1>3, <1>4

(* The header that is taken is that of a packet the writer has begun. *)
LEMMA ReadHeaderArrives ==
  ASSUME Types, Whole, NEW base, Stream(base), Reading(base), ReadHeader,
         \A q \in 1..Packets : lengths[q] < RawLen
  PROVE  Reading(base)' /\ reader'.at # "threw"
<1>0. PICK m, w, p : m = reader.msg /\ w = writer.msg /\ p = Passed(base)
  OBVIOUS
<1>1. /\ reader.at = "header" /\ m <= Packets /\ Len(wire) >= Header /\ UNCHANGED <<pushed, writer>>
      /\ wire' = SubSeq(wire, Header + 1, Len(wire)) /\ w \in 1..(Packets + 1)
      /\ base \in [1..(w + 1) -> Nat]
  BY <1>0 DEF ReadHeader, Types, WriterOK, Stream
<1>2. /\ reader'.at = "read" /\ reader'.msg = m /\ reader'.i = 1 /\ reader'.index = 0
  BY <1>0 DEF ReadHeader, Types, ReaderOK
<1>3. m \in 1..(w + 1) /\ base[m] \in Nat /\ p = base[m] /\ p \in Nat
  BY <1>0, <1>1, PassedIs DEF Passed
<1>4. /\ Len(wire) \in Nat /\ Len(pushed) = p + Len(wire)
      /\ \A k \in 1..Len(wire) : wire[k] = pushed[p + k]
  BY <1>0 DEF Types, Reading
<1>5. m <= w
  <2>. SUFFICES ASSUME m = w + 1 PROVE FALSE
    BY <1>1, <1>3
  <2>1. w <= Packets /\ w \in 1..Packets /\ w \in 1..(w + 1) /\ w \in 1..w
    BY <1>1, Constants
  <2>2. base[w + 1] = base[w] + EncLen(w) /\ Len(pushed) = base[w] + Progress
    BY <1>0, <2>1 DEF Stream
  <2>3. Progress \in Nat /\ Progress <= EncLen(w)
    BY <1>0, <2>1, ProgressBound
  <2>4. EncLen(w) \in Nat /\ base[w] \in Nat
    BY <1>1, <2>1, FragmentFacts DEF Types
  <2>. QED
    BY <1>1, <1>3, <1>4, <2>2, <2>3, <2>4, Constants
<1>6. /\ Len(pushed') = (p + Header) + Len(wire')
      /\ \A k \in 1..Len(wire') : wire'[k] = pushed'[(p + Header) + k]
  <2>1. Header \in 0..Len(wire)
    BY <1>1, <1>4, Constants
  <2>. QED
    BY <1>1, <1>3, <1>4, <2>1, WireFollows
<1>7. Skip' = Header /\ Cut(1) = 0 /\ Place(1) = 0
  BY <1>2, Constants DEF Skip, Cut, Place
<1>8. Passed(base)' = p + Header
  BY <1>2, <1>3, <1>7, Constants DEF Passed
<1>9. writer'.msg = w /\ w \in Nat
  BY <1>0, <1>1
<1>10. /\ reader'.msg <= writer'.msg + 1 /\ reader'.msg <= writer'.msg
       /\ reader'.index + Header = Cut(reader'.i) + Skip'
       /\ \A k \in 1..reader'.index : reader'.buf[k] = <<reader'.msg, Header + k>>
  BY <1>2, <1>3, <1>5, <1>7, <1>9, Constants
<1>. QED
  BY <1>2, <1>6, <1>8, <1>10 DEF Reading

(* What the reader asks for when it is all there: the rest of its fragment. *)
LEMMA ReadsFragment ==
  ASSUME Types, Whole, NEW base, Stream(base), Reading(base), reader.at = "read",
         Wanted <= Len(wire), \A q \in 1..Packets : lengths[q] < RawLen
  PROVE  LET m == reader.msg
             i == reader.i
         IN /\ m \in 1..Packets /\ i \in 1..Frags(m) /\ base[m] \in Nat /\ base[m + 1] \in Nat
            /\ base[m + 1] = base[m] + EncLen(m)
            /\ Wanted + Skip = FragLen(m, i) /\ Skip \in Nat
            /\ \A j \in 1..Wanted : wire[j] = FragByte(m, i, Skip + j)
<1>0. PICK m, i, w, p, s, n :
        /\ m = reader.msg /\ i = reader.i /\ w = writer.msg /\ p = Passed(base) /\ s = Skip
        /\ n = lengths[m]
  OBVIOUS
<1>1. m \in 1..Packets /\ n \in Nat \ {0} /\ Wanted \in Nat \ {0} /\ m <= w
  BY <1>0, WantedFacts DEF Reading
<1>2. w \in Nat /\ base \in [1..(w + 1) -> Nat] /\ s \in Nat
  BY <1>0, Constants DEF Stream, Types, WriterOK, Skip
<1>3. /\ m \in 1..w /\ m \in 1..(w + 1) /\ m + 1 \in 1..(w + 1) /\ base[m] \in Nat /\ base[m + 1] \in Nat
      /\ base[m + 1] = base[m] + EncLen(m)
  <2>1. m \in 1..w /\ m \in 1..(w + 1) /\ m + 1 \in 1..(w + 1) /\ m <= Packets
    BY <1>1, <1>2, Constants
  <2>. QED
    BY <1>0, <1>2, <2>1 DEF Stream
<1>4. i \in 1..Frags(m) /\ Wanted + s = FragLen(m, i)
  <2>1. CASE Long
    <3>1. /\ Last = Count(n) /\ Last \in Nat /\ Last > 1 /\ i \in 1..Last
          /\ Wanted = (IF i = 1 THEN Payload - Header ELSE Brings(n, i)) + Mark
      BY <1>0, <2>1, WantedFacts
    <3>2. Frags(m) = Last /\ FragLen(m, i) = Brings(n, i) + Mark
      BY <1>0, <2>1, <3>1 DEF Frags, FragLen, Long
    <3>3. i = 1 => Brings(n, i) = Payload
      BY <3>1 DEF Brings
    <3>4. Brings(n, i) \in Nat
      BY <1>1, <3>1, Bringing, Constants
    <3>5. s = IF i = 1 THEN Header ELSE 0
      BY <1>0 DEF Skip
    <3>. QED
      BY <3>1, <3>2, <3>3, <3>4, <3>5, Constants
  <2>2. CASE ~Long
    <3>1. i = 1 /\ Wanted = n - Header
      BY <1>0, <2>2, WantedFacts DEF Types, ReaderOK
    <3>2. Frags(m) = 1 /\ FragLen(m, i) = n
      BY <1>0, <2>2 DEF Frags, FragLen, Long
    <3>3. s = Header
      BY <1>0, <3>1 DEF Skip
    <3>. QED
      BY <1>1, <3>1, <3>2, <3>3, Constants
  <2>. QED
    BY <2>1, <2>2
<1>5. /\ Frags(m) \in Nat \ {0} /\ EncLen(m) \in Nat
      /\ FragLen(m, i) \in Nat \ {0} /\ Place(i) \in Nat /\ i \in Nat \ {0}
  BY <1>1, <1>4, FragmentFacts DEF Types
<1>6. p = base[m] + (Place(i) + s) /\ p \in Nat
  BY <1>0, <1>2, <1>3, <1>5 DEF Passed
<1>7. /\ Len(wire) \in Nat /\ Len(pushed) = p + Len(wire)
      /\ \A k \in 1..Len(wire) : wire[k] = pushed[p + k]
  BY <1>0 DEF Types, Reading
<1>8. (base[m] + Place(i)) + FragLen(m, i) <= Len(pushed)
  <2>. DEFINE d == FragLen(m, i)
              at == Place(i)
              b == base[m]
              l == Len(wire)
              x == Wanted
  <2>1. /\ d \in Nat /\ at \in Nat /\ b \in Nat /\ l \in Nat /\ x \in Nat /\ s \in Nat /\ x <= l /\ x + s = d
        /\ Len(pushed) = p + l /\ p = b + (at + s)
    BY <1>1, <1>2, <1>3, <1>4, <1>5, <1>6, <1>7
  <2>. HIDE DEF d, at, b, l, x
  <2>2. (b + at) + d <= Len(pushed)
    BY ONLY <2>1
  <2>. QED
    BY <2>2 DEF d, at, b
<1>9. Placed(base[m], m, i)
  <2>1. CASE m # w
    <3>1. m \in 1..(w - 1)
      BY <1>2, <1>3, <2>1
    <3>. QED
      BY <1>0, <1>4, <3>1 DEF Stream
  <2>2. CASE m = w
    <3>1. Len(pushed) = base[m] + Progress
      BY <1>0, <2>2 DEF Stream
    <3>2. i \in 1..SentFrags
      <4>1. CASE writer.at = "partial"
        <5>0. PICK f : f = writer.frag
          OBVIOUS
        <5>1. f \in 1..Frags(m)
          BY <1>0, <1>1, <2>2, <4>1, <5>0, SendsFragment
        <5>2. Progress = Place(f) /\ SentFrags = f - 1
          BY <4>1, <5>0 DEF Progress, SentFrags
        <5>3. Place(f) \in Nat /\ f \in Nat \ {0}
          BY <1>1, <1>5, <5>1, FragmentFacts DEF Types
        <5>4. Place(f) >= Place(i) + FragLen(m, i)
          BY <1>3, <1>5, <1>8, <3>1, <5>2, <5>3
        <5>5. i < f
          <6>1. f < i => Place(f + 1) <= Place(i) /\ Place(f + 1) = Place(f) + MaxPatch
            BY <1>5, <5>3, Starting
          <6>. QED
            BY <1>5, <5>3, <5>4, <6>1, Constants
        <5>. QED
          BY <1>5, <5>2, <5>3, <5>5
      <4>2. CASE Complete
        <5>1. SentFrags = Frags(m)
          BY <1>0, <2>2, <4>2 DEF SentFrags, Complete
        <5>. QED
          BY <1>4, <5>1
      <4>3. CASE writer.at # "partial" /\ ~Complete
        <5>1. Progress = 0
          BY <4>3 DEF Progress
        <5>. QED
          BY <1>3, <1>5, <1>8, <3>1, <5>1
      <4>. QED
        BY <4>1, <4>2, <4>3
    <3>. QED
      BY <1>0, <2>2, <3>2 DEF Stream
  <2>. QED
    BY <2>1, <2>2
<1>10. ASSUME NEW j \in 1..Wanted PROVE wire[j] = FragByte(m, i, s + j)
  <2>1. j \in 1..Len(wire) /\ s + j \in 1..FragLen(m, i)
        /\ (base[m] + Place(i)) + (s + j) = p + j
    <3>. DEFINE d == FragLen(m, i)
                at == Place(i)
                b == base[m]
                l == Len(wire)
                x == Wanted
    <3>1. /\ d \in Nat /\ at \in Nat /\ b \in Nat /\ l \in Nat /\ x \in Nat /\ s \in Nat /\ x <= l
          /\ x + s = d /\ p = b + (at + s) /\ j \in 1..x
      BY <1>1, <1>2, <1>3, <1>4, <1>5, <1>6, <1>7
    <3>. HIDE DEF d, at, b, l, x
    <3>2. j \in 1..l /\ s + j \in 1..d /\ (b + at) + (s + j) = p + j
      BY ONLY <3>1
    <3>. QED
      BY <3>2 DEF d, at, b, l
  <2>2. wire[j] = pushed[p + j]
    BY <1>7, <2>1
  <2>3. pushed[(base[m] + Place(i)) + (s + j)] = FragByte(m, i, s + j)
    BY <1>9, <2>1 DEF Placed
  <2>. QED
    BY <2>1, <2>2, <2>3
<1>. QED
  BY <1>0, <1>1, <1>2, <1>3, <1>4, <1>10

(* What the marks let through of it is what it brings of its packet, and buf
   then holds what the fragments up to this one brought. *)
LEMMA GainsFragment ==
  ASSUME Types, Whole, NEW base, Stream(base), Reading(base), reader.at = "read",
         Wanted <= Len(wire), \A q \in 1..Packets : lengths[q] < RawLen
  PROVE  LET m == reader.msg
             n == lengths[m]
         IN /\ Index(Wanted) \in Nat /\ Index(Wanted) <= n
            /\ Index(Wanted) + Header = Cut(reader.i) + (IF Long THEN Brings(n, reader.i) ELSE n)
            /\ \A q \in 1..Index(Wanted) : Kept(Wanted)[q] = <<m, Header + q>>
<1>0. PICK m, i, s, n, b, k, x :
        /\ m = reader.msg /\ i = reader.i /\ s = Skip /\ n = lengths[m] /\ k = Wanted
        /\ x = reader.index /\ b = (IF Long THEN Brings(n, i) ELSE n)
  OBVIOUS
<1>1. /\ m \in 1..Packets /\ i \in 1..Frags(m) /\ k + s = FragLen(m, i) /\ s \in Nat
      /\ \A j \in 1..k : wire[j] = FragByte(m, i, s + j)
  BY <1>0, ReadsFragment
<1>2. k \in Nat \ {0} /\ n \in Nat \ {0} /\ k \in 1..Wanted /\ k <= Len(wire)
  BY <1>0, WantedFacts
<1>3. /\ Heard(k) \in Seq(Cell) /\ Len(Heard(k)) = k /\ \A j \in 1..k : Heard(k)[j] = wire[j]
      /\ Laid(k) \in Seq(Cell) /\ Len(Laid(k)) = MaxPatch
      /\ \A j \in 1..MaxPatch : j <= k => Laid(k)[j] = wire[j]
      /\ Gained(k) \in Seq(Cell) /\ Index(k) \in Nat /\ Index(k) <= n
  BY <1>0, <1>2, PieceFacts
<1>4. /\ x \in Nat /\ x + Header = Cut(i) + s /\ \A q \in 1..x : reader.buf[q] = <<m, Header + q>>
      /\ reader.buf \in Seq(Cell) /\ Len(reader.buf) = n
  BY <1>0 DEF Types, ReaderOK, Reading
<1>5. i \in Nat \ {0} /\ Cut(i) \in Nat
  <2>1. i \in Nat \ {0}
    <3>1. Frags(m) \in Nat
      BY <1>1, FragmentFacts DEF Types
    <3>. QED
      BY <1>1, <3>1
  <2>. QED
    BY <2>1, Starting
<1>6. /\ Len(Gained(k)) \in Nat /\ Len(Gained(k)) + s = b
      /\ \A q \in 1..Len(Gained(k)) : Gained(k)[q] = <<m, Cut(i) + (s + q)>>
  <2>1. CASE Long
    <3>1. /\ Last = Count(n) /\ Last \in Nat /\ Last > 1 /\ i \in 1..Last
          /\ k <= MaxPatch /\ k - Mark \in Nat
      BY <1>0, <2>1, WantedFacts
    <3>2. /\ b = Brings(n, i) /\ Frags(m) = Last /\ FragLen(m, i) = b + Mark /\ n > MinPacket
      BY <1>0, <2>1, <3>1 DEF Frags, FragLen, Long
    <3>3. b \in Nat
      BY <1>2, <3>1, <3>2, Bringing, Constants
    <3>4. PICK e \in Nat : e = k - Mark
      BY <3>1
    <3>5. e + Mark = k /\ e + s = b /\ e <= MaxPatch /\ e + Mark <= MaxPatch
      <4>1. k + s = b + Mark /\ k \in Nat /\ s \in Nat /\ b \in Nat /\ Mark \in Nat /\ MaxPatch \in Nat /\ k <= MaxPatch
        BY <1>1, <1>2, <3>1, <3>2, <3>3, Constants
      <4>. QED
        BY ONLY <3>4, <4>1
    <3>6. ASSUME NEW q \in 1..Mark
          PROVE  Laid(k)[e + q] = <<IF i = Last THEN -1 ELSE 0, q>>
      <4>1. /\ e + q \in 1..k /\ e + q \in 1..MaxPatch /\ e + q <= k
            /\ s + (e + q) > b /\ (s + (e + q)) - b = q
        BY <1>1, <3>1, <3>3, <3>5, Constants
      <4>2. Laid(k)[e + q] = FragByte(m, i, s + (e + q))
        BY <1>1, <1>3, <4>1
      <4>3. FragByte(m, i, s + (e + q)) = <<IF i = Last THEN -1 ELSE 0, (s + (e + q)) - b>>
        BY <1>0, <3>2, <4>1 DEF FragByte
      <4>. QED
        BY <4>1, <4>2, <4>3
    <3>7. /\ SubSeq(Laid(k), e + 1, e + Mark) \in Seq(Cell)
          /\ Len(SubSeq(Laid(k), e + 1, e + Mark)) = Mark
          /\ \A q \in 1..Mark : SubSeq(Laid(k), e + 1, e + Mark)[q] = Laid(k)[e + q]
      BY <1>3, <3>5, Constants, Slice
    <3>. DEFINE mark == SubSeq(Laid(k), e + 1, e + Mark)
    <3>8. mark = IF i = Last THEN EndMark ELSE MiddleMark
      <4>. HIDE DEF mark
      <4>0. /\ mark \in Seq(Cell) /\ Len(mark) = Mark
            /\ \A q \in 1..Mark : mark[q] = <<IF i = Last THEN -1 ELSE 0, q>>
        BY <3>6, <3>7 DEF mark
      <4>1. CASE i = Last
        <5>1. \A q \in 1..Mark : mark[q] = EndMark[q]
          BY <4>0, <4>1, MarkFacts
        <5>. QED
          BY <4>0, <4>1, <5>1, MarkFacts, SeqEqual
      <4>2. CASE i # Last
        <5>1. \A q \in 1..Mark : mark[q] = MiddleMark[q]
          BY <4>0, <4>2, MarkFacts
        <5>. QED
          BY <4>0, <4>2, <5>1, MarkFacts, SeqEqual
      <4>. QED
        BY <4>1, <4>2
    <3>9. Gained(k) = SubSeq(Laid(k), 1, e)
      <4>1. Taken(Laid(k)) = SubSeq(Laid(k), 1, e)
        <5>1. SubSeq(Laid(k), Wanted - Mark + 1, Wanted) = mark
          BY <1>0, <3>4, <3>5, Constants
        <5>2. i = 1 => i # Last
          BY <3>1
        <5>3. Wanted - Mark = e
          BY <1>0, <3>4
        <5>. HIDE DEF mark
        <5>. QED
          BY <1>0, <3>1, <3>8, <5>1, <5>2, <5>3 DEF Taken
      <4>. QED
        BY <2>1, <4>1 DEF Gained
    <3>10. Len(Gained(k)) = e /\ \A q \in 1..e : Gained(k)[q] = Laid(k)[q]
      <4>1. e \in 0..Len(Laid(k))
        BY <1>3, <3>5, Constants
      <4>. QED
        BY <1>3, <3>9, <4>1, Front
    <3>11. ASSUME NEW q \in 1..e PROVE Gained(k)[q] = <<m, Cut(i) + (s + q)>>
      <4>1. q \in 1..k /\ q \in 1..MaxPatch /\ q <= k /\ ~(s + q > b)
        BY <1>1, <1>2, <3>1, <3>3, <3>5, Constants
      <4>2. Laid(k)[q] = FragByte(m, i, s + q)
        BY <1>1, <1>3, <4>1
      <4>. QED
        BY <1>0, <3>2, <3>10, <4>1, <4>2 DEF FragByte
    <3>. QED
      BY <3>5, <3>10, <3>11
  <2>2. CASE ~Long
    <3>1. b = n /\ FragLen(m, i) = n /\ Gained(k) = Heard(k)
      BY <1>0, <2>2 DEF FragLen, Long, Gained
    <3>2. \A q : FragByte(m, i, q) = <<m, Cut(i) + q>>
      BY <1>0, <2>2 DEF FragByte, Long
    <3>. QED
      BY <1>1, <1>2, <1>3, <3>1, <3>2
  <2>. QED
    BY <2>1, <2>2
<1>7. Index(k) = x + Len(Gained(k))
  BY <1>0 DEF Index
<1>8. Index(k) + Header = Cut(i) + b
  <2>. DEFINE g == Len(Gained(k))
              c == Cut(i)
  <2>1. g \in Nat /\ c \in Nat /\ g + s = b /\ Index(k) = x + g /\ x \in Nat /\ s \in Nat /\ b \in Int /\ x + Header = c + s /\ Header \in Nat
    BY <1>1, <1>4, <1>5, <1>6, <1>7, Constants
  <2>. HIDE DEF g, c
  <2>2. Index(k) + Header = c + b
    BY ONLY <2>1
  <2>. QED
    BY <2>2 DEF c
<1>9. ASSUME NEW q \in 1..Index(k) PROVE Kept(k)[q] = <<m, Header + q>>
  <2>1. x + 1 \in Nat \ {0} /\ q \in 1..n
    BY <1>2, <1>3, <1>4
  <2>2. Kept(k)[q] = IF q \in (x + 1)..(x + 1 + Len(Gained(k)) - 1) THEN Gained(k)[q - (x + 1) + 1]
                     ELSE reader.buf[q]
    <3>1. Kept(k) = Over(reader.buf, x + 1, Gained(k))
      BY <1>0 DEF Kept
    <3>2. reader.buf \in Seq(Cell) /\ Gained(k) \in Seq(Cell) /\ q \in 1..Len(reader.buf)
      BY <1>3, <1>4, <2>1
    <3>3. \A y \in 1..Len(reader.buf) :
            Kept(k)[y] = IF y \in (x + 1)..(x + 1 + Len(Gained(k)) - 1) THEN Gained(k)[y - (x + 1) + 1]
                         ELSE reader.buf[y]
      <4>1. PICK at \in Nat \ {0} : at = x + 1
        BY <2>1
      <4>2. \A y \in 1..Len(reader.buf) :
              Over(reader.buf, at, Gained(k))[y] =
                IF y \in at..(at + Len(Gained(k)) - 1) THEN Gained(k)[y - at + 1] ELSE reader.buf[y]
        BY ONLY <3>2, OverFacts
      <4>. QED
        BY ONLY <3>1, <4>1, <4>2
    <3>. QED
      BY ONLY <3>2, <3>3
  <2>3. CASE q <= x
    <3>1. q \in 1..x /\ ~(q \in (x + 1)..(x + 1 + Len(Gained(k)) - 1))
      BY <1>4, <1>6, <2>1, <2>3
    <3>. QED
      BY <1>4, <2>2, <3>1
  <2>4. CASE ~(q <= x)
    <3>1. /\ q \in (x + 1)..(x + 1 + Len(Gained(k)) - 1) /\ q - (x + 1) + 1 = q - x
          /\ q - x \in 1..Len(Gained(k)) /\ Cut(i) + (s + (q - x)) = Header + q
      <4>. DEFINE g == Len(Gained(k))
                  c == Cut(i)
                  y == Index(k)
      <4>1. /\ g \in Nat /\ c \in Nat /\ x \in Nat /\ s \in Nat /\ Header \in Nat /\ x + Header = c + s
            /\ y = x + g /\ q \in 1..y /\ ~(q <= x)
        BY <1>1, <1>4, <1>5, <1>6, <1>7, <2>4, Constants
      <4>. HIDE DEF g, c, y
      <4>2. /\ q \in (x + 1)..(x + 1 + g - 1) /\ q - (x + 1) + 1 = q - x
            /\ q - x \in 1..g /\ c + (s + (q - x)) = Header + q
        BY ONLY <4>1
      <4>. QED
        BY <4>2 DEF g, c
    <3>. QED
      BY <1>6, <2>2, <3>1
  <2>. QED
    BY <2>3, <2>4
<1>. QED
  BY <1>0, <1>3, <1>8, <1>9

(* A whole recv() takes one fragment; with the last one read() has the packet. *)
LEMMA RecvArrives ==
  ASSUME Types, Whole, RoundTrip, ~faults, NEW base, Stream(base), Reading(base), Recv,
         \A q \in 1..Packets : lengths[q] < RawLen
  PROVE  RoundTrip' /\ Reading(base)' /\ reader'.at # "threw"
<1>0. PICK m, i, s, n, b, k, p, y, w :
        /\ m = reader.msg /\ i = reader.i /\ s = Skip /\ n = lengths[m] /\ k = Wanted
        /\ b = (IF Long THEN Brings(n, i) ELSE n) /\ p = Passed(base) /\ y = Index(k)
        /\ w = writer.msg
  OBVIOUS
<1>1. /\ reader.at = "read" /\ UNCHANGED <<setting, pushed, writer>> /\ lengths' = lengths
      /\ k \in Nat \ {0} /\ n \in Nat \ {0} /\ k \in 1..Wanted /\ k <= Len(wire)
      /\ wire' = SubSeq(wire, k + 1, Len(wire))
      /\ IF Finished
         THEN /\ received' = Append(received, SubSeq(Kept(k), 1, y))
              /\ reader' = [reader EXCEPT !.at = "header", !.msg = @ + 1, !.index = y,
                              !.buf = <<>>, !.precv = <<>>]
         ELSE /\ reader' = [reader EXCEPT !.i = @ + 1, !.index = y, !.buf = Kept(k),
                              !.precv = Laid(k)]
              /\ UNCHANGED received
  BY <1>0, RecvFacts, WantedFacts DEF setting
<1>2. /\ m \in 1..Packets /\ i \in 1..Frags(m) /\ base[m] \in Nat /\ base[m + 1] \in Nat
      /\ base[m + 1] = base[m] + EncLen(m) /\ k + s = FragLen(m, i) /\ s \in Nat
  BY <1>0, <1>1, ReadsFragment
<1>3. /\ y \in Nat /\ y <= n /\ y + Header = Cut(i) + b
      /\ \A q \in 1..y : Kept(k)[q] = <<m, Header + q>>
  BY <1>0, <1>1, GainsFragment
<1>4. Kept(k) \in Seq(Cell) /\ Len(Kept(k)) = n
  BY <1>0, <1>1, PieceFacts
<1>5. /\ i \in Nat \ {0} /\ Cut(i) \in Nat /\ Place(i) \in Nat /\ FragLen(m, i) \in Nat
      /\ Frags(m) \in Nat /\ (i < Frags(m) => Place(i) + FragLen(m, i) = Place(i + 1))
  <2>1. Frags(m) \in Nat \ {0} /\ FragLen(m, i) \in Nat
        /\ (i < Frags(m) => Place(i) + FragLen(m, i) = Place(i + 1))
    BY <1>2, FragmentFacts DEF Types
  <2>2. i \in Nat \ {0}
    BY <1>2, <2>1
  <2>. QED
    BY <2>1, <2>2, Starting
<1>6. p = base[m] + (Place(i) + s) /\ p \in Nat
  BY <1>0, <1>1, <1>2, <1>5 DEF Passed
<1>7. /\ Len(pushed') = (p + k) + Len(wire')
      /\ \A q \in 1..Len(wire') : wire'[q] = pushed'[(p + k) + q]
  <2>1. k \in 0..Len(wire) /\ pushed' = pushed
    BY <1>1 DEF Types
  <2>2. Len(pushed) = p + Len(wire) /\ \A q \in 1..Len(wire) : wire[q] = pushed[p + q]
    BY <1>0 DEF Reading
  <2>. QED
    BY <1>1, <1>6, <2>1, <2>2, WireFollows
<1>8. p + k = base[m] + (Place(i) + FragLen(m, i))
  <2>. DEFINE a == Place(i)
              d == FragLen(m, i)
              c == base[m]
  <2>1. a \in Nat /\ d \in Nat /\ c \in Nat /\ s \in Nat /\ k \in Nat /\ k + s = d /\ p = c + (a + s)
    BY <1>1, <1>2, <1>5, <1>6
  <2>. HIDE DEF a, d, c
  <2>2. p + k = c + (a + d)
    BY ONLY <2>1
  <2>. QED
    BY <2>2 DEF a, d, c
<1>9. m <= w /\ w \in Nat /\ writer'.msg = w
  BY <1>0, <1>1, Constants DEF Reading, Types, WriterOK
<1>10. Finished <=> i = Frags(m)
  <2>1. CASE Long
    BY <1>0, <2>1 DEF Finished, Frags, Last, Long
  <2>2. CASE ~Long
    <3>1. Frags(m) = 1
      BY <1>0, <2>2 DEF Frags, Long
    <3>. QED
      BY <1>2, <2>2, <3>1 DEF Finished
  <2>. QED
    BY <2>1, <2>2
<1>11. CASE Finished
  <2>1. reader'.at = "header" /\ reader'.msg = m + 1
    BY <1>0, <1>1, <1>11 DEF Types, ReaderOK
  <2>2. Cut(i) + b = n
    <3>1. CASE Long
      <4>1. i = Count(n) /\ i \in 1..Count(n) /\ b = Brings(n, i)
        BY <1>0, <1>1, <1>11, <3>1, Counting DEF Finished, Last
      <4>. QED
        BY <1>1, <4>1, Bringing
    <3>2. CASE ~Long
      <4>1. i = 1 /\ b = n
        BY <1>0, <1>1, <3>2 DEF Types, ReaderOK
      <4>. QED
        BY <1>1, <4>1, Starting
    <3>. QED
      BY <3>1, <3>2
  <2>3. y + Header = n
    BY <1>3, <2>2
  <2>4. Passed(base)' = p + k
    <3>1. EncLen(m) = Place(i) + FragLen(m, i)
      BY <1>10, <1>11 DEF EncLen
    <3>2. Passed(base)' = base[m + 1]
      <4>1. Passed(base)' = base[m + 1] + 0
        BY <2>1 DEF Passed
      <4>. QED
        BY <1>2, <4>1
    <3>. QED
      BY <1>2, <1>8, <3>1, <3>2
  <2>5. SubSeq(Kept(k), 1, y) = SubSeq(Packet(m), Header + 1, n)
    <3>1. y \in 0..Len(Kept(k))
      BY <1>1, <1>3, <1>4
    <3>2. /\ SubSeq(Kept(k), 1, y) \in Seq(Cell) /\ Len(SubSeq(Kept(k), 1, y)) = y
          /\ \A q \in 1..y : SubSeq(Kept(k), 1, y)[q] = Kept(k)[q]
      BY ONLY <1>4, <3>1, Front
    <3>3. Packet(m) \in Seq(Cell) /\ Len(Packet(m)) = n /\ \A q \in 1..n : Packet(m)[q] = <<m, q>>
      BY <1>0, <1>2, PacketFacts DEF Types
    <3>4. Header \in 0..Len(Packet(m)) /\ n - Header = y
      BY <1>1, <1>3, <2>3, <3>3, Constants
    <3>5. /\ SubSeq(Packet(m), Header + 1, Len(Packet(m))) \in Seq(Cell)
          /\ Len(SubSeq(Packet(m), Header + 1, Len(Packet(m)))) = Len(Packet(m)) - Header
          /\ \A q \in 1..(Len(Packet(m)) - Header) :
               SubSeq(Packet(m), Header + 1, Len(Packet(m)))[q] = Packet(m)[Header + q]
      BY ONLY <3>3, <3>4, Behind
    <3>6. /\ SubSeq(Packet(m), Header + 1, n) \in Seq(Cell)
          /\ Len(SubSeq(Packet(m), Header + 1, n)) = y
          /\ \A q \in 1..y : SubSeq(Packet(m), Header + 1, n)[q] = Packet(m)[Header + q]
      BY ONLY <3>3, <3>4, <3>5
    <3>7. \A q \in 1..y : Packet(m)[Header + q] = <<m, Header + q>>
      <4>1. \A q \in 1..y : Header + q \in 1..n
        BY <1>3, <2>3, Constants
      <4>. QED
        BY <3>3, <4>1
    <3>8. \A q \in 1..y : SubSeq(Kept(k), 1, y)[q] = SubSeq(Packet(m), Header + 1, n)[q]
      BY <1>3, <3>2, <3>6, <3>7
    <3>. QED
      BY ONLY <3>2, <3>6, <3>8, SeqEqual
  <2>6. RoundTrip'
    <3>1. received \in Seq(Seq(Cell)) /\ Len(received) = m - 1
      BY <1>0 DEF Types, ReaderOK
    <3>2. SubSeq(Kept(k), 1, y) \in Seq(Cell)
      <4>1. y \in 0..Len(Kept(k))
        BY <1>1, <1>3, <1>4
      <4>. QED
        BY <1>4, <4>1, Front
    <3>3. /\ Len(received') = m /\ received'[m] = SubSeq(Kept(k), 1, y)
          /\ \A r \in 1..(m - 1) : received'[r] = received[r]
          /\ DOMAIN received' = 1..m /\ DOMAIN received = 1..(m - 1)
      <4>1. received' = Append(received, SubSeq(Kept(k), 1, y))
        BY <1>1, <1>11
      <4>. QED
        BY <1>2, <3>1, <3>2, <4>1, AppendProperties
    <3>4. \A r : Packet(r)' = Packet(r)
      BY <1>1 DEF Packet
    <3>5. ASSUME NEW r \in 1..m
          PROVE  received'[r] = SubSeq(Packet(r), Header + 1, lengths[r])
      <4>1. CASE r = m
        BY <1>0, <2>5, <3>3, <4>1
      <4>2. CASE r # m
        <5>1. r \in 1..(m - 1)
          BY <1>2, <4>2
        <5>. QED
          BY <3>3, <5>1 DEF RoundTrip
      <4>. QED
        BY <4>1, <4>2
    <3>. QED
      BY <1>1, <3>3, <3>4, <3>5 DEF RoundTrip
  <2>7. reader'.msg <= writer'.msg + 1
    BY <1>2, <1>9, <2>1
  <2>. QED
    BY <1>7, <2>1, <2>4, <2>6, <2>7 DEF Reading
<1>12. CASE ~Finished
  <2>1. /\ reader'.at = "read" /\ reader'.msg = m /\ reader'.i = i + 1 /\ reader'.index = y
        /\ reader'.buf = Kept(k)
    BY <1>0, <1>1, <1>12 DEF Types, ReaderOK
  <2>2. i < Frags(m) /\ Long
    BY <1>2, <1>5, <1>10, <1>12 DEF Finished
  <2>3. b = Payload
    BY <1>0, <2>2 DEF Brings, Frags, Long
  <2>4. Skip' = 0
    BY <1>5, <2>1 DEF Skip
  <2>5. y + Header = Cut(i + 1) + Skip'
    <3>1. Cut(i + 1) = Cut(i) + Payload /\ Cut(i + 1) \in Nat
      BY <1>5, Starting, Constants
    <3>. QED
      BY <1>3, <2>3, <2>4, <3>1
  <2>6. Passed(base)' = p + k
    <3>1. Passed(base)' = base[m] + (Place(i + 1) + 0)
      BY <2>1, <2>4 DEF Passed
    <3>2. Place(i + 1) \in Nat /\ Place(i) + FragLen(m, i) = Place(i + 1)
      BY <1>5, <2>2
    <3>. QED
      BY <1>2, <1>8, <3>1, <3>2
  <2>7. RoundTrip'
    <3>1. \A r : Packet(r)' = Packet(r)
      BY <1>1 DEF Packet
    <3>. QED
      BY <1>1, <1>12, <3>1 DEF RoundTrip
  <2>8. reader'.msg <= writer'.msg + 1 /\ reader'.msg <= writer'.msg
    BY <1>2, <1>9, <2>1
  <2>9. \A q \in 1..reader'.index : reader'.buf[q] = <<reader'.msg, Header + q>>
    BY <1>3, <2>1
  <2>. QED
    BY <1>7, <2>1, <2>5, <2>6, <2>7, <2>8, <2>9 DEF Reading
<1>. QED
  BY <1>11, <1>12

(* At the start nothing is in the stream. *)
LEMMA ArrivesStart ==
  ASSUME Init PROVE Arrives
<1>. DEFINE e == IF Packets = 0 THEN 0 ELSE EncLen(1)
<1>1. /\ writer.at = "loop" /\ writer.msg = 1 /\ writer.sent = 0
      /\ reader.at = "header" /\ reader.msg = 1 /\ pushed = <<>> /\ wire = <<>> /\ received = <<>>
  BY DEF Init
<1>2. e \in Nat
  <2>1. Packets # 0 => 1 \in 1..Packets
    BY Constants
  <2>. QED
    BY <2>1, InitTypes, FragmentFacts DEF Types
<1>3. PICK base : base \in [1..2 -> Nat] /\ base[1] = 0 /\ base[2] = e
  <2>. HIDE DEF e
  <2>. DEFINE l == [q \in 1..2 |-> IF q = 1 THEN 0 ELSE e]
  <2>1. l \in [1..2 -> Nat] /\ l[1] = 0 /\ l[2] = e
    BY <1>2
  <2>. HIDE DEF l
  <2>. QED
    BY <2>1
<1>4. Whole
  BY <1>1 DEF Whole, Complete
<1>5. RoundTrip
  BY <1>1 DEF RoundTrip
<1>6. Progress = 0 /\ SentFrags = 0
  BY <1>1 DEF Progress, SentFrags, Complete
<1>7. Stream(base)
  <2>1. ASSUME NEW q \in 1..1, q <= Packets PROVE base[q + 1] = base[q] + EncLen(q)
    BY <1>2, <1>3, <2>1
  <2>. QED
    BY <1>1, <1>3, <1>6, <2>1 DEF Stream
<1>8. Reading(base)
  BY <1>1, <1>3 DEF Reading, Passed
<1>. QED
  BY <1>4, <1>5, <1>7, <1>8 DEF Arrives

(* Every step keeps the invariant; those that need faults are not taken. *)
LEMMA ArrivesStep ==
  ASSUME Types, Arrives, [Next]_vars, \A q \in 1..Packets : lengths[q] < RawLen
  PROVE  Arrives'
<1>. SUFFICES ASSUME ~faults' PROVE Whole' /\ RoundTrip' /\ \E base : Stream(base)' /\ Reading(base)'
  BY DEF Arrives
<1>1. ~faults
  BY DEF Next, Writes, Reads, WriteTurn, Send, SendFails, ReadHeader, Recv, RecvInterrupted,
         RecvFails, vars, setting
<1>2. Whole /\ RoundTrip
  BY <1>1 DEF Arrives
<1>3. PICK base : Stream(base) /\ Reading(base)
  BY <1>1 DEF Arrives
<1>4. ASSUME UNCHANGED <<setting, received>> PROVE RoundTrip'
  BY <1>2, <1>4 DEF RoundTrip, Packet, setting
<1>5. ASSUME UNCHANGED <<lengths, writer>>, reader'.at # "threw" PROVE Whole'
  BY <1>2, <1>5 DEF Whole, Complete, Split
<1>6. CASE WriteTurn
  <2>1. UNCHANGED <<setting, received>>
    BY <1>6 DEF WriteTurn
  <2>. QED
    BY <1>2, <1>3, <1>4, <1>6, <2>1, WriteTurnArrives
<1>7. CASE Send
  <2>1. UNCHANGED <<setting, received>> /\ writer.msg \in 1..Packets
    BY <1>7, PartFacts DEF Send
  <2>2. Whole' /\ Stream(base)' /\ Reading(base)'
    BY <1>1, <1>2, <1>3, <1>7, <2>1, SendArrives
  <2>. QED
    BY <1>4, <2>1, <2>2
<1>8. CASE ReadHeader
  <2>1. UNCHANGED <<setting, received, lengths, pushed, writer>>
    BY <1>8 DEF ReadHeader, setting
  <2>2. Reading(base)' /\ reader'.at # "threw"
    BY <1>2, <1>3, <1>8, ReadHeaderArrives
  <2>3. Stream(base)'
    BY <1>3, <2>1, StreamStays
  <2>. QED
    BY <1>4, <1>5, <2>1, <2>2, <2>3
<1>9. CASE Recv
  <2>1. UNCHANGED <<lengths, pushed, writer>>
    BY <1>9 DEF Recv, setting
  <2>2. RoundTrip' /\ Reading(base)' /\ reader'.at # "threw"
    BY <1>1, <1>2, <1>3, <1>9, RecvArrives
  <2>3. Stream(base)'
    BY <1>3, <2>1, StreamStays
  <2>. QED
    BY <1>5, <2>1, <2>2, <2>3
<1>10. CASE UNCHANGED vars
  <2>1. UNCHANGED <<faults, lengths, wire, pushed, writer, reader, received>>
    BY <1>10 DEF vars, setting
  <2>2. Stream(base)'
    BY <1>3, <2>1, StreamStays
  <2>3. Reading(base)'
    BY <1>3, <2>1 DEF Reading, Passed, Skip
  <2>4. reader'.at # "threw"
    BY <1>2, <2>1 DEF Whole
  <2>. QED
    BY <1>4, <1>5, <2>1, <2>2, <2>3, <2>4 DEF setting
<1>. QED
  BY <1>1, <1>6, <1>7, <1>8, <1>9, <1>10
     DEF Next, Writes, Reads, SendFails, RecvInterrupted, RecvFails

(* When every send() and recv() is whole, read() returns the packet that was
   written, without its header, whatever the sizes of the fragments and of the
   packets: those of RawLen bytes and more are left out, because writePartial()
   sends them in one piece and read() still looks for marks in them. *)
THEOREM PacketsArrive ==
  ASSUME \A n \in Lengths : n < RawLen
  PROVE  Spec => []RoundTrip
<1>1. Init => Types /\ Arrives
  BY InitTypes, ArrivesStart
<1>2. Types /\ Arrives /\ [Next]_vars => (Types /\ Arrives)'
  <2>. SUFFICES ASSUME Types, Arrives, [Next]_vars PROVE (Types /\ Arrives)'
    OBVIOUS
  <2>1. Types'
    BY TypesStep
  <2>2. CASE faults
    <3>1. faults'
      BY <2>2 DEF Next, Writes, Reads, WriteTurn, Send, SendFails, ReadHeader, Recv, RecvInterrupted,
                  RecvFails, vars, setting
    <3>. QED
      BY <2>1, <3>1 DEF Arrives
  <2>3. CASE ~faults
    <3>1. \A q \in 1..Packets : lengths[q] < RawLen
      BY <2>3 DEF Types, SettingOK
    <3>. QED
      BY <2>1, <3>1, ArrivesStep
  <2>. QED
    BY <2>2, <2>3
<1>3. Arrives => RoundTrip
  BY DEF Arrives, RoundTrip
<1>. QED
  BY <1>1, <1>2, <1>3, PTL DEF Spec
=============================================================================
