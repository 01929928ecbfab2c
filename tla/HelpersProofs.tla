---------------------------- MODULE HelpersProofs ----------------------------
(***************************************************************************)
(* Proofs about Helpers, for any number and kind of bytes, threads and     *)
(* messages.  The indices of RingBuffer stay inside its vector, and the    *)
(* circular array implements a bounded first-in first-out queue; the byte  *)
(* buffer implements a deque; what is in the log files can be trusted; an  *)
(* angle the frame scanner reports was sent, whatever the reads cut; the   *)
(* time conversions agree about every instant of the clock; and the        *)
(* configuration file survives a writing that stops short.                 *)
(* And about AudioPath, which sends live speech through a RingBuffer, for  *)
(* every chunk and number of bytes: speech leaves in the order in which it *)
(* came, nobody uses a ring buffer that Stop has deleted, and one chunk at *)
(* most leaves after the microphone is closed.  The theorems about Helpers *)
(* use none of AudioPath's assumptions.                                    *)
(***************************************************************************)
EXTENDS AudioPath, Helpers, SequenceTheorems, FiniteSetTheorems, FunctionTheorems, WellFoundedInduction, TLAPS

USE RingAssumption

-----------------------------------------------------------------------------
(* Arithmetic on the circle                                                *)

(* One subtraction does the work of % for every sum the code computes. *)
LEMMA OneTurn ==
  ASSUME NEW x \in 0..(2 * Capacity - 1)
  PROVE  x % Capacity = IF x < Capacity THEN x ELSE x - Capacity
<1>1. CASE x < Capacity
  <2>1. x % Capacity = x BY <1>1, SMT
  <2> QED BY <1>1, <2>1
<1>2. CASE ~(x < Capacity)
  <2>1. x % Capacity = x - Capacity BY <1>2, SMT
  <2> QED BY <1>2, <2>1
<1> QED BY <1>1, <1>2

LEMMA ReadableIs ==
  ASSUME RingTypeOK
  PROVE  Readable = IF m_tail <= m_head THEN m_head - m_tail ELSE Capacity + m_head - m_tail
<1>1. m_head \in Places /\ m_tail \in Places BY DEF RingTypeOK
<1>2. Capacity + m_head - m_tail \in 0..(2 * Capacity - 1) BY <1>1 DEF Places
<1> DEFINE x == Capacity + m_head - m_tail
<1>3. Readable = IF x < Capacity THEN x ELSE x - Capacity
  <2>1. x \in 0..(2 * Capacity - 1) BY <1>2
  <2>2. Readable = x % Capacity BY DEF Readable
  <2> HIDE DEF x
  <2> QED BY ONLY <2>1, <2>2, OneTurn, Zenon
<1> QED BY <1>1, <1>3 DEF Places

LEMMA WritableIs ==
  ASSUME RingTypeOK
  PROVE  /\ Readable \in 0..(Capacity - 1)
         /\ Writable = Capacity - 1 - Readable
<1>1. m_head \in Places /\ m_tail \in Places BY DEF RingTypeOK
<1>2. Capacity + m_tail - m_head - 1 \in 0..(2 * Capacity - 1) BY <1>1 DEF Places
<1> DEFINE x == Capacity + m_tail - m_head - 1
<1>3. Writable = IF x < Capacity THEN x ELSE x - Capacity
  <2>1. x \in 0..(2 * Capacity - 1) BY <1>2
  <2>2. Writable = x % Capacity BY DEF Writable
  <2> HIDE DEF x
  <2> QED BY ONLY <2>1, <2>2, OneTurn, Zenon
<1> QED BY <1>1, <1>3, ReadableIs DEF Places

-----------------------------------------------------------------------------
(* Type correctness                                                        *)

LEMMA WriteStaysInside ==
  ASSUME RingTypeOK, NEW data \in Seq(Bytes), Write(data)
  PROVE  RingTypeOK'
<1> DEFINE n == Least(Len(data), Writable)
           nth(j) == (j - m_head + Capacity) % Capacity
<1>1. m_head \in Places /\ m_tail \in Places /\ m_buffer \in [Places -> Bytes]
  BY DEF RingTypeOK
<1>2. Len(data) \in Nat OBVIOUS
<1>3. n \in 0..(Capacity - 1) /\ n <= Len(data) BY <1>2, WritableIs DEF Least
<1>4. m_head' \in Places
  <2>1. m_head + n \in 0..(2 * Capacity - 1) BY <1>1, <1>3 DEF Places
  <2>2. m_head' = (m_head + n) % Capacity BY DEF Write
  <2> HIDE DEF n
  <2> QED BY <2>1, <2>2, OneTurn DEF Places
<1>5. ASSUME NEW j \in Places, nth(j) < n PROVE data[nth(j) + 1] \in Bytes
  <2>1. j - m_head + Capacity \in 0..(2 * Capacity - 1) BY <1>1 DEF Places
  <2>2. nth(j) \in Nat BY <2>1, OneTurn
  <2>3. nth(j) + 1 \in 1..Len(data) BY <1>2, <1>3, <1>5, <2>2
  <2> QED BY <2>3
<1>6. m_buffer' = [j \in Places |-> IF nth(j) < n THEN data[nth(j) + 1] ELSE m_buffer[j]]
  BY DEF Write
<1>7. m_buffer' \in [Places -> Bytes] BY <1>1, <1>5, <1>6
<1> QED BY <1>1, <1>4, <1>7 DEF RingTypeOK, Write

LEMMA ReadStaysInside ==
  ASSUME RingTypeOK, NEW len \in Nat, Read(len)
  PROVE  RingTypeOK'
<1> DEFINE n == Least(len, Readable)
<1>1. m_head \in Places /\ m_tail \in Places /\ m_buffer \in [Places -> Bytes]
  BY DEF RingTypeOK
<1>2. Readable \in 0..(Capacity - 1) BY WritableIs
<1>3. n \in 0..(Capacity - 1) BY <1>2 DEF Least
<1>4. m_tail + n \in 0..(2 * Capacity - 1) BY <1>1, <1>3 DEF Places
<1>5. m_tail' = (m_tail + n) % Capacity BY DEF Read
<1>6. m_tail' \in Places BY <1>4, <1>5, OneTurn DEF Places
<1> QED BY <1>1, <1>6 DEF RingTypeOK, Read

LEMMA TypeStep == RingTypeOK /\ [CallsNext]_callVars => RingTypeOK'
<1> SUFFICES ASSUME RingTypeOK, [CallsNext]_callVars PROVE RingTypeOK'
  OBVIOUS
<1>1. ASSUME NEW data \in Offers, Write(data) PROVE RingTypeOK'
  <2>1. data \in Seq(Bytes) BY DEF Offers
  <2> QED BY <1>1, <2>1, WriteStaysInside
<1>2. ASSUME NEW len \in 0..MaxLen, Read(len) PROVE RingTypeOK'
  BY <1>2, ReadStaysInside
<1>3. CASE UNCHANGED callVars BY <1>3 DEF callVars, ring, RingTypeOK
<1> QED BY <1>1, <1>2, <1>3 DEF CallsNext, CallWrite, CallRead

(* The indices of ring_buffer.cpp never leave the vector, whatever is written
   and read. *)
THEOREM IndicesStayInside == CallsSpec => []RingTypeOK
<1>1. CallsInit => RingTypeOK
  BY DEF CallsInit, RingInit, RingTypeOK, Places
<1> QED BY <1>1, TypeStep, PTL DEF CallsSpec

-----------------------------------------------------------------------------
(* The bounded first-in first-out queue                                    *)

(* What the circle holds, without %: Filled bytes, the i-th of them in
   Spot(i). *)
Filled == IF m_tail <= m_head THEN m_head - m_tail ELSE Capacity + m_head - m_tail
Spot(i) == IF m_tail + i - 1 < Capacity THEN m_tail + i - 1 ELSE m_tail + i - 1 - Capacity

ContentsFacts ==
  /\ Filled \in 0..(Capacity - 1)
  /\ Contents \in Seq(Bytes)
  /\ Len(Contents) = Filled
  /\ \A i \in 1..Filled : Spot(i) \in Places /\ Contents[i] = m_buffer[Spot(i)]

LEMMA ContentsAre == RingTypeOK => ContentsFacts
<1> SUFFICES ASSUME RingTypeOK PROVE ContentsFacts
  OBVIOUS
<1>1. m_head \in Places /\ m_tail \in Places /\ m_buffer \in [Places -> Bytes]
  BY DEF RingTypeOK
<1>2. Readable = Filled BY ReadableIs DEF Filled
<1>3. Filled \in 0..(Capacity - 1) BY <1>2, WritableIs
<1>4. ASSUME NEW i \in 1..Filled
      PROVE  Spot(i) \in Places /\ (m_tail + i - 1) % Capacity = Spot(i)
  <2> DEFINE x == m_tail + i - 1
  <2>1. x \in 0..(2 * Capacity - 1) BY <1>1, <1>3 DEF Places
  <2>2. Spot(i) = IF x < Capacity THEN x ELSE x - Capacity BY <1>1, <1>3 DEF Spot, Places
  <2>3. Spot(i) \in Places BY <2>1, <2>2 DEF Places
  <2> HIDE DEF x
  <2>4. x % Capacity = Spot(i) BY ONLY <2>1, <2>2, OneTurn, Zenon
  <2> USE DEF x
  <2> QED BY <2>3, <2>4
<1>5. Contents = [i \in 1..Filled |-> m_buffer[Spot(i)]] BY <1>2, <1>4 DEF Contents
<1>6. \A i \in 1..Filled : m_buffer[Spot(i)] \in Bytes BY <1>1, <1>4
<1>7. Contents \in Seq(Bytes) /\ Len(Contents) = Filled BY <1>3, <1>5, <1>6
<1> QED BY <1>3, <1>4, <1>5, <1>7 DEF ContentsFacts

(* Write appends the bytes there is room for. *)
LEMMA WriteAppends ==
  ASSUME RingTypeOK, RingTypeOK', NEW data \in Seq(Bytes), Write(data)
  PROVE  Contents' = Contents \o SubSeq(data, 1, Least(Len(data), Writable))
<1> DEFINE n == Least(Len(data), Writable)
           nth(j) == (j - m_head + Capacity) % Capacity
<1>1. /\ m_head \in Places /\ m_tail \in Places /\ m_buffer \in [Places -> Bytes]
      /\ m_tail' = m_tail
  BY DEF RingTypeOK, Write
<1>2. data \in Seq(Bytes) /\ Len(data) \in Nat OBVIOUS
<1>3. ContentsFacts /\ ContentsFacts' BY ContentsAre, PTL
<1>4. Writable = Capacity - 1 - Filled
  BY ReadableIs, WritableIs DEF Filled
<1>5. Filled \in 0..(Capacity - 1) BY <1>3 DEF ContentsFacts
<1>6. n \in 0..(Capacity - 1 - Filled) /\ n <= Len(data)
  BY <1>2, <1>4, <1>5 DEF Least
<1> DEFINE x == m_head + n
<1>7. m_head' = IF x < Capacity THEN x ELSE x - Capacity
  <2>1. x \in 0..(2 * Capacity - 1) BY <1>1, <1>5, <1>6 DEF Places
  <2>2. m_head' = x % Capacity BY DEF Write
  <2> HIDE DEF x
  <2>3. x % Capacity = IF x < Capacity THEN x ELSE x - Capacity BY ONLY <2>1, OneTurn, Zenon
  <2> QED BY ONLY <2>2, <2>3, Zenon
<1>8. \A j \in Places : m_buffer'[j] = IF nth(j) < n THEN data[nth(j) + 1] ELSE m_buffer[j]
  BY DEF Write
<1>9. ASSUME NEW j \in Places
      PROVE  nth(j) = IF j < m_head THEN j - m_head + Capacity ELSE j - m_head
  <2> DEFINE y == j - m_head + Capacity
  <2>1. y \in 0..(2 * Capacity - 1) BY <1>1 DEF Places
  <2>2. nth(j) = y % Capacity OBVIOUS
  <2> HIDE DEF y, nth
  <2>3. y % Capacity = IF y < Capacity THEN y ELSE y - Capacity BY ONLY <2>1, OneTurn, Zenon
  <2>4. nth(j) = IF y < Capacity THEN y ELSE y - Capacity BY ONLY <2>2, <2>3, Zenon
  <2> USE DEF y
  <2> QED BY <1>1, <2>4 DEF Places
<1> HIDE DEF n, nth
<1>10. Filled' = Filled + n
  BY <1>1, <1>5, <1>6, <1>7 DEF Filled, Places
<1>11. ASSUME NEW i \in 1..Filled PROVE Contents'[i] = Contents[i]
  <2>1. Spot(i) \in Places /\ Contents[i] = m_buffer[Spot(i)] BY <1>3 DEF ContentsFacts
  <2>2. Contents'[i] = m_buffer'[Spot(i)']
    BY <1>3, <1>5, <1>6, <1>10 DEF ContentsFacts
  <2>3. Spot(i)' = Spot(i) BY <1>1 DEF Spot
  <2>4. ~(nth(Spot(i)) < n)
    BY <1>1, <1>5, <1>6, <1>9, <2>1 DEF Filled, Spot, Places
  <2> QED BY <1>8, <2>1, <2>2, <2>3, <2>4
<1>12. ASSUME NEW i \in (Filled + 1)..(Filled + n) PROVE Contents'[i] = data[i - Filled]
  <2>1. i \in 1..Filled' BY <1>5, <1>6, <1>10
  <2>2. Spot(i)' = Spot(i) BY <1>1 DEF Spot
  <2>3. Spot(i) \in Places /\ Contents'[i] = m_buffer'[Spot(i)]
    BY <1>3, <2>1, <2>2 DEF ContentsFacts
  <2>4. nth(Spot(i)) = i - Filled - 1
    BY <1>1, <1>5, <1>6, <1>9, <2>3 DEF Filled, Spot, Places
  <2>5. nth(Spot(i)) < n BY <1>5, <1>6, <2>4
  <2>6. m_buffer'[Spot(i)] = data[i - Filled - 1 + 1] BY <1>8, <2>3, <2>4, <2>5
  <2>7. i - Filled - 1 + 1 = i - Filled BY <1>5
  <2> QED BY <2>3, <2>6, <2>7
<1> DEFINE added == SubSeq(data, 1, n)
<1>13. Len(Contents) = Filled /\ Len(Contents') = Filled + n /\ Contents \in Seq(Bytes) /\ Contents' \in Seq(Bytes)
  BY <1>3, <1>10 DEF ContentsFacts
<1>14. added \in Seq(Bytes) /\ Len(added) = n /\ \A k \in 1..n : added[k] = data[k]
  <2>1. \A k \in 1..n : data[k] \in Bytes BY <1>2, <1>5, <1>6
  <2>2. n \in Nat BY <1>5, <1>6
  <2> QED BY <2>1, <2>2, SubSeqProperties
<1> HIDE DEF added
<1>15. /\ Contents \o added \in Seq(Bytes)
       /\ Len(Contents \o added) = Filled + n
       /\ \A i \in 1..(Filled + n) :
            (Contents \o added)[i] = IF i <= Filled THEN Contents[i] ELSE added[i - Filled]
  BY <1>13, <1>14, ConcatProperties
<1>16. ASSUME NEW i \in 1..(Filled + n) PROVE Contents'[i] = (Contents \o added)[i]
  <2>1. CASE i <= Filled BY <1>5, <1>6, <1>11, <1>15, <2>1
  <2>2. CASE ~(i <= Filled)
    <3>1. i \in (Filled + 1)..(Filled + n) /\ i - Filled \in 1..n BY <1>5, <1>6, <2>2
    <3>2. Contents'[i] = data[i - Filled] BY <1>12, <3>1
    <3>3. added[i - Filled] = data[i - Filled] BY <1>14, <3>1
    <3> QED BY <1>15, <2>2, <3>2, <3>3
  <2> QED BY <2>1, <2>2
<1>17. Contents' = Contents \o added
  BY <1>13, <1>15, <1>16, SeqEqual
<1> QED BY <1>17 DEF added, n

(* Read takes the oldest bytes away. *)
LEMMA ReadTakes ==
  ASSUME RingTypeOK, RingTypeOK', NEW len \in Nat, Read(len)
  PROVE  /\ Contents' = SubSeq(Contents, Least(len, Readable) + 1, Len(Contents))
         /\ ReadOut(len) \in Seq(Bytes) /\ Contents = ReadOut(len) \o Contents'
<1> DEFINE n == Least(len, Readable)
<1>1. /\ m_head \in Places /\ m_tail \in Places /\ m_buffer \in [Places -> Bytes]
      /\ m_head' = m_head /\ m_buffer' = m_buffer
  BY DEF RingTypeOK, Read
<1>2. ContentsFacts /\ ContentsFacts' BY ContentsAre, PTL
<1>3. Readable = Filled BY ReadableIs DEF Filled
<1>4. Filled \in 0..(Capacity - 1) BY <1>2 DEF ContentsFacts
<1>5. n \in 0..Filled BY <1>3, <1>4 DEF Least
<1> DEFINE x == m_tail + n
<1>6. m_tail' = IF x < Capacity THEN x ELSE x - Capacity
  <2>1. x \in 0..(2 * Capacity - 1) BY <1>1, <1>4, <1>5 DEF Places
  <2>2. m_tail' = x % Capacity BY DEF Read
  <2> HIDE DEF x
  <2>3. x % Capacity = IF x < Capacity THEN x ELSE x - Capacity BY ONLY <2>1, OneTurn, Zenon
  <2> QED BY ONLY <2>2, <2>3, Zenon
<1>7. ReadOut(len) = SubSeq(Contents, 1, n)
  BY DEF ReadOut
<1> HIDE DEF n
<1>8. Filled' = Filled - n BY <1>1, <1>4, <1>5, <1>6 DEF Filled, Places
<1>9. ASSUME NEW i \in 1..(Filled - n) PROVE Contents'[i] = Contents[n + i]
  <2>1. i \in 1..Filled' /\ n + i \in 1..Filled BY <1>4, <1>5, <1>8
  <2>2. Contents[n + i] = m_buffer[Spot(n + i)] BY <1>2, <2>1 DEF ContentsFacts
  <2>3. Contents'[i] = m_buffer'[Spot(i)'] BY <1>2, <2>1 DEF ContentsFacts
  <2>4. Spot(i)' = Spot(n + i) BY <1>1, <1>4, <1>5, <1>6 DEF Spot, Places
  <2> QED BY <1>1, <2>2, <2>3, <2>4
<1> DEFINE rest == SubSeq(Contents, n + 1, Len(Contents))
           taken == SubSeq(Contents, 1, n)
<1>10. /\ Len(Contents) = Filled /\ Len(Contents') = Filled - n
       /\ Contents \in Seq(Bytes) /\ Contents' \in Seq(Bytes)
  BY <1>2, <1>8 DEF ContentsFacts
<1>11. \A k \in 1..Filled : Contents[k] \in Bytes BY <1>4, <1>10
<1>12. /\ rest \in Seq(Bytes)
       /\ Len(rest) = Filled - n
       /\ \A i \in 1..(Filled - n) : rest[i] = Contents[n + i]
  <2>1. n + 1 \in Int /\ Filled \in Int BY <1>4, <1>5
  <2>2. rest = SubSeq(Contents, n + 1, Filled) BY <1>10
  <2>3. \A k \in (n + 1)..Filled : Contents[k] \in Bytes BY <1>4, <1>5, <1>11
  <2> HIDE DEF rest
  <2>4. /\ rest \in Seq(Bytes)
        /\ Len(rest) = IF n + 1 <= Filled THEN Filled - (n + 1) + 1 ELSE 0
        /\ \A i \in 1..(Filled - (n + 1) + 1) : rest[i] = Contents[n + 1 + i - 1]
    BY ONLY <2>1, <2>2, <2>3, SubSeqProperties
  <2> QED BY <1>4, <1>5, <2>4
<1> HIDE DEF rest
<1>13. Contents' = rest BY <1>4, <1>5, <1>9, <1>10, <1>12, SeqEqual
<1>14. /\ taken \in Seq(Bytes) /\ Len(taken) = n
       /\ \A i \in 1..n : taken[i] = Contents[i]
  <2>1. \A k \in 1..n : Contents[k] \in Bytes BY <1>4, <1>5, <1>11
  <2>2. n \in Nat BY <1>4, <1>5
  <2> QED BY <2>1, <2>2, SubSeqProperties
<1> HIDE DEF taken
<1>15. /\ taken \o rest \in Seq(Bytes)
       /\ Len(taken \o rest) = Filled
       /\ \A i \in 1..Filled : (taken \o rest)[i] = IF i <= n THEN taken[i] ELSE rest[i - n]
  <2>1. n \in Nat /\ n + (Filled - n) = Filled BY <1>4, <1>5
  <2>2. /\ taken \o rest \in Seq(Bytes)
        /\ Len(taken \o rest) = Len(taken) + Len(rest)
        /\ \A i \in 1..(Len(taken) + Len(rest)) :
             (taken \o rest)[i] = IF i <= Len(taken) THEN taken[i] ELSE rest[i - Len(taken)]
    BY <1>12, <1>14, ConcatProperties
  <2>3. Len(taken) = n /\ Len(taken) + Len(rest) = Filled BY <1>12, <1>14, <2>1
  <2> QED BY ONLY <2>2, <2>3
<1>16. ASSUME NEW i \in 1..Filled PROVE Contents[i] = (taken \o rest)[i]
  <2>1. CASE i <= n BY <1>4, <1>5, <1>14, <1>15, <2>1
  <2>2. CASE ~(i <= n)
    <3>1. i - n \in 1..(Filled - n) /\ n + (i - n) = i BY <1>4, <1>5, <2>2
    <3> QED BY <1>12, <1>15, <2>2, <3>1
  <2> QED BY <2>1, <2>2
<1>17. Contents = taken \o rest BY <1>4, <1>10, <1>15, <1>16, SeqEqual
<1> QED BY <1>7, <1>13, <1>14, <1>17 DEF taken, rest, n

(* Whatever is written and read, the circular array of ring_buffer.cpp is a
   first-in first-out queue of one byte less than its capacity. *)
THEOREM RefinesFifo == CallsSpec => ImplementsFifo
<1>1. CallsInit => Fifo!Init
  <2> SUFFICES ASSUME CallsInit PROVE Contents = <<>>
    BY DEF CallsInit, Fifo!Init
  <2>1. RingTypeOK BY DEF CallsInit, RingInit, RingTypeOK, Places
  <2>2. ContentsFacts BY <2>1, ContentsAre
  <2>3. Filled = 0 BY DEF CallsInit, RingInit, Filled
  <2> QED BY <2>2, <2>3 DEF ContentsFacts
<1>2. RingTypeOK /\ RingTypeOK' /\ [CallsNext]_callVars => [Fifo!Next]_<<Contents, told>>
  <2> SUFFICES ASSUME RingTypeOK, RingTypeOK', [CallsNext]_callVars
               PROVE  [Fifo!Next]_<<Contents, told>>
    OBVIOUS
  <2>1. Len(Contents) = Filled /\ Readable = Filled /\ Writable = Capacity - 1 - Filled
    BY ContentsAre, ReadableIs, WritableIs DEF ContentsFacts, Filled
  <2>2. ASSUME NEW data \in Offers, CallWrite(data) PROVE Fifo!Next
    <3>1. data \in Seq(Bytes) /\ Write(data) BY <2>2 DEF Offers, CallWrite
    <3>2. Contents' = Contents \o SubSeq(data, 1, Least(Len(data), Writable))
      BY <3>1, WriteAppends
    <3>3. Fifo!Write(data)
      BY <2>1, <2>2, <3>2 DEF CallWrite, Fifo!Write, Least, Fifo!Least
    <3> QED BY <3>3 DEF Fifo!Next, Fifo!Offers, Offers
  <2>3. ASSUME NEW len \in 0..MaxLen, CallRead(len) PROVE Fifo!Next
    <3>1. Contents' = SubSeq(Contents, Least(len, Readable) + 1, Len(Contents))
      BY <2>3, ReadTakes DEF CallRead
    <3>2. Fifo!Read(len)
      BY <2>1, <2>3, <3>1 DEF CallRead, ReadOut, Fifo!Read, Least, Fifo!Least
    <3> QED BY <3>2 DEF Fifo!Next
  <2>4. CASE UNCHANGED callVars BY <2>4 DEF callVars, ring, Contents, Readable
  <2> QED BY <2>2, <2>3, <2>4 DEF CallsNext
<1>3. CallsSpec => []RingTypeOK BY IndicesStayInside
<1> QED BY <1>1, <1>2, <1>3, PTL DEF CallsSpec, ImplementsFifo, Fifo!Spec
HIDE RingAssumption

-----------------------------------------------------------------------------
(* The inductive invariant of AudioPath                                    *)

(* The buffer lives while the audio thread runs, for Stop joins it first; only
   the datagram under way is in nobody's hands. *)
Lives ==
  /\ tx \in {"opening", "testing", "asking", "reading", "sending"} => owner \in {"serving", "joining"}
  /\ owner \in {"bufferMade", "serving", "joining", "joined"} => m_audioBuf = "alive"
  /\ owner \in {"new", "keepSet", "bufferMade"} => tx = "none"
  /\ tx # "sending" => packet = <<>>

(* A chunk that was read while the microphone was open may be late; the next
   one is not read. *)
Lateness ==
  /\ late <= 1
  /\ m_isMicOpen \/ tx \in {"reading", "sending"} => late = 0

IInv == TypeOK /\ StreamOrder /\ Lives /\ Lateness

LEMMA InitInv == Init => IInv
<1>. SUFFICES ASSUME Init PROVE IInv
  OBVIOUS
<1>1. RingTypeOK
  BY RingAssumption DEF Init, RingInit, RingTypeOK, Places
<1>2. TypeOK
  <2>1. 0 \in 0..MaxLen /\ 0 \in 0..MaxPushed /\ 0 \in 0..MaxToggles /\ 0 \in Nat
    BY RingAssumption, AudioAssumption
  <2>2. <<>> \in Seq(Bytes)
    BY EmptySeq
  <2>. QED
    BY <1>1, <2>1, <2>2 DEF Init, TypeOK
<1>3. StreamOrder
  <2>1. Contents = <<>>
    <3>1. Readable = Capacity % Capacity
      BY RingAssumption DEF Init, RingInit, Readable
    <3>2. Readable = 0 BY <3>1, RingAssumption, SMT
    <3>. QED
      BY <3>2 DEF Contents
  <2>. QED
    BY <2>1 DEF Init, StreamOrder
<1>4. Lives BY DEF Init, Lives
<1>5. Lateness BY DEF Init, Lateness
<1>. QED
  BY <1>2, <1>3, <1>4, <1>5 DEF IInv

(* Types of AudioPath in a step that changes nothing *)
LEMMA TypeKept ==
  ASSUME TypeOK, UNCHANGED vars
  PROVE  TypeOK'
<1>1. RingTypeOK'
  BY DEF vars, ring, TypeOK, RingTypeOK
<1>2. UNCHANGED <<m_audioBuf, m_keepHeartbeat, m_isMicOpen, owner, client, tx, packet,
                  accepted, sent, answer, lost, pushed, toggles, late>>
  BY DEF vars, shared, history
<1>3. /\ m_audioBuf' \in {"null", "alive", "deleted"}
      /\ m_keepHeartbeat' \in BOOLEAN /\ m_isMicOpen' \in BOOLEAN
      /\ owner' \in {"new", "keepSet", "bufferMade", "serving", "joining", "joined",
                     "deleted", "stopped"}
      /\ client' \in {"away", "idle", "writing", "pushed", "ended", "crashed"}
      /\ tx' \in {"none", "opening", "testing", "asking", "reading", "sending", "done", "failed"}
  BY <1>2, Zenon DEF TypeOK
<1>4. /\ packet' \in Seq(Bytes) /\ accepted' \in Seq(Bytes) /\ sent' \in Seq(Bytes)
      /\ answer' \in {"none", "ECCS_SUCCESS"}
      /\ lost' \in 0..MaxLen /\ pushed' \in 0..MaxPushed
      /\ toggles' \in 0..MaxToggles /\ late' \in Nat
  BY <1>2, Zenon DEF TypeOK
<1>. QED
  BY <1>1, <1>3, <1>4, Zenon DEF TypeOK

LEMMA NextInv == IInv /\ [Next]_vars => IInv'
<1>. SUFFICES ASSUME IInv, [Next]_vars PROVE IInv'
  OBVIOUS
<1>. USE DEF IInv
<1>1. ASSUME UNCHANGED <<ring, packet, accepted, sent>>
      PROVE  StreamOrder' /\ RingTypeOK'
  BY <1>1 DEF StreamOrder, Contents, Readable, ring, RingTypeOK, TypeOK
<1>2. CASE Owner
  <2>1. UNCHANGED <<ring, packet, accepted, sent>>
    BY <1>2 DEF Owner, StartKeep, StartBuffer, StartAudio, StopKeep, JoinAudio, DeleteBuffer, ForgetBuffer, history
  <2>2. TypeOK'
    BY <1>1, <1>2, <2>1 DEF Owner, StartKeep, StartBuffer, StartAudio, StopKeep, JoinAudio, DeleteBuffer, ForgetBuffer, history, shared, TypeOK
  <2>3. Lives'
    BY <1>2 DEF Owner, StartKeep, StartBuffer, StartAudio, StopKeep, JoinAudio, DeleteBuffer, ForgetBuffer, shared, TypeOK, Lives
  <2>4. Lateness'
    <3>1. late' = late /\ m_isMicOpen' = m_isMicOpen /\ (tx' = tx \/ tx' = "opening")
      BY <1>2 DEF Owner, StartKeep, StartBuffer, StartAudio, StopKeep, JoinAudio, DeleteBuffer, ForgetBuffer, shared, history
    <3>. QED
      BY <3>1 DEF Lateness
  <2>. QED
    BY <1>1, <2>1, <2>2, <2>3, <2>4
<1>3. ASSUME NEW isOpen \in BOOLEAN, SetMic(isOpen) PROVE IInv'
  <2>1. UNCHANGED <<ring, packet, accepted, sent>>
    BY <1>3 DEF SetMic
  <2>2. /\ toggles' \in 0..MaxToggles /\ late' = 0
        /\ owner \in {"serving", "joining", "joined", "deleted"}
        /\ m_isMicOpen' \in BOOLEAN
        /\ UNCHANGED <<m_audioBuf, m_keepHeartbeat, owner, client, tx, packet,
                        answer, lost, pushed, accepted, sent>>
    <3>1. toggles \in 0..MaxToggles /\ MaxToggles \in Nat
      BY AudioAssumption DEF TypeOK
    <3>2. toggles < MaxToggles /\ toggles' = toggles + 1
      BY <1>3 DEF SetMic
    <3>3. toggles' \in 0..MaxToggles
      BY <3>1, <3>2
    <3>. QED
      BY <1>3, <3>3 DEF SetMic
  <2>3. TypeOK'
    BY <1>1, <2>1, <2>2 DEF TypeOK
  <2>4. Lives'
    BY <2>2 DEF Lives
  <2>5. Lateness'
    BY <2>2 DEF Lateness
  <2>. QED
    BY <1>1, <2>1, <2>3, <2>4, <2>5
<1>4. CASE Appear \/ Leave \/ PushTest \/ PushFreed \/ PushData
  <2>1. UNCHANGED <<ring, packet, accepted, sent>>
    BY <1>4 DEF Appear, Leave, PushTest, PushFreed, PushData, history
  <2>2. TypeOK'
    BY <1>1, <1>4, <2>1 DEF Appear, Leave, PushTest, PushFreed, PushData, history, shared, TypeOK
  <2>3. UNCHANGED <<shared, owner, tx, packet, late>>
    BY <1>4 DEF Appear, Leave, PushTest, PushFreed, PushData, history
  <2>4. Lives'
    BY <2>3 DEF Lives, shared
  <2>5. Lateness'
    BY <2>3 DEF Lateness, shared
  <2>. QED
    BY <1>1, <2>1, <2>2, <2>4, <2>5
<1>5. ASSUME NEW len \in 1..MaxLen, PushWrite(len) PROVE IInv'
  <2>. DEFINE data == [i \in 1..len |-> pushed + i]
              n == Least(len, Writable)
              added == SubSeq(data, 1, n)
  <2>1. pushed \in 0..MaxPushed /\ len \in Nat /\ pushed + len \in 0..MaxPushed /\ MaxLen \in Nat
    <3>1. pushed \in 0..MaxPushed /\ MaxPushed \in Nat /\ MaxLen \in Nat
      BY RingAssumption, AudioAssumption DEF TypeOK
    <3>2. pushed + len <= MaxPushed
      BY <1>5 DEF PushWrite
    <3>. QED
      BY <3>1, <3>2
  <2>2. data \in Seq(Bytes) /\ Len(data) = len
    <3>1. \A i \in 1..len : pushed + i \in Bytes
      BY <2>1, AudioAssumption
    <3>. QED
      BY <2>1, <3>1
  <2>3. Write(data) /\ accepted' = accepted \o added
    BY <1>5 DEF PushWrite
  <2>4. Writable \in Nat
    <3>1. m_tail \in Int /\ m_head \in Int /\ Capacity \in Nat \ {0}
      <4>1. RingTypeOK BY DEF TypeOK
      <4>. QED
        BY ONLY <4>1, RingAssumption DEF RingTypeOK, Places
    <3>2. \A x \in Int : x % Capacity \in Nat
      BY <3>1
    <3>. QED
      BY <3>1, <3>2 DEF Writable
  <2>5. n \in 0..len
    BY <2>1, <2>4 DEF Least
  <2>6. added \in Seq(Bytes)
    <3>1. \A i \in 1..n : data[i] \in Bytes
      <4>. HIDE DEF n
      <4>1. \A i \in 1..n : i \in 1..len
        BY <2>1, <2>5
      <4>. QED
        BY <2>2, <4>1
    <3>. HIDE DEF data
    <3>2. n \in Nat
      BY <2>1, <2>5
    <3>. QED
      BY <3>1, <3>2, SubSeqProperties
  <2>7. RingTypeOK' /\ Contents' = Contents \o added
    <3>1. RingTypeOK BY DEF TypeOK
    <3>. HIDE DEF data
    <3>. QED
      BY <2>2, <2>3, <3>1, WriteStaysInside, WriteAppends
  <2>8. /\ pushed' = pushed + len /\ lost' = len - n /\ client' = "pushed"
        /\ client = "writing"
        /\ UNCHANGED <<shared, owner, tx, packet, answer, sent, toggles, late>>
    BY <1>5 DEF PushWrite
  <2>. HIDE DEF added, n
  <2>9. accepted' \in Seq(Bytes)
    BY <2>3, <2>6, ConcatProperties DEF TypeOK
  <2>10. lost' \in 0..MaxLen
    BY <2>1, <2>5, <2>8
  <2>11. TypeOK'
    BY <2>1, <2>7, <2>8, <2>9, <2>10 DEF TypeOK, shared
  <2>12. StreamOrder'
    <3>1. Contents \in Seq(Bytes) BY ContentsAre DEF TypeOK, ContentsFacts
    <3>2. packet \in Seq(Bytes) /\ sent \in Seq(Bytes) BY DEF TypeOK
    <3>3. accepted = sent \o packet \o Contents BY DEF StreamOrder
    <3>4. sent \o packet \in Seq(Bytes) BY <3>2, ConcatProperties
    <3>5. (sent \o packet \o Contents) \o added = sent \o packet \o (Contents \o added)
      BY <2>6, <3>1, <3>4, ConcatAssociative
    <3>. QED
      BY <2>3, <2>7, <2>8, <3>3, <3>5 DEF StreamOrder
  <2>13. Lives' /\ Lateness'
    BY <2>8 DEF Lives, Lateness, shared, TypeOK
  <2>. QED
    BY <2>11, <2>12, <2>13
<1>6. CASE OpenSocket \/ TestKeep \/ TestMic
  <2>1. UNCHANGED <<ring, packet, accepted, sent>>
    BY <1>6 DEF OpenSocket, TestKeep, TestMic, history
  <2>2. TypeOK'
    BY <1>1, <1>6, <2>1 DEF OpenSocket, TestKeep, TestMic, history, shared, TypeOK
  <2>3. /\ tx \in {"opening", "testing", "asking"}
        /\ tx' \in {"testing", "asking", "reading", "done", "failed"}
        /\ tx' = "reading" => m_isMicOpen
        /\ UNCHANGED <<shared, owner, client, packet, late>>
    BY <1>6 DEF OpenSocket, TestKeep, TestMic, history
  <2>4. Lives'
    BY <2>3 DEF Lives, shared
  <2>5. Lateness'
    BY <2>3 DEF Lateness, shared
  <2>. QED
    BY <1>1, <2>1, <2>2, <2>4, <2>5
<1>7. CASE ReadChunk
  <2>1. /\ tx = "reading" /\ packet' = ReadOut(Chunk)
        /\ tx' \in {"testing", "sending"} /\ (tx' = "testing" => packet' = <<>>)
        /\ UNCHANGED <<shared, owner, client, history>>
    BY <1>7 DEF ReadChunk
  <2>2. /\ RingTypeOK' /\ packet' \in Seq(Bytes) /\ Contents' \in Seq(Bytes)
        /\ Contents = packet' \o Contents'
    <3>1. RingTypeOK /\ Read(Chunk) /\ Chunk \in Nat
      BY <1>7, AudioAssumption DEF TypeOK, ReadChunk
    <3>2. RingTypeOK' BY <3>1, ReadStaysInside
    <3>3. ContentsFacts' BY <3>2, ContentsAre, PTL
    <3>. QED
      BY <2>1, <3>1, <3>2, <3>3, ReadTakes DEF ContentsFacts
  <2>3. TypeOK'
    BY <2>1, <2>2 DEF TypeOK, shared, history
  <2>4. StreamOrder'
    <3>1. packet = <<>> /\ sent \in Seq(Bytes) BY <2>1 DEF TypeOK, Lives
    <3>2. sent \o packet = sent BY <3>1, ConcatEmptySeq
    <3>3. sent \o (packet' \o Contents') = sent \o packet' \o Contents'
      BY <2>2, <3>1, ConcatAssociative
    <3>. QED
      BY <2>1, <2>2, <3>2, <3>3 DEF StreamOrder, history
  <2>5. Lives' /\ Lateness'
    BY <2>1 DEF Lives, Lateness, shared, history
  <2>. QED
    BY <2>3, <2>4, <2>5
<1>8. CASE SendChunk
  <2>1. packet \in Seq(Bytes) /\ sent \in Seq(Bytes) /\ late \in Nat
    BY DEF TypeOK
  <2>2. /\ tx = "sending" /\ tx' = "testing" /\ sent' = sent \o packet /\ packet' = <<>>
        /\ late' = IF m_isMicOpen THEN 0 ELSE late + 1
        /\ UNCHANGED <<ring, shared, owner, client, answer, lost, pushed, accepted, toggles>>
    BY <1>8 DEF SendChunk
  <2>3. sent' \in Seq(Bytes) /\ sent' \o packet' = sent \o packet
    BY <2>1, <2>2, ConcatProperties, ConcatEmptySeq
  <2>4. TypeOK'
    <3>1. RingTypeOK'
      BY <2>2 DEF TypeOK, ring, RingTypeOK
    <3>2. packet' \in Seq(Bytes) /\ late' \in Nat
      BY <2>1, <2>2, EmptySeq
    <3>. QED
      BY <2>2, <2>3, <3>1, <3>2 DEF TypeOK, shared
  <2>5. StreamOrder'
    BY <2>2, <2>3 DEF StreamOrder, ring, Contents, Readable
  <2>6. Lives'
    BY <2>2 DEF Lives, shared
  <2>7. Lateness'
    BY <2>1, <2>2 DEF Lateness, shared
  <2>. QED
    BY <2>4, <2>5, <2>6, <2>7
<1>9. CASE UNCHANGED vars
  <2>1. TypeOK'
    BY <1>9, TypeKept
  <2>2. StreamOrder'
    BY <1>1, <1>9 DEF vars, history
  <2>3. Lives' /\ Lateness'
    BY <1>9 DEF vars, shared, history, Lives, Lateness
  <2>. QED
    BY <2>1, <2>2, <2>3
<1>10. CASE Rest
  BY <1>9, <1>10 DEF Rest
<1>. QED
  BY <1>2, <1>3, <1>4, <1>5, <1>6, <1>7, <1>8, <1>9, <1>10 DEF Next, Client, AudioTxLoop

LEMMA InvAlways == Spec => []IInv
BY InitInv, NextInv, PTL DEF Spec

-----------------------------------------------------------------------------
(* The results                                                             *)

(* What AudioTxLoop sends, with what it has in its hands and what is in the
   ring buffer, is what PushAudio could write, in that order: the client, the
   audio thread, the worker and the owner share the buffer without a lock and
   lose, double or reorder no byte. *)
THEOREM SpeechInOrder == Spec => []StreamOrder
<1>1. IInv => StreamOrder BY DEF IInv
<1>. QED
  BY <1>1, InvAlways, PTL

(* AudioTxLoop, which tests no pointer, never reads a ring buffer that Start has
   not made or Stop has deleted, though Stop may come at any of its steps and
   beside any push of the client: Start makes the buffer before the thread, and
   Stop joins the thread before it deletes the buffer. *)
THEOREM BufferOutlivesReads == Spec => []BufferAliveWhenRead
<1>1. IInv => BufferAliveWhenRead BY DEF IInv, Lives, BufferAliveWhenRead
<1>. QED
  BY <1>1, InvAlways, PTL

(* Of the datagrams that leave while the microphone is closed there is never
   more than one. *)
THEOREM MicEndsSpeech == Spec => []OneLateChunk
<1>1. IInv => OneLateChunk BY DEF IInv, Lateness, OneLateChunk
<1>. QED
  BY <1>1, InvAlways, PTL

-----------------------------------------------------------------------------
(* The byte buffer                                                         *)

\* What a byte of the memory may be, and the slice of m of n bytes behind the first p.
Cells == Bytes \cup {Memory!Junk}
Slice(m, p, n) == SubSeq(m, p + 1, p + n)

\* Memory, position and count that fit together, as the members of Buffer leave them.
Fits(m, p, n) ==
  m \in Seq(Cells) /\ Len(m) > 1 /\ p \in Nat /\ n \in 0..MaxSize /\ p + n <= Len(m)
Good(b) == Fits(b.mem, b.pos, b.count)
Held(b) == Slice(b.mem, b.pos, b.count)

BufferInv == Fits(mem, pos, count)

LEMMA SliceIs ==
  ASSUME NEW m \in Seq(Cells), NEW p \in Nat, NEW n \in Nat, p + n <= Len(m)
  PROVE  /\ Slice(m, p, n) \in Seq(Cells) /\ Len(Slice(m, p, n)) = n
         /\ \A k \in 1..n : Slice(m, p, n)[k] = m[p + k]
<1>1. Len(m) \in Nat /\ \A i \in (p + 1)..(p + n) : m[i] \in Cells
  BY ElementOfSeq
<1>2. PICK a, b : a = p + 1 /\ b = p + n
  OBVIOUS
<1>3. a \in Int /\ b \in Int /\ \A i \in a..b : m[i] \in Cells
  BY <1>1, <1>2
<1>4. /\ SubSeq(m, a, b) \in Seq(Cells)
      /\ Len(SubSeq(m, a, b)) = IF a <= b THEN (b - a) + 1 ELSE 0
      /\ \A i \in 1..((b - a) + 1) : SubSeq(m, a, b)[i] = m[(a + i) - 1]
  BY ONLY <1>3, SubSeqProperties
<1>5. Slice(m, p, n) = SubSeq(m, a, b)
  BY <1>2 DEF Slice
<1>6. (b - a) + 1 = n /\ (a <= b <=> n > 0)
  BY <1>2
<1>7. ASSUME NEW k \in 1..n PROVE Slice(m, p, n)[k] = m[p + k]
  <2>1. p \in Int /\ k \in Int /\ a = p + 1 BY <1>2
  <2>2. (a + k) - 1 = p + k BY ONLY <2>1
  <2> QED BY <2>2, <1>4, <1>5, <1>6
<1>8. Slice(m, p, n) \in Seq(Cells) BY <1>4, <1>5
<1>9. Len(Slice(m, p, n)) = n
  <2>1. Len(Slice(m, p, n)) = IF n > 0 THEN n ELSE 0 BY <1>4, <1>5, <1>6
  <2> QED BY <2>1
<1> QED BY <1>7, <1>8, <1>9

\* A sequence is a slice when its bytes are those of the memory.
LEMMA IsSlice ==
  ASSUME NEW m \in Seq(Cells), NEW p \in Nat, NEW n \in Nat, p + n <= Len(m),
         NEW s \in Seq(Cells), Len(s) = n, \A k \in 1..n : s[k] = m[p + k]
  PROVE  s = Slice(m, p, n)
<1>1. PICK t : t = Slice(m, p, n)
  OBVIOUS
<1>2. t \in Seq(Cells) /\ Len(t) = n /\ \A k \in 1..n : t[k] = m[p + k]
  BY <1>1, SliceIs
<1>3. Len(s) = Len(t) /\ \A k \in 1..Len(s) : s[k] = t[k]
  BY <1>2
<1>4. s = t
  BY ONLY <1>2, <1>3, SeqEqual, s \in Seq(Cells)
<1> QED BY <1>1, <1>4

\* Slices of a slice: its front and its back.
LEMMA SliceOfSlice ==
  ASSUME NEW m \in Seq(Cells), NEW p \in Nat, NEW n \in Nat, p + n <= Len(m),
         NEW q \in Nat, NEW l \in Nat, q + l <= n
  PROVE  Slice(Slice(m, p, n), q, l) = Slice(m, p + q, l)
<1>1. PICK s : s = Slice(m, p, n)
  OBVIOUS
<1>2. s \in Seq(Cells) /\ Len(s) = n /\ \A k \in 1..n : s[k] = m[p + k]
  BY <1>1, SliceIs
<1>3. PICK t : t = Slice(s, q, l)
  OBVIOUS
<1>4. t \in Seq(Cells) /\ Len(t) = l /\ \A k \in 1..l : t[k] = s[q + k]
  BY <1>2, <1>3, SliceIs
<1>5. \A k \in 1..l : t[k] = m[(p + q) + k]
  <2> SUFFICES ASSUME NEW k \in 1..l PROVE t[k] = m[(p + q) + k]
    OBVIOUS
  <2>1. q + k \in 1..n /\ p + (q + k) = (p + q) + k
    OBVIOUS
  <2> QED BY <2>1, <1>2, <1>4
<1>6. (p + q) \in Nat /\ (p + q) + l <= Len(m)
  OBVIOUS
<1>7. PICK r : r = p + q
  OBVIOUS
<1>8. t = Slice(m, r, l)
  <2>1. r \in Nat /\ r + l <= Len(m) /\ \A k \in 1..l : t[k] = m[r + k] BY <1>5, <1>6, <1>7
  <2> QED BY ONLY <2>1, <1>4, IsSlice, m \in Seq(Cells), l \in Nat
<1> QED BY <1>1, <1>3, <1>7, <1>8

LEMMA LaidIs ==
  ASSUME NEW m \in Seq(Cells), NEW n \in Nat, NEW bs \in Seq(Cells), n + Len(bs) <= Len(m)
  PROVE  /\ Memory!Laid(m, n, bs) \in Seq(Cells) /\ Len(Memory!Laid(m, n, bs)) = Len(m)
         /\ \A k \in 1..Len(m) :
              Memory!Laid(m, n, bs)[k] = IF k \in (n + 1)..(n + Len(bs)) THEN bs[k - n] ELSE m[k]
<1>1. PICK l, d : l = Len(m) /\ d = Len(bs)
  OBVIOUS
<1>2. l \in Nat /\ d \in Nat /\ n + d <= l /\ (\A k \in 1..l : m[k] \in Cells) /\ \A k \in 1..d : bs[k] \in Cells
  BY <1>1, ElementOfSeq
<1>3. PICK x : x = Memory!Laid(m, n, bs)
  OBVIOUS
<1>4. x = [k \in 1..l |-> IF k \in (n + 1)..(n + d) THEN bs[k - n] ELSE m[k]]
  BY <1>1, <1>3 DEF Memory!Laid
<1>5. \A k \in 1..l : k \in (n + 1)..(n + d) => k - n \in 1..d
  BY <1>2
<1>6. x \in [1..l -> Cells]
  BY <1>2, <1>4, <1>5
<1>7. x \in Seq(Cells) /\ Len(x) = l
  BY ONLY <1>2, <1>6
<1> QED BY <1>1, <1>3, <1>4, <1>7

LEMMA RaisedIs ==
  ASSUME NEW s \in Nat
  PROVE  Memory!Raised(s) \in Nat /\ Memory!Raised(s) > s /\ Memory!Raised(s) > 1
<1>1. s % 4 \in 0..3 /\ s % 4 <= s
  OBVIOUS
<1> QED BY <1>1 DEF Memory!Raised

LEMMA JunksIs ==
  ASSUME NEW n \in Nat
  PROVE  Memory!Junks(n) \in Seq(Cells) /\ Len(Memory!Junks(n)) = n
<1>1. Memory!Junks(n) \in [1..n -> Cells]
  BY DEF Memory!Junks, Cells
<1> QED BY ONLY <1>1, n \in Nat

\* Become() keeps what the members left.
LEMMA BecomeIs ==
  ASSUME NEW b, Good(b), Memory!Become(b)
  PROVE  BufferInv' /\ Memory!Content' = Held(b) /\ count' = b.count
<1>1. PICK m, p, n : m = b.mem /\ p = b.pos /\ n = b.count
  OBVIOUS
<1>2. /\ m \in Seq(Cells) /\ Len(m) > 1 /\ p \in Nat /\ n \in 0..MaxSize /\ p + n <= Len(m)
      /\ Len(m) \in Nat /\ n \in Nat
  BY <1>1, BufferAssumption DEF Good, Fits
<1>3. PICK l : l = Len(m)
  OBVIOUS
<1>4. PICK x : x = [k \in 1..l |-> IF k \in (p + 1)..(p + n) THEN m[k] ELSE Memory!Junk]
  OBVIOUS
<1>5. mem' = x /\ pos' = p /\ count' = n
  BY <1>1, <1>3, <1>4 DEF Memory!Become
<1>6. \A k \in 1..l : m[k] \in Cells
  BY <1>2, <1>3, ElementOfSeq
<1>7. x \in [1..l -> Cells] /\ l \in Nat
  BY <1>2, <1>3, <1>4, <1>6 DEF Cells
<1>8. x \in Seq(Cells) /\ Len(x) = l
  BY ONLY <1>7
<1>9. BufferInv'
  BY <1>2, <1>3, <1>5, <1>8 DEF BufferInv, Fits
<1>10. Slice(x, p, n) = Slice(m, p, n)
  <2>1. PICK s : s = Slice(x, p, n)
    OBVIOUS
  <2>2. s \in Seq(Cells) /\ Len(s) = n /\ \A k \in 1..n : s[k] = x[p + k]
    <3>1. p \in Nat /\ n \in Nat /\ x \in Seq(Cells) /\ p + n <= Len(x)
      BY <1>2, <1>3, <1>8
    <3> QED BY ONLY <3>1, <2>1, SliceIs
  <2>3. \A k \in 1..n : p + k \in 1..l /\ p + k \in (p + 1)..(p + n)
    BY <1>2, <1>3
  <2>4. \A k \in 1..n : s[k] = m[p + k]
    BY <2>2, <2>3, <1>4
  <2> QED BY <2>1, <2>2, <2>4, <1>2, IsSlice
<1>11. Memory!Content' = Slice(x, p, n) /\ Held(b) = Slice(m, p, n)
  BY <1>1, <1>5 DEF Memory!Content, Held, Slice
<1> QED BY <1>1, <1>5, <1>9, <1>10, <1>11

\* The buffer as it stands.
LEMMA NowIs ==
  ASSUME BufferInv
  PROVE  /\ Good(Memory!Now) /\ Held(Memory!Now) = Memory!Content
         /\ Memory!Now.mem = mem /\ Memory!Now.pos = pos /\ Memory!Now.count = count
         /\ Memory!Content = Slice(mem, pos, count)
         /\ Memory!Content \in Seq(Cells) /\ Len(Memory!Content) = count
<1>1. Memory!Now.mem = mem /\ Memory!Now.pos = pos /\ Memory!Now.count = count
  BY DEF Memory!Now
<1>2. Memory!Content = Slice(mem, pos, count)
  BY DEF Memory!Content, Slice
<1>3. mem \in Seq(Cells) /\ pos \in Nat /\ count \in Nat /\ pos + count <= Len(mem)
  BY BufferAssumption DEF BufferInv, Fits
<1>4. Good(Memory!Now) /\ Held(Memory!Now) = Memory!Content
  BY <1>1, <1>2 DEF Good, Held, BufferInv
<1>5. Slice(mem, pos, count) \in Seq(Cells) /\ Len(Slice(mem, pos, count)) = count
  BY <1>3, SliceIs
<1> QED BY <1>1, <1>2, <1>4, <1>5

\* A memory with the first c bytes of the content at its front holds those.
LEMMA CopiedIs ==
  ASSUME BufferInv, NEW m \in Seq(Cells), NEW c \in 0..count, Len(m) > 1, c <= Len(m),
         NEW b, b = [mem |-> Memory!Laid(m, 0, Slice(mem, pos, c)), pos |-> 0, count |-> c]
  PROVE  Good(b) /\ Held(b) = Slice(mem, pos, c) /\ Len(b.mem) = Len(m)
<1>1. mem \in Seq(Cells) /\ pos \in Nat /\ count \in 0..MaxSize /\ pos + count <= Len(mem) /\ MaxSize \in Nat /\ Len(mem) \in Nat
  BY BufferAssumption DEF BufferInv, Fits
<1>2. PICK bs : bs = Slice(mem, pos, c)
  OBVIOUS
<1>3. c \in Nat /\ pos + c <= Len(mem)
  BY <1>1
<1>4. bs \in Seq(Cells) /\ Len(bs) = c
  BY <1>1, <1>2, <1>3, SliceIs
<1>5. PICK x : x = Memory!Laid(m, 0, bs)
  OBVIOUS
<1>6. 0 + Len(bs) <= Len(m) /\ Len(m) \in Nat
  BY <1>4
<1>7. /\ x \in Seq(Cells) /\ Len(x) = Len(m)
      /\ \A k \in 1..Len(m) : x[k] = IF k \in (0 + 1)..(0 + Len(bs)) THEN bs[k - 0] ELSE m[k]
  BY <1>4, <1>5, <1>6, LaidIs
<1>8. \A k \in 1..c : bs[k] = x[0 + k]
  BY <1>3, <1>4, <1>6, <1>7
<1>9. 0 + c <= Len(x) /\ c \in 0..MaxSize
  BY <1>1, <1>7
<1>10. bs = Slice(x, 0, c)
  BY <1>3, <1>4, <1>7, <1>8, <1>9, IsSlice
<1>11. b.mem = x /\ b.pos = 0 /\ b.count = c
  BY <1>2, <1>5
<1>12. Good(b)
  BY <1>7, <1>9, <1>11 DEF Good, Fits
<1>13. Held(b) = bs
  BY <1>10, <1>11 DEF Held
<1> QED BY <1>2, <1>7, <1>11, <1>12, <1>13

\* recapacity() keeps the first bytes of the content.
LEMMA RecapacitatedIs ==
  ASSUME BufferInv, NEW s \in Nat, s > 1,
         NEW c, c = IF s > count THEN count ELSE s
  PROVE  LET b == Memory!Recapacitated(s)
         IN  Good(b) /\ Held(b) = Slice(mem, pos, c) /\ b.pos = 0 /\ b.count = c /\ Len(b.mem) > s
<1>1. count \in 0..MaxSize /\ MaxSize \in Nat
  BY BufferAssumption DEF BufferInv, Fits
<1>2. PICK m : m = Memory!Junks(Memory!Raised(s))
  OBVIOUS
<1>3. m \in Seq(Cells) /\ Len(m) > s
  BY <1>2, RaisedIs, JunksIs
<1>4. c \in 0..count /\ c <= Len(m) /\ Len(m) > 1
  BY <1>1, <1>3
<1>5. PICK b : b = [mem |-> Memory!Laid(m, 0, Slice(mem, pos, c)), pos |-> 0, count |-> c]
  OBVIOUS
<1>6. Memory!Recapacitated(s) = b
  <2>1. ~(s <= 1) OBVIOUS
  <2> QED BY <2>1, <1>2, <1>5 DEF Memory!Recapacitated, Slice
<1>7. Good(b) /\ Held(b) = Slice(mem, pos, c) /\ Len(b.mem) = Len(m)
  BY <1>3, <1>4, <1>5, CopiedIs
<1> QED BY <1>3, <1>5, <1>6, <1>7

\* reserve() makes room for cnt bytes behind the content, and keeps the content.
LEMMA ReservedIs ==
  ASSUME BufferInv, NEW cnt \in 0..MaxSize
  PROVE  LET b == Memory!Reserved(cnt)
         IN  /\ Good(b) /\ Held(b) = Memory!Content /\ b.count = count
             /\ (b.pos + count) + cnt <= Len(b.mem)
<1>1. /\ mem \in Seq(Cells) /\ pos \in Nat /\ count \in 0..MaxSize /\ pos + count <= Len(mem)
      /\ MaxSize \in Nat /\ Len(mem) \in Nat /\ Len(mem) > 1
  BY BufferAssumption DEF BufferInv, Fits
<1>2. PICK behind : behind = (Len(mem) - pos) - count
  OBVIOUS
<1>3. behind \in Nat /\ (pos + count) + behind = Len(mem)
  BY <1>1, <1>2
<1>4. PICK b : b = Memory!Reserved(cnt)
  OBVIOUS
<1>5. Memory!Content = Slice(mem, pos, count)
  BY DEF Memory!Content, Slice
<1>6. b = CASE behind >= cnt -> Memory!Now
            [] behind < cnt /\ pos + behind >= cnt ->
                 IF count = 0 THEN [Memory!Now EXCEPT !.pos = 0]
                 ELSE IF pos >= count THEN [Memory!Now EXCEPT !.mem = Memory!Laid(mem, 0, Memory!Content), !.pos = 0]
                 ELSE Memory!Recapacitated(cnt + count * 2)
            [] OTHER -> Memory!Recapacitated(cnt + count * 2)
  <2>1. (Memory!Allocated - pos) - count = behind
    BY <1>2 DEF Memory!Allocated
  <2> QED BY <2>1, <1>4 DEF Memory!Reserved
<1>7. PICK s : s = cnt + count * 2
  OBVIOUS
<1>8. CASE behind >= cnt
  <2>1. b = Memory!Now BY <1>1, <1>3, <1>6, <1>8
  <2> QED BY <2>1, <1>1, <1>3, <1>4, <1>8, NowIs
<1>9. CASE /\ behind < cnt /\ pos + behind >= cnt /\ count = 0
  <2>1. b = [Memory!Now EXCEPT !.pos = 0]
    BY <1>6, <1>9, <1>1, <1>3
  <2>2. b.mem = mem /\ b.pos = 0 /\ b.count = 0
    BY <2>1, <1>9 DEF Memory!Now
  <2>3. Good(b) BY <2>2, <1>1 DEF Good, Fits
  <2>4. Slice(mem, 0, 0) = <<>> /\ Slice(mem, pos, 0) = <<>>
    <3>1. Len(Slice(mem, 0, 0)) = 0 /\ Len(Slice(mem, pos, 0)) = 0
          /\ Slice(mem, 0, 0) \in Seq(Cells) /\ Slice(mem, pos, 0) \in Seq(Cells)
      <4>1. 0 \in Nat /\ 0 + 0 <= Len(mem) /\ pos + 0 <= Len(mem)
        BY <1>1
      <4> QED BY <4>1, <1>1, SliceIs
    <3> QED BY <3>1, EmptySeq
  <2>5. Held(b) = Memory!Content BY <2>2, <2>4, <1>5, <1>9 DEF Held
  <2>6. (b.pos + count) + cnt <= Len(b.mem) BY <2>2, <1>1, <1>3, <1>9
  <2> QED BY <2>2, <2>3, <2>5, <2>6, <1>4, <1>9
<1>10. CASE behind < cnt /\ pos + behind >= cnt /\ count # 0 /\ pos >= count
  <2>1. b = [Memory!Now EXCEPT !.mem = Memory!Laid(mem, 0, Memory!Content), !.pos = 0]
    BY <1>6, <1>10, <1>1, <1>3
  <2>2. b = [mem |-> Memory!Laid(mem, 0, Slice(mem, pos, count)), pos |-> 0, count |-> count]
    BY <2>1, <1>5 DEF Memory!Now
  <2>3. count \in 0..count /\ count <= Len(mem)
    BY <1>1
  <2>4. Good(b) /\ Held(b) = Slice(mem, pos, count) /\ Len(b.mem) = Len(mem)
    BY <1>1, <2>2, <2>3, CopiedIs
  <2>5. (b.pos + count) + cnt <= Len(b.mem)
    <3>1. b.pos = 0 BY <2>2
    <3> QED BY <3>1, <2>4, <1>1, <1>3, <1>10
  <2> QED BY <2>2, <2>4, <2>5, <1>4, <1>5
<1>11. CASE behind < cnt /\ (pos + behind < cnt \/ (count # 0 /\ pos < count))
  <2>1. b = Memory!Recapacitated(s)
    BY <1>6, <1>7, <1>11, <1>1, <1>3
  <2>2. s \in Nat /\ s > 1 /\ count = (IF s > count THEN count ELSE s) /\ s >= count + cnt
    BY <1>1, <1>3, <1>7, <1>11
  <2>3. Good(b) /\ Held(b) = Slice(mem, pos, count) /\ b.pos = 0 /\ b.count = count /\ Len(b.mem) > s
    BY <2>1, <2>2, RecapacitatedIs
  <2>4. (b.pos + count) + cnt <= Len(b.mem)
    <3>1. Len(b.mem) \in Nat BY <2>3 DEF Good, Fits
    <3> QED BY <3>1, <2>2, <2>3, <1>1
  <2> QED BY <2>3, <2>4, <1>4, <1>5
<1>12. cnt \in Nat
  BY <1>1
<1> QED BY <1>1, <1>3, <1>12, <1>8, <1>9, <1>10, <1>11

-----------------------------------------------------------------------------
(* Every operation of a Buffer is one of a deque: what is removed goes from   *)
(* an end, what is added comes behind the rest.                               *)

DequeStep == Memory!Deque!Next \/ UNCHANGED Memory!Content

\* The first n bytes, and what is behind them.
LEMMA FrontAndBack ==
  ASSUME BufferInv, NEW n \in 0..count
  PROVE  /\ Slice(mem, pos, n) = SubSeq(Memory!Content, 1, n)
         /\ Slice(mem, pos + n, count - n) = SubSeq(Memory!Content, n + 1, count)
<1>1. mem \in Seq(Cells) /\ pos \in Nat /\ count \in Nat /\ pos + count <= Len(mem)
  BY BufferAssumption DEF BufferInv, Fits
<1>2. n \in Nat /\ n <= count
  BY <1>1
<1>3. PICK r : r = count - n
  OBVIOUS
<1>4. r \in Nat /\ n + r = count /\ 0 + n <= count /\ 0 \in Nat
  BY <1>1, <1>2, <1>3
<1>5. Memory!Content = Slice(mem, pos, count)
  BY DEF Memory!Content, Slice
<1>6. Slice(Memory!Content, 0, n) = Slice(mem, pos + 0, n)
  BY <1>1, <1>2, <1>4, <1>5, SliceOfSlice
<1>7. Slice(Memory!Content, n, r) = Slice(mem, pos + n, r)
  BY <1>1, <1>2, <1>4, <1>5, SliceOfSlice
<1>8. pos + 0 = pos /\ 0 + n = n /\ 0 + 1 = 1
  BY <1>1, <1>2
<1>9. Slice(mem, pos, n) = SubSeq(Memory!Content, 1, n)
  BY <1>6, <1>8 DEF Slice
<1>10. Slice(mem, pos + n, r) = SubSeq(Memory!Content, n + 1, count)
  BY <1>4, <1>7 DEF Slice
<1> QED BY <1>3, <1>9, <1>10

\* Members that leave the first n bytes, and those that leave all but the first n.
LEMMA LeavesFront ==
  ASSUME BufferInv, NEW b, Good(b), Memory!Become(b), NEW n \in 0..count,
         Held(b) = Slice(mem, pos, n)
  PROVE  BufferInv' /\ DequeStep
<1>1. BufferInv' /\ Memory!Content' = Slice(mem, pos, n)
  BY BecomeIs
<1>2. Len(Memory!Content) = count /\ count \in Nat
  BY NowIs, BufferAssumption DEF BufferInv, Fits
<1>3. PICK k : k = count - n
  OBVIOUS
<1>4. k \in 0..Len(Memory!Content) /\ Len(Memory!Content) - k = n
  BY <1>2, <1>3
<1>5. Memory!Content' = SubSeq(Memory!Content, 1, Len(Memory!Content) - k)
  BY <1>1, <1>4, FrontAndBack
<1>6. Memory!Deque!PopBack
  BY <1>4, <1>5 DEF Memory!Deque!PopBack
<1> QED BY <1>1, <1>6 DEF DequeStep, Memory!Deque!Next

LEMMA LeavesBack ==
  ASSUME BufferInv, NEW b, Good(b), Memory!Become(b), NEW n \in 0..count,
         Held(b) = Slice(mem, pos + n, count - n)
  PROVE  BufferInv' /\ DequeStep
<1>1. BufferInv' /\ Memory!Content' = Slice(mem, pos + n, count - n)
  BY BecomeIs
<1>2. Len(Memory!Content) = count
  BY NowIs
<1>3. n \in 0..Len(Memory!Content) /\ Memory!Content' = SubSeq(Memory!Content, n + 1, Len(Memory!Content))
  BY <1>1, <1>2, FrontAndBack
<1>4. Memory!Deque!PopFront
  BY <1>3 DEF Memory!Deque!PopFront
<1> QED BY <1>1, <1>4 DEF DequeStep, Memory!Deque!Next

\* Only the position or the count is assigned.
LEMMA MovedIs ==
  ASSUME BufferInv, NEW p \in Nat, NEW n \in 0..count, p + n <= Len(mem), NEW b,
         b.mem = mem, b.pos = p, b.count = n
  PROVE  Good(b) /\ Held(b) = Slice(mem, p, n)
<1>1. n \in 0..MaxSize
  BY BufferAssumption DEF BufferInv, Fits
<1> QED BY <1>1 DEF Good, Held, BufferInv, Fits

\* The empty slice is the same everywhere.
LEMMA EmptyIs ==
  ASSUME BufferInv, NEW p \in Nat, p <= Len(mem)
  PROVE  Slice(mem, p, 0) = <<>>
<1>1. mem \in Seq(Cells) /\ 0 \in Nat /\ p + 0 <= Len(mem)
  BY DEF BufferInv, Fits
<1>2. PICK s : s = Slice(mem, p, 0)
  OBVIOUS
<1>3. s \in Seq(Cells) /\ Len(s) = 0
  BY <1>1, <1>2, SliceIs
<1>4. s = <<>>
  BY <1>3, EmptySeq
<1> QED BY <1>2, <1>4

LEMMA BufferNumbers ==
  ASSUME BufferInv
  PROVE  /\ MaxSize \in Nat /\ pos \in Nat /\ count \in Nat /\ count <= MaxSize
         /\ mem \in Seq(Cells) /\ Len(mem) \in Nat /\ pos + count <= Len(mem)
BY BufferAssumption DEF BufferInv, Fits

\* clear(), and a pop of all that is left.
LEMMA EmptiedIs ==
  ASSUME BufferInv, NEW b, b = [Memory!Now EXCEPT !.pos = 0, !.count = 0], Memory!Become(b)
  PROVE  BufferInv' /\ DequeStep
<1>1. b.mem = mem /\ b.pos = 0 /\ b.count = 0
  BY DEF Memory!Now
<1>2. 0 \in Nat /\ 0 \in 0..count /\ 0 + 0 <= Len(mem) /\ 0 <= Len(mem) /\ pos <= Len(mem)
  BY BufferNumbers
<1>3. Good(b) /\ Held(b) = Slice(mem, 0, 0)
  BY <1>1, <1>2, MovedIs
<1>4. Slice(mem, 0, 0) = Slice(mem, pos, 0)
  BY <1>2, EmptyIs, BufferNumbers
<1> QED BY <1>2, <1>3, <1>4, LeavesFront

\* reserve() gives a record of the three members.
LEMMA ReservedRecord ==
  ASSUME NEW cnt, NEW b, b = Memory!Reserved(cnt)
  PROVE  b = [mem |-> b.mem, pos |-> b.pos, count |-> b.count]
<1> DEFINE Whole(r) == \E m, p, n : r = [mem |-> m, pos |-> p, count |-> n]
<1>1. Whole(Memory!Now) /\ Whole([Memory!Now EXCEPT !.pos = 0])
  <2>1. /\ Memory!Now = [mem |-> mem, pos |-> pos, count |-> count]
        /\ [Memory!Now EXCEPT !.pos = 0] = [mem |-> mem, pos |-> 0, count |-> count]
    BY DEF Memory!Now
  <2> QED BY ONLY <2>1
<1>2. Whole([Memory!Now EXCEPT !.mem = Memory!Laid(mem, 0, Memory!Content), !.pos = 0])
  <2>1. PICK r : r = [Memory!Now EXCEPT !.mem = Memory!Laid(mem, 0, Memory!Content), !.pos = 0]
    OBVIOUS
  <2>2. r = [mem |-> Memory!Laid(mem, 0, Memory!Content), pos |-> 0, count |-> count]
    BY <2>1 DEF Memory!Now
  <2> QED BY <2>1, <2>2
<1>3. ASSUME NEW s PROVE Whole(Memory!Recapacitated(s))
  BY <1>1 DEF Memory!Recapacitated
<1>4. Whole(b)
  <2> HIDE DEF Whole
  <2> QED BY <1>1, <1>2, <1>3 DEF Memory!Reserved
<1>5. PICK m, p, n : b = [mem |-> m, pos |-> p, count |-> n]
  BY <1>4
<1> QED BY ONLY <1>5

LEMMA RecapacitySteps == BufferInv /\ Memory!Recapacity => BufferInv' /\ DequeStep
<1> SUFFICES ASSUME BufferInv, Memory!Recapacity PROVE BufferInv' /\ DequeStep
  OBVIOUS
<1>1. PICK s \in 0..(MaxSize + 1) : Memory!Become(Memory!Recapacitated(s))
  BY DEF Memory!Recapacity
<1>2. CASE s <= 1
  <2>1. Memory!Recapacitated(s) = Memory!Now BY <1>2 DEF Memory!Recapacitated
  <2>2. count \in 0..count BY BufferNumbers
  <2> QED BY <2>1, <2>2, <1>1, NowIs, LeavesFront
<1>3. CASE ~(s <= 1)
  <2>1. PICK c : c = IF s > count THEN count ELSE s OBVIOUS
  <2>2. s \in Nat /\ s > 1 /\ c \in 0..count BY <1>3, <2>1, BufferNumbers
  <2> QED BY <2>1, <2>2, <1>1, RecapacitatedIs, LeavesFront
<1> QED BY <1>2, <1>3

LEMMA ReserveSteps == BufferInv /\ Memory!Reserve => BufferInv' /\ DequeStep
<1> SUFFICES ASSUME BufferInv, Memory!Reserve PROVE BufferInv' /\ DequeStep
  OBVIOUS
<1>1. PICK cnt \in 0..MaxSize : Memory!Become(Memory!Reserved(cnt))
  BY DEF Memory!Reserve
<1>2. Held(Memory!Reserved(cnt)) = Slice(mem, pos, count) /\ Good(Memory!Reserved(cnt))
  BY ReservedIs, NowIs
<1>3. count \in 0..count BY BufferNumbers
<1> QED BY <1>1, <1>2, <1>3, LeavesFront

LEMMA ResizeSteps == BufferInv /\ Memory!Resize => BufferInv' /\ DequeStep
<1> SUFFICES ASSUME BufferInv, Memory!Resize PROVE BufferInv' /\ DequeStep
  OBVIOUS
<1>1. PICK s \in 0..MaxSize :
        Memory!Become([(IF count < s THEN Memory!Reserved(s - count) ELSE Memory!Now) EXCEPT !.count = s])
  BY DEF Memory!Resize
<1>2. PICK r : r = IF count < s THEN Memory!Reserved(s - count) ELSE Memory!Now
  OBVIOUS
<1>3. PICK b : b = [r EXCEPT !.count = s]
  OBVIOUS
<1>4. Memory!Become(b)
  BY <1>1, <1>2, <1>3
<1>5. s \in Nat
  BY BufferNumbers
<1>6. CASE count < s
  <2>1. PICK k : k = s - count OBVIOUS
  <2>2. k \in 1..(MaxSize - count) /\ k \in 0..MaxSize /\ count + k = s
    BY <1>5, <1>6, <2>1, BufferNumbers
  <2>3. r = Memory!Reserved(k) BY <1>2, <1>6, <2>1
  <2>4. Good(r) /\ Held(r) = Memory!Content /\ r.count = count /\ (r.pos + count) + k <= Len(r.mem)
    BY <2>2, <2>3, ReservedIs
  <2>5. PICK m, p : m = r.mem /\ p = r.pos OBVIOUS
  <2>6. m \in Seq(Cells) /\ Len(m) > 1 /\ p \in Nat /\ Len(m) \in Nat /\ p + s <= Len(m)
    BY <2>2, <2>4, <2>5, BufferNumbers DEF Good, Fits
  <2>7. b.mem = m /\ b.pos = p /\ b.count = s
    <3>1. r \in [mem : {m}, pos : {p}, count : {count}]
      <4>1. Memory!Reserved(k) = [mem |-> m, pos |-> p, count |-> count]
        BY <2>2, <2>3, <2>4, <2>5, ReservedRecord
      <4> QED BY <4>1, <2>3
    <3> QED BY ONLY <3>1, <1>3
  <2>8. Good(b) BY <2>6, <2>7, <1>5 DEF Good, Fits
  <2>9. BufferInv' /\ Memory!Content' = Slice(m, p, s)
    BY <2>7, <2>8, <1>4, BecomeIs DEF Held
  <2>10. Memory!Content = Slice(m, p, count)
    BY <2>4, <2>5 DEF Held
  <2>11. PICK new : new = Slice(m, p, s) OBVIOUS
  <2>12. Len(new) = s
    BY <2>6, <2>11, <1>5, SliceIs
  <2>13. Slice(new, 0, count) = Slice(m, p + 0, count)
    <3>1. 0 \in Nat /\ 0 + count <= s /\ count \in Nat BY <1>6, <1>5, BufferNumbers
    <3> QED BY <3>1, <2>6, <2>11, <1>5, SliceOfSlice
  <2>14. p + 0 = p /\ 0 + 1 = 1 /\ 0 + count = count BY <2>6, BufferNumbers
  <2>15. SubSeq(new, 1, count) = Memory!Content
    BY <2>10, <2>13, <2>14 DEF Slice
  <2>16. Len(Memory!Content) = count BY NowIs
  <2>17. Memory!Content' = new BY <2>9, <2>11
  <2>18. Memory!Deque!Grow
    <3>1. k \in 1..(MaxSize - Len(Memory!Content)) BY <2>2, <2>16
    <3>2. Len(Memory!Content') = Len(Memory!Content) + k BY <2>2, <2>12, <2>16, <2>17
    <3>3. SubSeq(Memory!Content', 1, Len(Memory!Content)) = Memory!Content BY <2>15, <2>16, <2>17
    <3> QED BY <3>1, <3>2, <3>3 DEF Memory!Deque!Grow
  <2> QED BY <2>9, <2>18 DEF DequeStep, Memory!Deque!Next
<1>7. CASE ~(count < s)
  <2>1. b = [Memory!Now EXCEPT !.count = s] BY <1>2, <1>3, <1>7
  <2>2. b.mem = mem /\ b.pos = pos /\ b.count = s BY <2>1 DEF Memory!Now
  <2>3. s \in 0..count /\ pos + s <= Len(mem) BY <1>5, <1>7, BufferNumbers
  <2>4. Good(b) /\ Held(b) = Slice(mem, pos, s) BY <2>2, <2>3, MovedIs, BufferNumbers
  <2> QED BY <2>3, <2>4, <1>4, LeavesFront
<1> QED BY <1>6, <1>7

LEMMA ClearSteps == BufferInv /\ Memory!Clear => BufferInv' /\ DequeStep
<1> SUFFICES ASSUME BufferInv, Memory!Clear PROVE BufferInv' /\ DequeStep
  OBVIOUS
<1>1. PICK b : b = [Memory!Now EXCEPT !.pos = 0, !.count = 0]
  OBVIOUS
<1>2. Memory!Become(b)
  BY <1>1 DEF Memory!Clear
<1> QED BY <1>1, <1>2, EmptiedIs

LEMMA PushBackSteps == BufferInv /\ Memory!PushBack => BufferInv' /\ DequeStep
<1> SUFFICES ASSUME BufferInv, Memory!PushBack PROVE BufferInv' /\ DequeStep
  OBVIOUS
<1> DEFINE Pushed(r, k, bs) == [r EXCEPT !.mem = Memory!Laid(r.mem, r.pos + r.count, bs), !.count = r.count + k]
<1>0. PICK k \in 1..(MaxSize - count) :
        \E bs \in [1..k -> Bytes] : Memory!Become(Pushed(Memory!Reserved(k), k, bs))
  BY DEF Memory!PushBack
<1>1. PICK bs \in [1..k -> Bytes] : Memory!Become(Pushed(Memory!Reserved(k), k, bs))
  BY <1>0
<1>2. k \in Nat /\ k \in 0..MaxSize /\ count + k <= MaxSize /\ count \in Nat /\ MaxSize \in Nat
  BY BufferNumbers
<1>3. PICK r : r = Memory!Reserved(k)
  OBVIOUS
<1>4. Good(r) /\ Held(r) = Memory!Content /\ r.count = count /\ (r.pos + count) + k <= Len(r.mem)
  BY <1>2, <1>3, ReservedIs
<1>5. PICK m, p : m = r.mem /\ p = r.pos
  OBVIOUS
<1>6. m \in Seq(Cells) /\ Len(m) > 1 /\ p \in Nat /\ Len(m) \in Nat /\ (p + count) + k <= Len(m)
  BY <1>4, <1>5 DEF Good, Fits
<1>7. PICK n, c, x : n = p + count /\ c = count + k /\ x = Memory!Laid(m, n, bs)
  OBVIOUS
<1>8. n \in Nat /\ c \in 0..MaxSize /\ c \in Nat /\ p + c <= Len(m) /\ n + k <= Len(m) /\ p + c = n + k
  BY <1>2, <1>6, <1>7
<1>9. bs \in [1..k -> Cells]
  BY DEF Cells
<1>10. bs \in Seq(Cells) /\ Len(bs) = k
  BY ONLY <1>2, <1>9
<1>11. /\ x \in Seq(Cells) /\ Len(x) = Len(m)
       /\ \A i \in 1..Len(m) : x[i] = IF i \in (n + 1)..(n + k) THEN bs[i - n] ELSE m[i]
  <2>1. n + Len(bs) <= Len(m) BY <1>8, <1>10
  <2>2. x = Memory!Laid(m, n, bs) BY <1>7
  <2>3. /\ x \in Seq(Cells) /\ Len(x) = Len(m)
        /\ \A i \in 1..Len(m) : x[i] = IF i \in (n + 1)..(n + Len(bs)) THEN bs[i - n] ELSE m[i]
    BY <2>1, <2>2, <1>6, <1>8, <1>10, LaidIs
  <2> QED BY ONLY <2>3, <1>10
<1>12. PICK b : b = [r EXCEPT !.mem = x, !.count = c]
  OBVIOUS
<1>13. Memory!Become(b)
  BY <1>1, <1>3, <1>4, <1>5, <1>7, <1>12
<1>14. b.mem = x /\ b.pos = p /\ b.count = c
  <2>1. r = [mem |-> m, pos |-> p, count |-> count]
    BY <1>2, <1>3, <1>4, <1>5, ReservedRecord
  <2> QED BY ONLY <2>1, <1>12
<1>15. Good(b)
  BY <1>6, <1>8, <1>11, <1>14 DEF Good, Fits
<1>16. BufferInv' /\ Memory!Content' = Slice(x, p, c)
  BY <1>13, <1>14, <1>15, BecomeIs DEF Held
<1>17. PICK old : old = Memory!Content
  OBVIOUS
<1>18. old = Slice(m, p, count)
  BY <1>4, <1>5, <1>17 DEF Held
<1>19. old \in Seq(Cells) /\ Len(old) = count /\ \A i \in 1..count : old[i] = m[p + i]
  <2>1. p + count <= Len(m) BY <1>2, <1>6
  <2> QED BY <2>1, <1>2, <1>6, <1>18, SliceIs
<1>20. PICK s : s = old \o bs
  OBVIOUS
<1>21. /\ s \in Seq(Cells) /\ Len(s) = c
       /\ \A i \in 1..c : s[i] = IF i <= count THEN old[i] ELSE bs[i - count]
  <2>1. /\ s \in Seq(Cells) /\ Len(s) = Len(old) + Len(bs)
        /\ \A i \in 1..(Len(old) + Len(bs)) : s[i] = IF i <= Len(old) THEN old[i] ELSE bs[i - Len(old)]
    BY ONLY <1>10, <1>19, <1>20, ConcatProperties
  <2>2. Len(old) + Len(bs) = c BY <1>7, <1>10, <1>19
  <2> QED BY <2>1, <2>2, <1>19
<1>22. ASSUME NEW i \in 1..c PROVE s[i] = x[p + i]
  <2>1. p + i \in 1..Len(m) BY <1>6, <1>8
  <2>2. CASE i <= count
    <3>1. i \in 1..count /\ p + i \notin (n + 1)..(n + k) BY <2>2, <1>2, <1>6, <1>7
    <3> QED BY <3>1, <2>1, <2>2, <1>11, <1>19, <1>21
  <2>3. CASE ~(i <= count)
    <3>1. p + i \in (n + 1)..(n + k) /\ (p + i) - n = i - count BY <2>3, <1>2, <1>6, <1>7
    <3> QED BY <3>1, <2>1, <2>3, <1>11, <1>21
  <2> QED BY <2>2, <2>3
<1>23. s = Slice(x, p, c)
  <2>1. p + c <= Len(x) BY <1>8, <1>11
  <2>2. \A i \in 1..c : s[i] = x[p + i] BY <1>22
  <2>3. p \in Nat /\ c \in Nat /\ x \in Seq(Cells) /\ s \in Seq(Cells) /\ Len(s) = c BY <1>6, <1>8, <1>11, <1>21
  <2> QED BY ONLY <2>1, <2>2, <2>3, IsSlice
<1>24. Memory!Deque!PushBack
  <2>1. k \in 1..(MaxSize - Len(Memory!Content)) BY NowIs
  <2>2. bs \in [1..k -> Bytes \cup {Memory!Junk}] BY <1>9 DEF Cells
  <2>3. Memory!Content' = Memory!Content \o bs BY <1>16, <1>17, <1>20, <1>23
  <2> QED BY <2>1, <2>2, <2>3 DEF Memory!Deque!PushBack
<1> QED BY <1>16, <1>24 DEF DequeStep, Memory!Deque!Next

LEMMA PopFrontSteps == BufferInv /\ Memory!PopFront => BufferInv' /\ DequeStep
<1> SUFFICES ASSUME BufferInv, Memory!PopFront PROVE BufferInv' /\ DequeStep
  OBVIOUS
<1>1. PICK n \in 0..count :
        Memory!Become(IF n = count THEN [Memory!Now EXCEPT !.pos = 0, !.count = 0]
                      ELSE [Memory!Now EXCEPT !.pos = pos + n, !.count = count - n])
  BY DEF Memory!PopFront
<1>2. CASE n = count
  <2>1. PICK b : b = [Memory!Now EXCEPT !.pos = 0, !.count = 0] OBVIOUS
  <2> QED BY <2>1, <1>1, <1>2, EmptiedIs
<1>3. CASE n # count
  <2>1. PICK b : b = [Memory!Now EXCEPT !.pos = pos + n, !.count = count - n] OBVIOUS
  <2>2. b.mem = mem /\ b.pos = pos + n /\ b.count = count - n BY <2>1 DEF Memory!Now
  <2>3. pos + n \in Nat /\ count - n \in 0..count /\ (pos + n) + (count - n) <= Len(mem) BY BufferNumbers
  <2>4. Good(b) /\ Held(b) = Slice(mem, pos + n, count - n) BY <2>2, <2>3, MovedIs
  <2> QED BY <2>1, <2>4, <1>1, <1>3, LeavesBack
<1> QED BY <1>2, <1>3

LEMMA PopBackOneSteps == BufferInv /\ Memory!PopBackOne => BufferInv' /\ DequeStep
<1> SUFFICES ASSUME BufferInv, Memory!PopBackOne PROVE BufferInv' /\ DequeStep
  OBVIOUS
<1>1. /\ count > 0
      /\ Memory!Become(IF count = 1 THEN [Memory!Now EXCEPT !.pos = 0, !.count = 0] ELSE [Memory!Now EXCEPT !.count = count - 1])
  BY DEF Memory!PopBackOne
<1>2. CASE count = 1
  <2>1. PICK b : b = [Memory!Now EXCEPT !.pos = 0, !.count = 0] OBVIOUS
  <2> QED BY <2>1, <1>1, <1>2, EmptiedIs
<1>3. CASE count # 1
  <2>1. PICK b : b = [Memory!Now EXCEPT !.count = count - 1] OBVIOUS
  <2>2. b.mem = mem /\ b.pos = pos /\ b.count = count - 1 BY <2>1 DEF Memory!Now
  <2>3. count - 1 \in 0..count /\ pos + (count - 1) <= Len(mem) BY <1>1, BufferNumbers
  <2>4. Good(b) /\ Held(b) = Slice(mem, pos, count - 1) BY <2>2, <2>3, MovedIs, BufferNumbers
  <2> QED BY <2>1, <2>3, <2>4, <1>1, <1>3, LeavesFront
<1> QED BY <1>2, <1>3

LEMMA PopBackSteps == BufferInv /\ Memory!PopBack => BufferInv' /\ DequeStep
<1> SUFFICES ASSUME BufferInv, Memory!PopBack PROVE BufferInv' /\ DequeStep
  OBVIOUS
<1>1. PICK n \in 0..count : Memory!Become([Memory!Now EXCEPT !.count = count - n])
  BY DEF Memory!PopBack
<1>2. PICK b : b = [Memory!Now EXCEPT !.count = count - n]
  OBVIOUS
<1>3. b.mem = mem /\ b.pos = pos /\ b.count = count - n
  BY <1>2 DEF Memory!Now
<1>4. count - n \in 0..count /\ pos + (count - n) <= Len(mem)
  BY BufferNumbers
<1>5. Good(b) /\ Held(b) = Slice(mem, pos, count - n)
  BY <1>3, <1>4, MovedIs, BufferNumbers
<1> QED BY <1>1, <1>2, <1>4, <1>5, LeavesFront

LEMMA BufferSteps == BufferInv /\ [Memory!Next]_bufferVars => BufferInv' /\ DequeStep
<1> SUFFICES ASSUME BufferInv, [Memory!Next]_bufferVars PROVE BufferInv' /\ DequeStep
  OBVIOUS
<1>1. CASE Memory!Next
  BY <1>1, RecapacitySteps, ReserveSteps, ResizeSteps, ClearSteps, PushBackSteps, PopFrontSteps,
     PopBackOneSteps, PopBackSteps DEF Memory!Next
<1>2. CASE UNCHANGED bufferVars
  BY <1>2 DEF bufferVars, BufferInv, Memory!Content, DequeStep
<1> QED BY <1>1, <1>2

\* A Buffer that is made, of its own accord or beside the helper in use, fits.
LEMMA BufferMade == HelpersInit => BufferInv
<1> SUFFICES ASSUME HelpersInit PROVE BufferInv
  OBVIOUS
<1>1. (Memory!Init \/ BufferAtRest) /\ MaxSize \in Nat
  BY BufferAssumption DEF HelpersInit
<1>2. ASSUME NEW n \in Nat, n > 1, mem = Memory!Junks(n), pos = 0, count = 0 PROVE BufferInv
  BY <1>1, <1>2, JunksIs DEF BufferInv, Fits
<1>3. CASE BufferAtRest
  BY <1>2, <1>3 DEF BufferAtRest
<1>4. CASE mem = Memory!Junks(16) /\ count = 0 /\ pos = 0
  BY <1>2, <1>4
<1>5. CASE (\E s \in 0..MaxSize : mem = Memory!Junks(Memory!Raised(s)) /\ count = 0) /\ pos = 0
  <2>1. PICK s \in 0..MaxSize : mem = Memory!Junks(Memory!Raised(s))
    BY <1>5
  <2>2. s \in Nat BY <1>1
  <2> QED BY <2>1, <2>2, <1>2, <1>5, RaisedIs
<1>6. CASE /\ \E len \in 0..MaxSize : \E dat \in [1..len -> Bytes] :
                mem = Memory!Laid(Memory!Junks(Memory!Raised(len)), 0, dat) /\ count = len
           /\ pos = 0
  <2>1. PICK len \in 0..MaxSize : \E dat \in [1..len -> Bytes] :
          mem = Memory!Laid(Memory!Junks(Memory!Raised(len)), 0, dat) /\ count = len
    BY <1>6
  <2>2. PICK dat \in [1..len -> Bytes] : mem = Memory!Laid(Memory!Junks(Memory!Raised(len)), 0, dat) /\ count = len
    BY <2>1
  <2>3. len \in Nat BY <1>1
  <2>4. PICK m : m = Memory!Junks(Memory!Raised(len)) OBVIOUS
  <2>5. m \in Seq(Cells) /\ Len(m) > len /\ Len(m) > 1
    BY <2>3, <2>4, RaisedIs, JunksIs
  <2>6. dat \in [1..len -> Cells] BY DEF Cells
  <2>7. dat \in Seq(Cells) /\ Len(dat) = len BY ONLY <2>3, <2>6
  <2>8. 0 \in Nat /\ 0 + Len(dat) <= Len(m) BY <2>3, <2>5, <2>7
  <2>9. mem \in Seq(Cells) /\ Len(mem) = Len(m)
    BY <2>2, <2>4, <2>5, <2>7, <2>8, LaidIs
  <2> QED BY <1>1, <1>6, <2>2, <2>3, <2>5, <2>9 DEF BufferInv, Fits
<1>7. Memory!Init => \/ mem = Memory!Junks(16) /\ count = 0 /\ pos = 0
                     \/ (\E s \in 0..MaxSize : mem = Memory!Junks(Memory!Raised(s)) /\ count = 0) /\ pos = 0
                     \/ /\ \E len \in 0..MaxSize : \E dat \in [1..len -> Bytes] :
                             mem = Memory!Laid(Memory!Junks(Memory!Raised(len)), 0, dat) /\ count = len
                        /\ pos = 0
  BY DEF Memory!Init
<1> QED BY <1>1, <1>3, <1>4, <1>5, <1>6, <1>7

LEMMA DequeMade == BufferInv => Memory!Deque!Init
<1> SUFFICES ASSUME BufferInv PROVE Memory!Deque!Init
  OBVIOUS
<1>1. PICK c : c = Memory!Content
  OBVIOUS
<1>2. c \in Seq(Cells) /\ Len(c) = count /\ count \in 0..MaxSize
  BY <1>1, NowIs, BufferNumbers
<1>3. c \in [1..count -> Cells]
  BY ONLY <1>2
<1> QED BY <1>1, <1>2, <1>3 DEF Memory!Deque!Init, Cells

\* Whatever was popped, moved and reallocated before, a Buffer (buffer.cpp) is
\* a deque of the bytes pushed: every operation, the moves of reserve() and the
\* new memory of recapacity() included, is a push or a pop at an end of it.
THEOREM RefinesDeque == HelpersSpec => ImplementsDeque
<1>1. HelpersInit => BufferInv /\ Memory!Deque!Init
  BY BufferMade, DequeMade
<1>2. BufferInv /\ [HelpersNext]_helperVars => BufferInv' /\ [Memory!Deque!Next]_(Memory!Content)
  <2> SUFFICES ASSUME BufferInv, [HelpersNext]_helperVars
               PROVE  BufferInv' /\ [Memory!Deque!Next]_(Memory!Content)
    OBVIOUS
  <2>1. [Memory!Next]_bufferVars
    BY DEF HelpersNext, helperVars, bufferVars, UseRing, UseBuffer, UseTime, UsePelco, UseLog, UseConfig
  <2> QED BY <2>1, BufferSteps DEF DequeStep
<1>3. HelpersSpec => Memory!Deque!Spec
  BY <1>1, <1>2, PTL DEF HelpersSpec, Memory!Deque!Spec
<1> QED BY <1>3 DEF ImplementsDeque, Memory!ImplementsDeque

-----------------------------------------------------------------------------
(* The log files                                                           *)

Pieces == {"head", "body"} \X (Nat \ {0})
LogFile == [open: BOOLEAN, buffered: Seq(Pieces), disk: Seq(Pieces)]
Message == [level: Log!Levels, done: BOOLEAN]
Logging == [at: {"chosen", "head", "body"}, file: Nat \ {0}, id: Nat \ {0}, level: Log!Levels]

LogTyped ==
  /\ fout \in [Log!Streams -> 0..Len(files)]
  /\ files \in Seq(LogFile)
  /\ lock \in Threads \cup {"free"}
  /\ call \in [Threads -> {Log!Idle} \cup Logging]
  /\ logged \in Seq(Message)

\* A call writes to a file that was opened once, for a message of its level.
CallsFit ==
  \A t \in Threads : call[t].at # "idle" =>
    /\ call[t].file \in 1..Len(files) /\ call[t].id \in 1..Len(logged)
    /\ logged[call[t].id].level = call[t].level

\* Who writes holds m_lock.
WritersLock == \A t \in Threads : call[t].at \in {"head", "body"} => lock = t

\* No two calls log one message.
OwnMessages ==
  \A t, u \in Threads : t # u /\ call[t].at # "idle" /\ call[u].at # "idle" => call[t].id # call[u].id

\* What is in the files was logged, and the body of a call under way is not among it.
TextWasLogged ==
  \A i \in 1..Len(files) : \A k \in 1..Len(Log!Text(files[i])) :
    LET p == Log!Text(files[i])[k]
    IN  /\ p[2] \in 1..Len(logged)
        /\ \A t \in Threads : call[t].at # "idle" => p # <<"body", call[t].id>>

\* A call that has its body to write finds its head last in its file.
HeadIsLast ==
  \A t \in Threads : call[t].at = "body" /\ call[t].level # "P" =>
    LET text == Log!Text(files[call[t].file])
    IN  Len(text) > 0 /\ text[Len(text)] = <<"head", call[t].id>>

LogInv ==
  /\ LogTyped /\ CallsFit /\ WritersLock /\ OwnMessages
  /\ TextWasLogged /\ HeadIsLast /\ Log!LinesAreWhole /\ Log!UrgentIsOnDisk

-----------------------------------------------------------------------------
(* What a step does to the texts of the files and to the calls *)

\* Every file keeps its text, and a new one has none.
TextsKept ==
  /\ Len(files) <= Len(files')
  /\ \A i \in 1..Len(files) : Log!Text(files'[i]) = Log!Text(files[i])
  /\ \A i \in (Len(files) + 1)..Len(files') : Log!Text(files'[i]) = <<>>

\* File j gets piece p at its end.
TextGrows(j, p) ==
  /\ Len(files') = Len(files) /\ j \in 1..Len(files)
  /\ \A i \in 1..Len(files) : i # j => Log!Text(files'[i]) = Log!Text(files[i])
  /\ Log!Text(files'[j]) = Append(Log!Text(files[j]), p)

LevelsKept ==
  /\ Len(logged) <= Len(logged')
  /\ \A m \in 1..Len(logged) : logged'[m].level = logged[m].level

\* A call that goes on, or a new one.
GoesOn(t) ==
  /\ call[t].at # "idle" /\ call'[t].id = call[t].id
  /\ call'[t].file = call[t].file /\ call'[t].level = call[t].level
Begins(t) == call'[t].at = "chosen" /\ call'[t].id = Len(logged) + 1

LEMMA TextType ==
  ASSUME NEW f \in LogFile
  PROVE  /\ Log!Text(f) \in Seq(Pieces)
         /\ Len(Log!Text(f)) = Len(f.disk) + Len(f.buffered)
         /\ \A k \in 1..Len(f.buffered) : Log!Text(f)[Len(f.disk) + k] = f.buffered[k]
<1>1. f.disk \in Seq(Pieces) /\ f.buffered \in Seq(Pieces)
  BY DEF LogFile
<1>2. PICK d, b : d = f.disk /\ b = f.buffered
  OBVIOUS
<1>3. d \in Seq(Pieces) /\ b \in Seq(Pieces) /\ Log!Text(f) = d \o b
  BY <1>1, <1>2 DEF Log!Text
<1>4. /\ d \o b \in Seq(Pieces) /\ Len(d \o b) = Len(d) + Len(b)
      /\ \A k \in 1..(Len(d) + Len(b)) : (d \o b)[k] = IF k <= Len(d) THEN d[k] ELSE b[k - Len(d)]
  BY ONLY <1>3, ConcatProperties
<1>5. \A k \in 1..Len(b) : (d \o b)[Len(d) + k] = b[k]
  BY <1>3, <1>4
<1> QED BY <1>2, <1>3, <1>4, <1>5

LEMMA BufferedInText ==
  ASSUME NEW f \in LogFile, NEW m \in 1..Len(f.buffered)
  PROVE  /\ f.buffered[m] \in Pieces
         /\ \E n \in 1..Len(Log!Text(f)) : Log!Text(f)[n] = f.buffered[m]
<1>1. f.disk \in Seq(Pieces) /\ f.buffered \in Seq(Pieces)
  BY DEF LogFile
<1>2. PICK d, b : d = Len(f.disk) /\ b = f.buffered
  OBVIOUS
<1>3. d \in Nat /\ b \in Seq(Pieces) /\ Len(b) \in Nat /\ m \in 1..Len(b)
  BY <1>1, <1>2
<1>4. b[m] \in Pieces /\ d + m \in 1..(d + Len(b))
  BY ONLY <1>3
<1>5. Len(Log!Text(f)) = d + Len(b) /\ Log!Text(f)[d + m] = b[m]
  BY <1>2, <1>3, TextType
<1> QED BY <1>2, <1>4, <1>5

LEMMA TextsTyped ==
  ASSUME LogTyped, NEW i \in 1..Len(files)
  PROVE  files[i] \in LogFile /\ Log!Text(files[i]) \in Seq(Pieces)
<1>1. files[i] \in LogFile
  BY DEF LogTyped
<1> QED BY <1>1, TextType

LEMMA KeptTexts ==
  ASSUME LogInv, LogTyped', TextsKept, LevelsKept,
         \A t \in Threads : call'[t].at # "idle" =>
            Begins(t) \/ (GoesOn(t) /\ (call'[t].at = "body" => call[t].at = "body" \/ call[t].level = "P"))
  PROVE  TextWasLogged' /\ HeadIsLast' /\ Log!LinesAreWhole'
<1> USE DEF LogInv
<1>1. /\ Len(files) \in Nat /\ Len(files') \in Nat /\ Len(logged) \in Nat /\ Len(logged') \in Nat
      /\ DOMAIN files = 1..Len(files) /\ DOMAIN files' = 1..Len(files')
  BY DEF LogTyped
<1>2. ASSUME NEW i \in 1..Len(files'), NEW k \in 1..Len(Log!Text(files'[i]))
      PROVE  /\ i \in 1..Len(files) /\ Log!Text(files'[i]) = Log!Text(files[i])
             /\ k \in 1..Len(Log!Text(files[i]))
             /\ Log!Text(files[i])[k][2] \in 1..Len(logged)
  <2>1. i \in 1..Len(files)
    <3>1. i \in (Len(files) + 1)..Len(files') => Len(Log!Text(files'[i])) = 0
      BY DEF TextsKept
    <3> QED BY <3>1, <1>1
  <2>2. Log!Text(files'[i]) = Log!Text(files[i])
    BY <2>1 DEF TextsKept
  <2> QED BY <2>1, <2>2 DEF TextWasLogged
<1>3. TextWasLogged'
  <2> SUFFICES ASSUME NEW i \in 1..Len(files'), NEW k \in 1..Len(Log!Text(files'[i]))
               PROVE  /\ Log!Text(files'[i])[k][2] \in 1..Len(logged')
                      /\ \A t \in Threads : call'[t].at # "idle" =>
                           Log!Text(files'[i])[k] # <<"body", call'[t].id>>
    BY DEF TextWasLogged, Log!Text
  <2>1. PICK p : p = Log!Text(files[i])[k]
    OBVIOUS
  <2>2. Log!Text(files'[i])[k] = p /\ p[2] \in 1..Len(logged)
    BY <1>2, <2>1
  <2>3. \A t \in Threads : call[t].at # "idle" => p # <<"body", call[t].id>>
    BY <1>2, <2>1 DEF TextWasLogged
  <2>4. ASSUME NEW t \in Threads, call'[t].at # "idle" PROVE p # <<"body", call'[t].id>>
    <3>1. CASE GoesOn(t) BY <3>1, <2>3 DEF GoesOn
    <3>2. CASE Begins(t)
      <4>1. call'[t].id = Len(logged) + 1 BY <3>2 DEF Begins
      <4>2. p = <<"body", call'[t].id>> => p[2] = call'[t].id OBVIOUS
      <4> QED BY <4>1, <4>2, <2>2, <1>1
    <3> QED BY <2>4, <3>1, <3>2
  <2>5. p[2] \in 1..Len(logged') BY <2>2, <1>1 DEF LevelsKept
  <2> QED BY <2>2, <2>4, <2>5
<1>4. HeadIsLast'
  <2> SUFFICES ASSUME NEW t \in Threads, call'[t].at = "body", call'[t].level # "P"
               PROVE  /\ Len(Log!Text(files'[call'[t].file])) > 0
                      /\ Log!Text(files'[call'[t].file])[Len(Log!Text(files'[call'[t].file]))]
                           = <<"head", call'[t].id>>
    BY DEF HeadIsLast, Log!Text
  <2>1. GoesOn(t) /\ call[t].at = "body" BY DEF Begins, GoesOn
  <2>2. /\ call'[t].id = call[t].id /\ call'[t].file = call[t].file /\ call[t].level # "P"
        /\ call[t].at # "idle"
    BY <2>1 DEF GoesOn
  <2>3. Log!Text(files'[call[t].file]) = Log!Text(files[call[t].file])
    BY <2>2 DEF CallsFit, TextsKept
  <2> QED BY <2>1, <2>2, <2>3 DEF HeadIsLast
<1>5. Log!LinesAreWhole'
  <2> SUFFICES ASSUME NEW i \in 1..Len(files'), NEW k \in 1..Len(Log!Text(files'[i])),
                      Log!Text(files'[i])[k][1] = "body", logged'[Log!Text(files'[i])[k][2]].level # "P"
               PROVE  k > 1 /\ Log!Text(files'[i])[k - 1] = <<"head", Log!Text(files'[i])[k][2]>>
    <3>1. \A i \in 1..Len(files') : DOMAIN Log!Text(files'[i]) = 1..Len(Log!Text(files'[i]))
      <4>1. \A i \in 1..Len(files') : files'[i] \in LogFile BY DEF LogTyped
      <4> QED BY <4>1, TextType
    <3> QED BY <3>1, <1>1 DEF Log!LinesAreWhole, Log!Text
  <2>1. PICK p : p = Log!Text(files[i])[k]
    OBVIOUS
  <2>2. Log!Text(files'[i])[k] = p /\ p[2] \in 1..Len(logged)
    BY <1>2, <2>1
  <2>3. p[1] = "body" /\ logged[p[2]].level # "P" BY <2>2 DEF LevelsKept
  <2>4. i \in DOMAIN files /\ k \in DOMAIN Log!Text(files[i])
    <3>1. i \in 1..Len(files) /\ k \in 1..Len(Log!Text(files[i])) BY <1>2
    <3> QED BY <3>1, <1>1, TextsTyped
  <2>5. k > 1 /\ Log!Text(files[i])[k - 1] = <<"head", p[2]>>
    BY <2>1, <2>3, <2>4 DEF Log!LinesAreWhole
  <2> QED BY <2>2, <2>5, <1>2
<1> QED BY <1>3, <1>4, <1>5

LEMMA GrownText ==
  ASSUME LogInv, LogTyped', LevelsKept, Len(logged') = Len(logged),
         NEW t \in Threads, lock = t, NEW j, NEW p \in Pieces, TextGrows(j, p), p[2] \in 1..Len(logged),
         \A u \in Threads : call'[u].at # "idle" => GoesOn(u) /\ p # <<"body", call[u].id>>,
         \A u \in Threads : u # t => call'[u].at = call[u].at,
         call'[t].at = "body" /\ call[t].level # "P" => call[t].file = j /\ p = <<"head", call[t].id>>,
         p[1] = "body" /\ logged[p[2]].level # "P" =>
            LET text == Log!Text(files[j])
            IN  Len(text) > 0 /\ text[Len(text)] = <<"head", p[2]>>
  PROVE  TextWasLogged' /\ HeadIsLast' /\ Log!LinesAreWhole'
<1> USE DEF LogInv
<1>1. /\ Len(files) \in Nat /\ Len(files') = Len(files) /\ j \in 1..Len(files) /\ Len(logged) \in Nat
      /\ DOMAIN files = 1..Len(files) /\ DOMAIN files' = 1..Len(files)
  BY DEF LogTyped, TextGrows
<1>2. PICK text : text = Log!Text(files[j])
  OBVIOUS
<1>3. text \in Seq(Pieces) /\ Len(text) \in Nat
  BY <1>1, <1>2, TextsTyped
<1>4. /\ Log!Text(files'[j]) = Append(text, p) /\ Len(Append(text, p)) = Len(text) + 1
      /\ \A k \in 1..Len(text) : Append(text, p)[k] = text[k]
      /\ Append(text, p)[Len(text) + 1] = p
  <2>1. Log!Text(files'[j]) = Append(text, p) BY <1>2 DEF TextGrows
  <2> QED BY <2>1, <1>3, AppendProperties
<1>5. \A i \in 1..Len(files) : i # j => Log!Text(files'[i]) = Log!Text(files[i])
  BY DEF TextGrows
<1>6. \A i \in 1..Len(files) :
        /\ DOMAIN Log!Text(files'[i]) = 1..Len(Log!Text(files'[i]))
        /\ DOMAIN Log!Text(files[i]) = 1..Len(Log!Text(files[i]))
        /\ Len(Log!Text(files[i])) \in Nat
  <2>1. \A i \in 1..Len(files) : files'[i] \in LogFile /\ files[i] \in LogFile
    BY <1>1 DEF LogTyped
  <2> QED BY <2>1, TextType
<1>7. TextWasLogged'
  <2> SUFFICES ASSUME NEW i \in 1..Len(files), NEW k \in 1..Len(Log!Text(files'[i]))
               PROVE  /\ Log!Text(files'[i])[k][2] \in 1..Len(logged)
                      /\ \A u \in Threads : call'[u].at # "idle" =>
                           Log!Text(files'[i])[k] # <<"body", call'[u].id>>
    BY <1>1 DEF TextWasLogged, Log!Text
  <2>1. PICK q : q = Log!Text(files'[i])[k]
    OBVIOUS
  <2>2. q = p \/ (k \in 1..Len(Log!Text(files[i])) /\ q = Log!Text(files[i])[k])
    <3>1. CASE i = j BY <3>1, <2>1, <1>2, <1>3, <1>4
    <3>2. CASE i # j BY <3>2, <2>1, <1>5
    <3> QED BY <3>1, <3>2
  <2>3. q[2] \in 1..Len(logged) /\ \A u \in Threads : call'[u].at # "idle" => q # <<"body", call[u].id>>
    <3>1. CASE q = p BY <3>1
    <3>2. CASE k \in 1..Len(Log!Text(files[i])) /\ q = Log!Text(files[i])[k]
      BY <3>2 DEF TextWasLogged, GoesOn
    <3> QED BY <2>2, <3>1, <3>2
  <2> QED BY <2>1, <2>3 DEF GoesOn
<1>8. HeadIsLast'
  <2> SUFFICES ASSUME NEW u \in Threads, call'[u].at = "body", call'[u].level # "P"
               PROVE  /\ Len(Log!Text(files'[call'[u].file])) > 0
                      /\ Log!Text(files'[call'[u].file])[Len(Log!Text(files'[call'[u].file]))]
                           = <<"head", call'[u].id>>
    BY DEF HeadIsLast, Log!Text
  <2>1. GoesOn(u) BY Zenon
  <2>2. u = t BY DEF WritersLock
  <2>3. call[t].file = j /\ p = <<"head", call[t].id>> BY <2>1, <2>2 DEF GoesOn
  <2>4. call'[u].file = j /\ call'[u].id = call[t].id BY <2>1, <2>2, <2>3 DEF GoesOn
  <2> QED BY <2>3, <2>4, <1>3, <1>4
<1>9. Log!LinesAreWhole'
  <2> SUFFICES ASSUME NEW i \in 1..Len(files), NEW k \in 1..Len(Log!Text(files'[i])),
                      Log!Text(files'[i])[k][1] = "body", logged'[Log!Text(files'[i])[k][2]].level # "P"
               PROVE  k > 1 /\ Log!Text(files'[i])[k - 1] = <<"head", Log!Text(files'[i])[k][2]>>
    BY <1>6, <1>1 DEF Log!LinesAreWhole, Log!Text
  <2>1. CASE i = j /\ k = Len(text) + 1
    <3>1. Log!Text(files'[i])[k] = p BY <2>1, <1>4
    <3>2. p[1] = "body" /\ logged[p[2]].level # "P" BY <3>1 DEF LevelsKept
    <3>3. Len(text) > 0 /\ text[Len(text)] = <<"head", p[2]>> BY <3>2, <1>2
    <3>4. Len(text) \in 1..Len(text) BY <3>3, <1>3
    <3>5. Append(text, p)[k - 1] = text[Len(text)] BY <3>4, <2>1, <1>3, <1>4
    <3> QED BY <3>1, <3>3, <3>5, <2>1, <1>3, <1>4
  <2>2. CASE ~(i = j /\ k = Len(text) + 1)
    <3>1. /\ k \in 1..Len(Log!Text(files[i]))
          /\ \A m \in 1..Len(Log!Text(files[i])) : Log!Text(files'[i])[m] = Log!Text(files[i])[m]
      <4>1. CASE i = j BY <4>1, <2>2, <1>2, <1>3, <1>4
      <4>2. CASE i # j BY <4>2, <1>5
      <4> QED BY <4>1, <4>2
    <3>2. PICK q : q = Log!Text(files[i])[k]
      OBVIOUS
    <3>3. Log!Text(files'[i])[k] = q /\ q[2] \in 1..Len(logged)
      BY <3>1, <3>2 DEF TextWasLogged
    <3>4. q[1] = "body" /\ logged[q[2]].level # "P" BY <3>3 DEF LevelsKept
    <3>5. i \in DOMAIN files /\ k \in DOMAIN Log!Text(files[i]) BY <3>1, <1>1, <1>6
    <3>6. k > 1 /\ Log!Text(files[i])[k - 1] = <<"head", q[2]>>
      BY <3>2, <3>4, <3>5 DEF Log!LinesAreWhole
    <3>7. k - 1 \in 1..Len(Log!Text(files[i])) BY <3>1, <3>6, <1>6
    <3> QED BY <3>1, <3>3, <3>6, <3>7
  <2> QED BY <2>1, <2>2
<1> QED BY <1>7, <1>8, <1>9

LEMMA CallsKept ==
  ASSUME LogInv, LogTyped', LevelsKept, Len(files) <= Len(files'),
         \A t \in Threads : call'[t].at # "idle" =>
           \/ GoesOn(t)
           \/ /\ Begins(t) /\ call'[t].file \in 1..Len(files) /\ call'[t].id <= Len(logged')
              /\ logged'[call'[t].id].level = call'[t].level,
         \A t, u \in Threads : call'[t].at # "idle" /\ ~GoesOn(t) /\ call'[u].at # "idle" /\ ~GoesOn(u) => t = u
  PROVE  CallsFit' /\ OwnMessages'
<1> USE DEF LogInv
<1>1. /\ Len(files) \in Nat /\ Len(files') \in Nat /\ Len(logged) \in Nat /\ Len(logged') \in Nat
  BY DEF LogTyped
<1>2. CallsFit'
  <2> SUFFICES ASSUME NEW t \in Threads, call'[t].at # "idle"
               PROVE  /\ call'[t].file \in 1..Len(files') /\ call'[t].id \in 1..Len(logged')
                      /\ logged'[call'[t].id].level = call'[t].level
    BY DEF CallsFit
  <2>1. CASE GoesOn(t) BY <2>1, <1>1 DEF GoesOn, CallsFit, LevelsKept
  <2>2. CASE ~GoesOn(t) BY <2>2, <1>1 DEF Begins
  <2> QED BY <2>1, <2>2
<1>3. OwnMessages'
  <2> SUFFICES ASSUME NEW t \in Threads, NEW u \in Threads, t # u,
                      call'[t].at # "idle", call'[u].at # "idle", call'[t].id = call'[u].id
               PROVE  FALSE
    BY DEF OwnMessages
  <2>1. CASE GoesOn(t) /\ GoesOn(u) BY <2>1 DEF GoesOn, OwnMessages
  <2>2. ASSUME NEW v \in Threads, NEW w \in Threads, GoesOn(v), Begins(w)
        PROVE  call'[v].id # call'[w].id
    <3>1. call'[v].id = call[v].id /\ call[v].at # "idle" BY <2>2 DEF GoesOn
    <3>2. call[v].id \in 1..Len(logged) BY <3>1 DEF CallsFit
    <3>3. call'[w].id = Len(logged) + 1 BY <2>2 DEF Begins
    <3> QED BY <3>1, <3>2, <3>3, <1>1
  <2>3. GoesOn(t) \/ Begins(t) BY Zenon
  <2>4. GoesOn(u) \/ Begins(u) BY Zenon
  <2>5. GoesOn(t) \/ GoesOn(u) BY Zenon
  <2> QED BY <2>1, <2>2, <2>3, <2>4, <2>5
<1> QED BY <1>2, <1>3

LEMMA UrgentKept ==
  ASSUME LogInv, LogTyped', LevelsKept,
         \A i \in 1..Len(files') : \A k \in 1..Len(files'[i].buffered) :
           \/ i \in 1..Len(files) /\ \E m \in 1..Len(files[i].buffered) : files'[i].buffered[k] = files[i].buffered[m]
           \/ files'[i].buffered[k][1] = "head"
           \/ logged'[files'[i].buffered[k][2]].level \notin Log!Urgent,
         \A m \in 1..Len(logged) : logged'[m].done =>
           logged[m].done \/ \E t \in Threads : call[t].at # "idle" /\ call[t].id = m
  PROVE  Log!UrgentIsOnDisk'
<1> USE DEF LogInv
<1>1. /\ Len(files) \in Nat /\ DOMAIN files = 1..Len(files) /\ DOMAIN files' = 1..Len(files')
  BY DEF LogTyped
<1>2. ASSUME NEW i \in 1..Len(files)
      PROVE  DOMAIN files[i].buffered = 1..Len(files[i].buffered)
  <2>1. files[i] \in LogFile BY <1>2, TextsTyped
  <2>2. files[i].buffered \in Seq(Pieces) BY <2>1 DEF LogFile
  <2> QED BY <2>2
<1>3. ASSUME NEW i \in 1..Len(files')
      PROVE  DOMAIN files'[i].buffered = 1..Len(files'[i].buffered)
  <2>1. files'[i] \in LogFile BY <1>3 DEF LogTyped
  <2>2. files'[i].buffered \in Seq(Pieces) BY <2>1 DEF LogFile
  <2> QED BY <2>2
<1> SUFFICES ASSUME NEW i \in 1..Len(files'), NEW k \in 1..Len(files'[i].buffered),
                    files'[i].buffered[k][1] = "body",
                    logged'[files'[i].buffered[k][2]].level \in Log!Urgent,
                    logged'[files'[i].buffered[k][2]].done
             PROVE  FALSE
  BY <1>1, <1>3 DEF Log!UrgentIsOnDisk, Log!Urgent
<1>4. PICK q : q = files'[i].buffered[k]
  OBVIOUS
<1>5. PICK m \in 1..Len(files[i].buffered) : i \in 1..Len(files) /\ q = files[i].buffered[m]
  BY <1>4
<1>6. files[i] \in LogFile
  BY <1>5, TextsTyped
<1>12. PICK f : f = files[i]
  OBVIOUS
<1>13. q \in Pieces /\ \E n \in 1..Len(Log!Text(f)) : Log!Text(f)[n] = q
  <2>1. f \in LogFile /\ m \in 1..Len(f.buffered) /\ q = f.buffered[m] BY <1>5, <1>6, <1>12
  <2> QED BY ONLY <2>1, BufferedInText
<1>7. q[2] \in 1..Len(logged) /\ \A t \in Threads : call[t].at # "idle" => q # <<"body", call[t].id>>
  <2>1. PICK n \in 1..Len(Log!Text(f)) : Log!Text(f)[n] = q BY <1>13
  <2>2. i \in 1..Len(files) /\ n \in 1..Len(Log!Text(files[i])) /\ Log!Text(files[i])[n] = q
    BY <1>5, <1>12, <2>1
  <2> QED BY ONLY <2>2, TextWasLogged DEF TextWasLogged
<1>8. q \in Pieces /\ q[1] = "body" /\ logged'[q[2]].done /\ logged[q[2]].level \in Log!Urgent
  <2>1. q \in Pieces BY <1>13
  <2>2. q[1] = "body" /\ logged'[q[2]].done BY <1>4
  <2>3. logged[q[2]].level \in Log!Urgent BY <1>4, <1>7 DEF LevelsKept
  <2> QED BY <2>1, <2>2, <2>3
<1>9. \A n : n = q[2] => q = <<"body", n>>
  BY <1>8 DEF Pieces
<1>10. logged[q[2]].done
  BY <1>7, <1>8, <1>9
<1>11. i \in DOMAIN files /\ m \in DOMAIN files[i].buffered
  BY <1>1, <1>2, <1>5
<1> QED BY <1>5, <1>8, <1>10, <1>11 DEF Log!UrgentIsOnDisk

-----------------------------------------------------------------------------
(* The steps *)

LEMMA FlushedText ==
  ASSUME NEW f \in LogFile
  PROVE  LET g == Log!Flushed(f)
             h == [Log!Flushed(f) EXCEPT !.open = FALSE]
         IN  /\ g \in LogFile /\ Log!Text(g) = Log!Text(f) /\ g.buffered = <<>>
             /\ h \in LogFile /\ Log!Text(h) = Log!Text(f) /\ h.buffered = <<>>
<1>1. PICK t : t = f.disk \o f.buffered
  OBVIOUS
<1>2. t \in Seq(Pieces)
  BY <1>1, TextType DEF Log!Text
<1>3. f = [open |-> f.open, buffered |-> f.buffered, disk |-> f.disk] /\ f.open \in BOOLEAN
  BY DEF LogFile
<1>4. t \o <<>> = t /\ <<>> \in Seq(Pieces)
  BY <1>2, ConcatEmptySeq
<1>5. PICK g : g = Log!Flushed(f)
  OBVIOUS
<1>6. PICK h : h = [g EXCEPT !.open = FALSE]
  OBVIOUS
<1>7. g = [f EXCEPT !.disk = t, !.buffered = <<>>]
  BY <1>1, <1>5 DEF Log!Flushed
<1>8. g \in LogFile /\ g.disk = t /\ g.buffered = <<>>
  BY ONLY <1>7, <1>2, <1>4, f \in LogFile DEF LogFile
<1>9. h \in LogFile /\ h.disk = t /\ h.buffered = <<>>
  BY ONLY <1>6, <1>8, FALSE \in BOOLEAN DEF LogFile
<1>10. Log!Text(f) = t /\ Log!Text(g) = t /\ Log!Text(h) = t
  BY <1>1, <1>4, <1>8, <1>9 DEF Log!Text
<1> QED BY <1>5, <1>6, <1>8, <1>9, <1>10

(* Cardinality as Logger has it is the one of the library. *)
LEMMA SameCardinality ==
  ASSUME NEW S
  PROVE  Log!Cardinality(S) = Cardinality(S)
BY DEF Log!Cardinality, Cardinality

LEMMA Numbered ==
  ASSUME NEW S, IsFiniteSet(S), NEW q, q = Log!Listed(S)
  PROVE  /\ q \in [1..Cardinality(S) -> S] /\ Cardinality(S) \in Nat
         /\ \A s \in S : \E i \in 1..Cardinality(S) : q[i] = s
<1>1. Cardinality(S) \in Nat /\ ExistsBijection(1..Cardinality(S), S)
  BY FS_CardinalityType
<1>2. PICK n, b : n = Cardinality(S) /\ b \in Bijection(1..n, S)
  BY <1>1 DEF ExistsBijection
<1>3. b \in [1..n -> S] /\ (\A x, y \in 1..n : b[x] = b[y] => x = y) /\ \A s \in S : \E i \in 1..n : b[i] = s
  BY <1>2 DEF Bijection, Injection, Surjection, IsInjective
<1>4. b \in Log!Bijection(1..n, S)
  <2>1. b \in Log!Injection(1..n, S)
    BY <1>3 DEF Log!Injection, Log!IsInjective
  <2>2. b \in Log!Surjection(1..n, S)
    BY <1>3 DEF Log!Surjection
  <2> QED BY <2>1, <2>2 DEF Log!Bijection
<1>5. q \in Log!Bijection(1..n, S)
  <2>1. q = CHOOSE p \in Log!Bijection(1..n, S): TRUE
    BY <1>2, SameCardinality DEF Log!Listed
  <2> QED BY ONLY <1>4, <2>1
<1>6. q \in [1..n -> S] /\ \A s \in S : \E i \in 1..n : q[i] = s
  BY <1>5 DEF Log!Bijection, Log!Injection, Log!Surjection
<1> QED BY <1>1, <1>2, <1>6

(* What LogInv says does not depend on the rest. *)
LEMMA LogRest ==
  ASSUME LogInv, UNCHANGED <<fout, files, lock, call, logged>>
  PROVE  LogInv'
<1>1. LogTyped' BY DEF LogInv, LogTyped
<1>2. CallsFit' /\ WritersLock' /\ OwnMessages' BY DEF LogInv, CallsFit, WritersLock, OwnMessages
<1>3. TextWasLogged' /\ HeadIsLast' BY DEF LogInv, TextWasLogged, HeadIsLast, Log!Text
<1>4. Log!LinesAreWhole' /\ Log!UrgentIsOnDisk'
  BY DEF LogInv, Log!LinesAreWhole, Log!UrgentIsOnDisk, Log!Text
<1> QED BY <1>1, <1>2, <1>3, <1>4 DEF LogInv

LEMMA InitLogs == Log!Init => LogInv
<1> SUFFICES ASSUME Log!Init PROVE LogInv
  OBVIOUS
<1>1. files = <<>> /\ Len(files) = 0 /\ logged = <<>> /\ call = [t \in Threads |-> Log!Idle] /\ lock = "free"
  BY DEF Log!Init
<1>2. LogTyped
  BY <1>1 DEF LogTyped, Log!Init
<1>3. CallsFit /\ WritersLock /\ OwnMessages /\ HeadIsLast
  BY <1>1 DEF CallsFit, WritersLock, OwnMessages, HeadIsLast, Log!Idle
<1>4. TextWasLogged /\ Log!LinesAreWhole /\ Log!UrgentIsOnDisk
  BY <1>1 DEF TextWasLogged, Log!LinesAreWhole, Log!UrgentIsOnDisk
<1> QED BY <1>2, <1>3, <1>4 DEF LogInv

(* A call that is not idle, and what becomes of it when it moves on. *)
LEMMA CallIs ==
  ASSUME LogTyped, NEW t \in Threads, call[t].at # "idle"
  PROVE  call[t] \in Logging
BY DEF LogTyped, Log!Idle

LEMMA MovedCall ==
  ASSUME NEW c \in Logging, NEW a \in {"chosen", "head", "body"}
  PROVE  LET d == [c EXCEPT !.at = a]
         IN  d \in Logging /\ d.at = a /\ d.id = c.id /\ d.file = c.file /\ d.level = c.level
BY DEF Logging

LEMMA SameTexts ==
  ASSUME LogTyped, files' = files
  PROVE  TextsKept
BY DEF LogTyped, TextsKept

LEMMA ChooseLogs ==
  ASSUME LogInv, NEW t \in Threads, NEW level \in Log!Levels, Log!Choose(t, level)
  PROVE  LogInv'
<1>1. PICK n, m : n = Len(logged) + 1 /\ m = fout[Log!StreamOf(level)]
  OBVIOUS
<1>2. PICK c : c = [at |-> "chosen", file |-> m, id |-> n, level |-> level]
  OBVIOUS
<1>3. PICK e : e = [level |-> level, done |-> FALSE]
  OBVIOUS
<1>4. /\ call[t].at = "idle" /\ m # 0 /\ logged' = Append(logged, e) /\ call' = [call EXCEPT ![t] = c]
      /\ fout' = fout /\ files' = files /\ lock' = lock
  BY <1>1, <1>2, <1>3 DEF Log!Choose
<1>5. /\ logged \in Seq(Message) /\ Len(logged) \in Nat /\ n \in Nat \ {0} /\ Len(files) \in Nat
      /\ call \in [Threads -> {Log!Idle} \cup Logging]
  BY <1>1 DEF LogInv, LogTyped
<1>6. m \in 1..Len(files)
  <2>1. Log!StreamOf(level) \in Log!Streams BY DEF Log!StreamOf, Log!Streams
  <2> QED BY <2>1, <1>1, <1>4, <1>5 DEF LogInv, LogTyped
<1>7. c \in Logging /\ c.at = "chosen" /\ c.file = m /\ c.id = n /\ c.level = level
  BY <1>2, <1>5, <1>6 DEF Logging
<1>8. e \in Message /\ e.level = level /\ ~e.done
  BY <1>3 DEF Message
<1>9. /\ logged' \in Seq(Message) /\ Len(logged') = n /\ logged'[n] = e
      /\ \A k \in 1..Len(logged) : logged'[k] = logged[k]
  BY <1>1, <1>4, <1>5, <1>8, AppendProperties
<1>10. call'[t] = c /\ \A u \in Threads : u # t => call'[u] = call[u]
  BY <1>4, <1>5
<1>11. LogTyped'
  <2>1. call' \in [Threads -> {Log!Idle} \cup Logging] BY <1>4, <1>5, <1>7
  <2> QED BY <1>4, <1>9, <2>1 DEF LogInv, LogTyped
<1>12. LevelsKept
  BY <1>1, <1>5, <1>9 DEF LevelsKept
<1>13. \A u \in Threads : call'[u].at # "idle" => (u = t /\ Begins(u)) \/ (u # t /\ GoesOn(u))
  BY <1>1, <1>7, <1>10 DEF Begins, GoesOn
<1>14. ~GoesOn(t)
  BY <1>4 DEF GoesOn
<1>15. TextWasLogged' /\ HeadIsLast' /\ Log!LinesAreWhole'
  <2>1. TextsKept BY <1>4, SameTexts DEF LogInv
  <2>2. \A u \in Threads : call'[u].at = "body" => u # t BY <1>7, <1>10
  <2>3. \A u \in Threads : call'[u].at = "body" => call[u].at = "body" BY <2>2, <1>10
  <2> QED BY <2>1, <2>3, <1>11, <1>12, <1>13, KeptTexts
<1>16. CallsFit' /\ OwnMessages'
  <2>1. /\ call'[t].file \in 1..Len(files) /\ call'[t].id <= Len(logged')
        /\ logged'[call'[t].id].level = call'[t].level
    BY <1>5, <1>6, <1>7, <1>8, <1>9, <1>10
  <2>2. Len(files) <= Len(files') BY <1>4, <1>5
  <2> QED BY <2>1, <2>2, <1>11, <1>12, <1>13, <1>14, CallsKept
<1>17. WritersLock'
  BY <1>4, <1>7, <1>10 DEF LogInv, WritersLock
<1>18. Log!UrgentIsOnDisk'
  <2>1. \A k \in 1..Len(logged) : logged'[k].done => logged[k].done BY <1>9
  <2> QED BY <2>1, <1>4, <1>11, <1>12, UrgentKept
<1> QED BY <1>11, <1>15, <1>16, <1>17, <1>18 DEF LogInv

(* Lock() and a write that fails: one call moves or ends. *)
LEMMA LockLogs ==
  ASSUME LogInv, NEW t \in Threads, Log!Lock(t)
  PROVE  LogInv'
<1>1. PICK a : a = IF call[t].level = "P" THEN "body" ELSE "head"
  OBVIOUS
<1>2. /\ call[t].at = "chosen" /\ lock = "free" /\ lock' = t /\ call' = [call EXCEPT ![t].at = a]
      /\ fout' = fout /\ files' = files /\ logged' = logged /\ a \in {"head", "body"}
      /\ a = "body" => call[t].level = "P"
  BY <1>1 DEF Log!Lock
<1>3. call \in [Threads -> {Log!Idle} \cup Logging] /\ Len(files) \in Nat /\ Len(logged) \in Nat
  BY DEF LogInv, LogTyped
<1>4. PICK c : c = [call[t] EXCEPT !.at = a]
  OBVIOUS
<1>5. c \in Logging /\ c.at = a /\ c.id = call[t].id /\ c.file = call[t].file /\ c.level = call[t].level
  <2>1. call[t] \in Logging BY <1>2, CallIs DEF LogInv
  <2>2. PICK d : d = call[t] OBVIOUS
  <2>3. d \in Logging /\ c = [d EXCEPT !.at = a] /\ a \in {"chosen", "head", "body"} BY <2>1, <2>2, <1>2, <1>4
  <2>4. c \in Logging /\ c.at = a /\ c.id = d.id /\ c.file = d.file /\ c.level = d.level
    BY ONLY <2>3, MovedCall
  <2> QED BY <2>2, <2>4
<1>6. call'[t] = c /\ \A u \in Threads : u # t => call'[u] = call[u]
  BY <1>2, <1>3, <1>4
<1>7. LogTyped'
  <2>1. call' \in [Threads -> {Log!Idle} \cup Logging]
    <3>1. call' = [call EXCEPT ![t] = c] BY <1>2, <1>4
    <3> QED BY <3>1, <1>3, <1>5
  <2> QED BY <1>2, <2>1 DEF LogInv, LogTyped
<1>8. LevelsKept BY <1>2, <1>3 DEF LevelsKept
<1>9. \A u \in Threads : call'[u].at # "idle" => GoesOn(u)
  BY <1>2, <1>5, <1>6 DEF GoesOn
<1>10. TextWasLogged' /\ HeadIsLast' /\ Log!LinesAreWhole'
  <2>1. TextsKept BY <1>2, SameTexts DEF LogInv
  <2>2. \A u \in Threads : call'[u].at = "body" => call[u].at = "body" \/ call[u].level = "P"
    BY <1>2, <1>5, <1>6
  <2> QED BY <2>1, <2>2, <1>7, <1>8, <1>9, KeptTexts
<1>11. CallsFit' /\ OwnMessages'
  <2>1. Len(files) <= Len(files') BY <1>2, <1>3
  <2> QED BY <2>1, <1>7, <1>8, <1>9, CallsKept
<1>12. WritersLock'
  <2>1. \A u \in Threads : u # t => call[u].at \notin {"head", "body"}
    BY <1>2, LoggerAssumption DEF LogInv, WritersLock
  <2> QED BY <2>1, <1>2, <1>6 DEF WritersLock
<1>13. Log!UrgentIsOnDisk'
  BY <1>2, <1>7, <1>8, UrgentKept
<1> QED BY <1>7, <1>10, <1>11, <1>12, <1>13 DEF LogInv

LEMMA WriteFailsLogs ==
  ASSUME LogInv, NEW t \in Threads, Log!WriteFails(t)
  PROVE  LogInv'
<1>1. /\ call[t].at \in {"head", "body"} /\ call' = [call EXCEPT ![t] = Log!Idle]
      /\ lock' = IF lock = t THEN "free" ELSE lock
      /\ fout' = fout /\ files' = files /\ logged' = logged
  BY DEF Log!WriteFails, Log!Return
<1>2. call \in [Threads -> {Log!Idle} \cup Logging] /\ Len(files) \in Nat /\ Len(logged) \in Nat
  BY DEF LogInv, LogTyped
<1>3. call'[t].at = "idle" /\ \A u \in Threads : u # t => call'[u] = call[u]
  BY <1>1, <1>2 DEF Log!Idle
<1>4. LogTyped'
  <2>1. call' \in [Threads -> {Log!Idle} \cup Logging] BY <1>1, <1>2
  <2> QED BY <1>1, <2>1 DEF LogInv, LogTyped
<1>5. LevelsKept BY <1>1, <1>2 DEF LevelsKept
<1>6. \A u \in Threads : call'[u].at # "idle" => GoesOn(u) /\ call'[u] = call[u]
  BY <1>3 DEF GoesOn
<1>7. TextWasLogged' /\ HeadIsLast' /\ Log!LinesAreWhole'
  <2>1. TextsKept BY <1>1, SameTexts DEF LogInv
  <2> QED BY <2>1, <1>4, <1>5, <1>6, KeptTexts
<1>8. CallsFit' /\ OwnMessages'
  <2>1. Len(files) <= Len(files') BY <1>1, <1>2
  <2> QED BY <2>1, <1>4, <1>5, <1>6, CallsKept
<1>9. WritersLock'
  <2>1. \A u \in Threads : call'[u].at \in {"head", "body"} => u # t /\ lock = u
    BY <1>3 DEF LogInv, WritersLock
  <2>2. lock = t BY <1>1 DEF LogInv, WritersLock
  <2> QED BY <2>1, <2>2 DEF WritersLock
<1>10. Log!UrgentIsOnDisk'
  BY <1>1, <1>4, <1>5, UrgentKept
<1> QED BY <1>4, <1>7, <1>8, <1>9, <1>10 DEF LogInv

(* A piece written to a file, and what the C library brings to the disk. *)
LEMMA PieceAppended ==
  ASSUME NEW f \in LogFile, NEW p \in Pieces
  PROVE  LET g == [f EXCEPT !.buffered = Append(f.buffered, p)]
         IN  /\ g \in LogFile /\ Log!Text(g) = Append(Log!Text(f), p)
             /\ g.buffered = Append(f.buffered, p)
<1>1. PICK d, b : d = f.disk /\ b = f.buffered
  OBVIOUS
<1>2. d \in Seq(Pieces) /\ b \in Seq(Pieces)
  BY <1>1 DEF LogFile
<1>3. PICK c : c = Append(b, p)
  OBVIOUS
<1>4. c \in Seq(Pieces) /\ c = b \o <<p>> /\ <<p>> \in Seq(Pieces)
  BY <1>2, <1>3, AppendProperties, AppendIsConcat
<1>5. d \o b \in Seq(Pieces)
  BY <1>2, ConcatProperties
<1>6. d \o c = Append(d \o b, p)
  <2>1. d \o c = (d \o b) \o <<p>> BY <1>2, <1>4, ConcatAssociative
  <2>2. (d \o b) \o <<p>> = Append(d \o b, p) BY ONLY <1>5, AppendIsConcat, p \in Pieces
  <2> QED BY <2>1, <2>2
<1>7. PICK g : g = [f EXCEPT !.buffered = c]
  OBVIOUS
<1>8. g \in LogFile /\ g.disk = d /\ g.buffered = c
  BY ONLY <1>1, <1>7, <1>4, f \in LogFile DEF LogFile
<1>9. Log!Text(g) = d \o c /\ Log!Text(f) = d \o b
  BY <1>1, <1>8 DEF Log!Text
<1> QED BY <1>1, <1>3, <1>6, <1>7, <1>8, <1>9

LEMMA PieceDrained ==
  ASSUME NEW f \in LogFile, f.buffered # <<>>
  PROVE  LET g == [f EXCEPT !.disk = Append(f.disk, Head(f.buffered)), !.buffered = Tail(f.buffered)]
         IN  /\ g \in LogFile /\ Log!Text(g) = Log!Text(f)
             /\ g.buffered = Tail(f.buffered)
<1>1. PICK d, b : d = f.disk /\ b = f.buffered
  OBVIOUS
<1>2. d \in Seq(Pieces) /\ b \in Seq(Pieces) /\ b # <<>>
  BY <1>1 DEF LogFile
<1>3. PICK h, t : h = Head(b) /\ t = Tail(b)
  OBVIOUS
<1>4. /\ h \in Pieces /\ t \in Seq(Pieces) /\ Len(b) \in Nat \ {0} /\ Len(t) = Len(b) - 1 /\ h = b[1]
      /\ \A k \in 1..Len(t) : t[k] = b[k + 1]
  BY <1>2, <1>3, HeadTailProperties, EmptySeq
<1>5. b = <<h>> \o t
  <2>1. <<h>> \in Seq(Pieces) /\ Len(<<h>>) = 1 /\ <<h>>[1] = h BY <1>4
  <2>2. PICK u : u = <<h>> OBVIOUS
  <2>3. /\ u \o t \in Seq(Pieces) /\ Len(u \o t) = Len(u) + Len(t)
        /\ \A k \in 1..(Len(u) + Len(t)) : (u \o t)[k] = IF k <= Len(u) THEN u[k] ELSE t[k - Len(u)]
    BY <1>4, <2>1, <2>2, ConcatProperties
  <2>4. Len(u) = 1 /\ u[1] = h BY <2>1, <2>2
  <2>5. PICK w : w = u \o t OBVIOUS
  <2>6. w \in Seq(Pieces) /\ Len(w) = Len(b) BY <1>4, <2>3, <2>4, <2>5
  <2>7. ASSUME NEW k \in 1..Len(b) PROVE b[k] = w[k]
    <3>1. CASE k = 1 BY <3>1, <1>4, <2>3, <2>4, <2>5
    <3>2. CASE k # 1
      <4>1. k - 1 \in 1..Len(t) /\ w[k] = t[k - 1] BY <3>2, <1>4, <2>3, <2>4, <2>5
      <4>2. t[k - 1] = b[(k - 1) + 1] BY <4>1, <1>4
      <4> QED BY <4>1, <4>2
    <3> QED BY <3>1, <3>2
  <2>8. b = w BY <1>2, <2>6, <2>7, SeqEqual
  <2> QED BY <2>2, <2>5, <2>8
<1>6. PICK e : e = Append(d, h)
  OBVIOUS
<1>7. e \in Seq(Pieces) /\ e = d \o <<h>> /\ <<h>> \in Seq(Pieces)
  BY <1>2, <1>4, <1>6, AppendProperties, AppendIsConcat
<1>8. e \o t = d \o b
  BY <1>2, <1>4, <1>5, <1>7, ConcatAssociative
<1>9. PICK g : g = [f EXCEPT !.disk = e, !.buffered = t]
  OBVIOUS
<1>10. g \in LogFile /\ g.disk = e /\ g.buffered = t
  BY ONLY <1>4, <1>7, <1>9, f \in LogFile DEF LogFile
<1>11. Log!Text(g) = e \o t /\ Log!Text(f) = d \o b
  BY <1>1, <1>10 DEF Log!Text
<1> QED BY <1>1, <1>3, <1>6, <1>8, <1>9, <1>10, <1>11

LEMMA OneFile ==
  ASSUME LogTyped, NEW j \in 1..Len(files), NEW g \in LogFile, files' = [files EXCEPT ![j] = g]
  PROVE  /\ files' \in Seq(LogFile) /\ Len(files') = Len(files) /\ files'[j] = g
         /\ \A i \in 1..Len(files) : i # j => files'[i] = files[i]
BY ExceptSeq DEF LogTyped

LEMMA DrainLogs ==
  ASSUME LogInv, NEW j \in DOMAIN files, Log!Drain(j)
  PROVE  LogInv'
<1>1. j \in 1..Len(files) /\ Len(files) \in Nat /\ Len(logged) \in Nat
  BY DEF LogInv, LogTyped
<1>2. PICK f : f = files[j]
  OBVIOUS
<1>3. PICK g : g = [f EXCEPT !.disk = Append(f.disk, Head(f.buffered)), !.buffered = Tail(f.buffered)]
  OBVIOUS
<1>4. /\ f.buffered # <<>> /\ files' = [files EXCEPT ![j] = g]
      /\ fout' = fout /\ lock' = lock /\ call' = call /\ logged' = logged
  BY <1>2, <1>3 DEF Log!Drain
<1>5. f \in LogFile
  BY <1>1, <1>2, TextsTyped DEF LogInv
<1>6. g \in LogFile /\ Log!Text(g) = Log!Text(f) /\ g.buffered = Tail(f.buffered)
  BY ONLY <1>3, <1>4, <1>5, PieceDrained
<1>7. /\ files' \in Seq(LogFile) /\ Len(files') = Len(files) /\ files'[j] = g
      /\ \A i \in 1..Len(files) : i # j => files'[i] = files[i]
  BY <1>1, <1>4, <1>6, OneFile DEF LogInv
<1>8. LogTyped'
  BY <1>4, <1>7 DEF LogInv, LogTyped
<1>9. LevelsKept /\ \A u \in Threads : call'[u].at # "idle" => GoesOn(u) /\ call'[u] = call[u]
  BY <1>1, <1>4 DEF LevelsKept, GoesOn
<1>10. TextsKept
  BY <1>1, <1>2, <1>6, <1>7 DEF TextsKept
<1>11. TextWasLogged' /\ HeadIsLast' /\ Log!LinesAreWhole'
  BY <1>8, <1>9, <1>10, KeptTexts
<1>12. CallsFit' /\ OwnMessages'
  BY <1>1, <1>7, <1>8, <1>9, CallsKept
<1>13. WritersLock'
  BY <1>4 DEF LogInv, WritersLock
<1>14. Log!UrgentIsOnDisk'
  <2>1. PICK b : b = f.buffered OBVIOUS
  <2>2. b \in Seq(Pieces) /\ b # <<>> BY <1>4, <1>5, <2>1 DEF LogFile
  <2>3. /\ Len(Tail(b)) = Len(b) - 1 /\ Len(b) \in Nat
        /\ \A k \in 1..Len(Tail(b)) : Tail(b)[k] = b[k + 1]
    BY <2>2, HeadTailProperties
  <2>4. \A k \in 1..Len(Tail(b)) : \E m \in 1..Len(b) : Tail(b)[k] = b[m]
    BY <2>3
  <2>5. \A k \in 1..Len(files'[j].buffered) :
          \E m \in 1..Len(files[j].buffered) : files'[j].buffered[k] = files[j].buffered[m]
    <3>1. PICK v : v = files'[j].buffered OBVIOUS
    <3>2. v = Tail(b) /\ files[j].buffered = b BY <3>1, <2>1, <1>2, <1>6, <1>7
    <3> QED BY ONLY <3>1, <3>2, <2>4
  <2>6. \A i \in 1..Len(files') : \A k \in 1..Len(files'[i].buffered) :
          i \in 1..Len(files) /\ \E m \in 1..Len(files[i].buffered) : files'[i].buffered[k] = files[i].buffered[m]
    BY <2>5, <1>7
  <2> QED BY <2>6, <1>4, <1>8, <1>9, UrgentKept
<1> QED BY <1>8, <1>11, <1>12, <1>13, <1>14 DEF LogInv

LEMMA FileOfIs ==
  ASSUME LogInv, NEW t \in Threads, call[t].at # "idle", Log!Usable(Log!FileOf(t))
  PROVE  /\ Log!FileOf(t) \in 1..Len(files)
         /\ call[t].level # "P" => Log!FileOf(t) = call[t].file
<1>1. Len(files) \in Nat /\ fout["main"] \in 0..Len(files)
  BY DEF LogInv, LogTyped, Log!Streams
<1> QED BY <1>1 DEF LogInv, CallsFit, Log!FileOf, Log!Usable

LEMMA WriteHeadLogs ==
  ASSUME LogInv, NEW t \in Threads, Log!WriteHead(t)
  PROVE  LogInv'
<1>1. CASE ~Log!Usable(Log!FileOf(t))
  <2>1. UNCHANGED <<fout, files, lock, call, logged>> BY <1>1 DEF Log!WriteHead
  <2> QED BY <2>1, LogRest
<1>2. CASE Log!Usable(Log!FileOf(t))
  <2>1. PICK j, p : j = Log!FileOf(t) /\ p = <<"head", call[t].id>>
    OBVIOUS
  <2>2. PICK f : f = files[j]
    OBVIOUS
  <2>3. PICK g : g = [f EXCEPT !.buffered = Append(f.buffered, p)]
    OBVIOUS
  <2>4. PICK c : c = [call[t] EXCEPT !.at = "body"]
    OBVIOUS
  <2>5. /\ call[t].at = "head" /\ files' = [files EXCEPT ![j] = g] /\ call' = [call EXCEPT ![t] = c]
        /\ fout' = fout /\ lock' = lock /\ logged' = logged
    BY <1>2, <2>1, <2>2, <2>3, <2>4 DEF Log!WriteHead
  <2>6. /\ j \in 1..Len(files)
        /\ call[t].level # "P" => j = call[t].file
    BY <1>2, <2>1, <2>5, FileOfIs
  <2>7. /\ call \in [Threads -> {Log!Idle} \cup Logging] /\ Len(files) \in Nat /\ Len(logged) \in Nat
        /\ call[t].id \in 1..Len(logged) /\ lock = t
    BY <2>5 DEF LogInv, LogTyped, CallsFit, WritersLock
  <2>8. p \in Pieces /\ p[1] = "head" /\ p[2] = call[t].id
    BY <2>1, <2>7 DEF Pieces
  <2>9. c \in Logging /\ c.at = "body" /\ c.id = call[t].id /\ c.file = call[t].file /\ c.level = call[t].level
    <3>1. PICK d : d = call[t] OBVIOUS
    <3>2. d \in Logging /\ c = [d EXCEPT !.at = "body"] BY <3>1, <2>4, <2>5, CallIs DEF LogInv
    <3>3. c \in Logging /\ c.at = "body" /\ c.id = d.id /\ c.file = d.file /\ c.level = d.level
      BY ONLY <3>2, MovedCall
    <3> QED BY <3>1, <3>3
  <2>10. call'[t] = c /\ \A u \in Threads : u # t => call'[u] = call[u]
    BY <2>5, <2>7
  <2>11. f \in LogFile
    BY <2>2, <2>6, TextsTyped DEF LogInv
  <2>12. g \in LogFile /\ Log!Text(g) = Append(Log!Text(f), p) /\ g.buffered = Append(f.buffered, p)
    BY ONLY <2>3, <2>8, <2>11, PieceAppended
  <2>13. /\ files' \in Seq(LogFile) /\ Len(files') = Len(files) /\ files'[j] = g
         /\ \A i \in 1..Len(files) : i # j => files'[i] = files[i]
    BY <2>5, <2>6, <2>12, OneFile DEF LogInv
  <2>14. LogTyped'
    <3>1. call' \in [Threads -> {Log!Idle} \cup Logging] BY <2>5, <2>7, <2>9
    <3> QED BY <3>1, <2>5, <2>13 DEF LogInv, LogTyped
  <2>15. LevelsKept /\ \A u \in Threads : call'[u].at # "idle" => GoesOn(u)
    BY <2>5, <2>7, <2>9, <2>10 DEF LevelsKept, GoesOn
  <2>16. TextGrows(j, p)
    BY <2>2, <2>6, <2>12, <2>13 DEF TextGrows
  <2>17. TextWasLogged' /\ HeadIsLast' /\ Log!LinesAreWhole'
    <3>1. \A u \in Threads : p # <<"body", call[u].id>> BY <2>8
    <3>2. \A u \in Threads : u # t => call'[u].at = call[u].at BY <2>10
    <3>3. call[t].level # "P" => call[t].file = j /\ p = <<"head", call[t].id>> BY <2>1, <2>6
    <3>4. p[2] \in 1..Len(logged) /\ p[1] # "body" /\ Len(logged') = Len(logged) BY <2>5, <2>7, <2>8
    <3> QED BY <3>1, <3>2, <3>3, <3>4, <2>7, <2>8, <2>14, <2>15, <2>16, GrownText
  <2>18. CallsFit' /\ OwnMessages'
    BY <2>7, <2>13, <2>14, <2>15, CallsKept
  <2>19. WritersLock'
    BY <2>5, <2>7, <2>9, <2>10 DEF LogInv, WritersLock
  <2>20. Log!UrgentIsOnDisk'
    <3>1. PICK b : b = f.buffered OBVIOUS
    <3>2. b \in Seq(Pieces) BY <2>11, <3>1 DEF LogFile
    <3>3. \A k \in 1..Len(Append(b, p)) : Append(b, p)[k][1] = "head" \/ \E m \in 1..Len(b) : Append(b, p)[k] = b[m]
      <4>1. /\ Len(Append(b, p)) = Len(b) + 1 /\ Len(b) \in Nat
            /\ \A k \in 1..Len(b) : Append(b, p)[k] = b[k]
            /\ Append(b, p)[Len(b) + 1] = p
        BY <3>2, <2>8, AppendProperties
      <4> QED BY <4>1, <2>8
    <3>4. \A k \in 1..Len(files'[j].buffered) :
            files'[j].buffered[k][1] = "head"
            \/ \E m \in 1..Len(files[j].buffered) : files'[j].buffered[k] = files[j].buffered[m]
      <4>1. PICK v : v = files'[j].buffered OBVIOUS
      <4>2. v = Append(b, p) /\ files[j].buffered = b BY <4>1, <3>1, <2>2, <2>12, <2>13
      <4> QED BY ONLY <4>1, <4>2, <3>3
    <3>5. \A i \in 1..Len(files') : \A k \in 1..Len(files'[i].buffered) :
            \/ i \in 1..Len(files) /\ \E m \in 1..Len(files[i].buffered) : files'[i].buffered[k] = files[i].buffered[m]
            \/ files'[i].buffered[k][1] = "head"
      BY <3>4, <2>13
    <3> QED BY <3>5, <2>5, <2>14, <2>15, UrgentKept
  <2> QED BY <2>14, <2>17, <2>18, <2>19, <2>20 DEF LogInv
<1> QED BY <1>1, <1>2

LEMMA WriteBodyLogs ==
  ASSUME LogInv, NEW t \in Threads, Log!WriteBody(t)
  PROVE  LogInv'
<1>1. CASE ~Log!Usable(Log!FileOf(t))
  <2>1. UNCHANGED <<fout, files, lock, call, logged>> BY <1>1 DEF Log!WriteBody
  <2> QED BY <2>1, LogRest
<1>2. CASE Log!Usable(Log!FileOf(t))
  <2>1. PICK j, n, p : j = Log!FileOf(t) /\ n = call[t].id /\ p = <<"body", n>>
    OBVIOUS
  <2>2. PICK f : f = files[j]
    OBVIOUS
  <2>3. PICK e : e = [f EXCEPT !.buffered = Append(f.buffered, p)]
    OBVIOUS
  <2>4. PICK g : g = IF call[t].level \in Log!Urgent THEN Log!Flushed(e) ELSE e
    OBVIOUS
  <2>5. PICK m : m = [logged[n] EXCEPT !.done = TRUE]
    OBVIOUS
  <2>6. /\ call[t].at = "body" /\ files' = [files EXCEPT ![j] = g] /\ call' = [call EXCEPT ![t] = Log!Idle]
        /\ fout' = fout /\ lock' = (IF lock = t THEN "free" ELSE lock)
        /\ logged' = [logged EXCEPT ![n] = m]
    BY <1>2, <2>1, <2>2, <2>3, <2>4, <2>5 DEF Log!WriteBody, Log!Return
  <2>7. /\ j \in 1..Len(files)
        /\ call[t].level # "P" => j = call[t].file
    BY <1>2, <2>1, <2>6, FileOfIs
  <2>8. /\ call \in [Threads -> {Log!Idle} \cup Logging] /\ Len(files) \in Nat /\ Len(logged) \in Nat
        /\ n \in 1..Len(logged) /\ lock = t /\ logged[n].level = call[t].level /\ logged \in Seq(Message)
    BY <2>1, <2>6 DEF LogInv, LogTyped, CallsFit, WritersLock
  <2>9. p \in Pieces /\ p[1] = "body" /\ p[2] = n
    BY <2>1, <2>8 DEF Pieces
  <2>10. /\ call'[t].at = "idle" /\ \A u \in Threads : u # t => call'[u] = call[u]
    BY <2>6, <2>8 DEF Log!Idle
  <2>11. f \in LogFile
    BY <2>2, <2>7, TextsTyped DEF LogInv
  <2>12. e \in LogFile /\ Log!Text(e) = Append(Log!Text(f), p) /\ e.buffered = Append(f.buffered, p)
    BY ONLY <2>3, <2>9, <2>11, PieceAppended
  <2>13. /\ g \in LogFile /\ Log!Text(g) = Append(Log!Text(f), p)
         /\ call[t].level \in Log!Urgent => g.buffered = <<>>
         /\ call[t].level \notin Log!Urgent => g.buffered = Append(f.buffered, p)
    <3>1. PICK h : h = Log!Flushed(e) OBVIOUS
    <3>2. h \in LogFile /\ Log!Text(h) = Log!Text(e) /\ h.buffered = <<>> BY <2>12, <3>1, FlushedText
    <3>3. CASE call[t].level \in Log!Urgent BY <3>1, <3>2, <3>3, <2>4, <2>12
    <3>4. CASE call[t].level \notin Log!Urgent BY <3>4, <2>4, <2>12
    <3> QED BY <3>3, <3>4
  <2>14. /\ files' \in Seq(LogFile) /\ Len(files') = Len(files) /\ files'[j] = g
         /\ \A i \in 1..Len(files) : i # j => files'[i] = files[i]
    BY <2>6, <2>7, <2>13, OneFile DEF LogInv
  <2>15. m \in Message /\ m.level = logged[n].level
    <3>1. PICK o : o = logged[n] OBVIOUS
    <3>2. o \in Message BY <2>8, <3>1
    <3>3. m = [o EXCEPT !.done = TRUE] BY <2>5, <3>1
    <3>4. m \in Message /\ m.level = o.level BY ONLY <3>2, <3>3, TRUE \in BOOLEAN DEF Message
    <3> QED BY <3>1, <3>4
  <2>16. /\ logged' \in Seq(Message) /\ Len(logged') = Len(logged) /\ logged'[n] = m
         /\ \A k \in 1..Len(logged) : k # n => logged'[k] = logged[k]
    BY <2>6, <2>8, <2>15, ExceptSeq
  <2>17. LogTyped'
    <3>1. call' \in [Threads -> {Log!Idle} \cup Logging] BY <2>6, <2>8
    <3>2. lock' \in Threads \cup {"free"} BY <2>6, <2>8
    <3> QED BY <3>1, <3>2, <2>6, <2>14, <2>16 DEF LogInv, LogTyped
  <2>18. LevelsKept
    BY <2>8, <2>15, <2>16 DEF LevelsKept
  <2>19. \A u \in Threads : call'[u].at # "idle" => u # t /\ GoesOn(u)
    BY <2>10 DEF GoesOn
  <2>20. TextGrows(j, p)
    BY <2>2, <2>7, <2>13, <2>14 DEF TextGrows
  <2>21. TextWasLogged' /\ HeadIsLast' /\ Log!LinesAreWhole'
    <3>1. \A u \in Threads : call'[u].at # "idle" => p # <<"body", call[u].id>>
      <4>1. \A u \in Threads : call'[u].at # "idle" => call[u].id # n
        BY <2>1, <2>6, <2>19 DEF GoesOn, LogInv, OwnMessages
      <4> QED BY <4>1, <2>1
    <3>2. \A u \in Threads : u # t => call'[u].at = call[u].at BY <2>10
    <3>3. p[1] = "body" /\ logged[p[2]].level # "P" =>
            LET text == Log!Text(files[j])
            IN  Len(text) > 0 /\ text[Len(text)] = <<"head", p[2]>>
      <4>1. logged[p[2]].level = call[t].level BY <2>8, <2>9
      <4> QED BY <4>1, <2>1, <2>6, <2>7, <2>9 DEF LogInv, HeadIsLast
    <3>4. p[2] \in 1..Len(logged) /\ Len(logged') = Len(logged) BY <2>8, <2>9, <2>16
    <3>5. call'[t].at # "body" BY <2>10
    <3> QED BY <3>1, <3>2, <3>3, <3>4, <3>5, <2>8, <2>9, <2>17, <2>18, <2>19, <2>20, GrownText
  <2>22. CallsFit' /\ OwnMessages'
    BY <2>8, <2>14, <2>17, <2>18, <2>19, CallsKept
  <2>23. WritersLock'
    <3>1. \A u \in Threads : call'[u].at \in {"head", "body"} => u # t /\ lock = u
      BY <2>10 DEF LogInv, WritersLock
    <3> QED BY <3>1, <2>8 DEF WritersLock
  <2>24. Log!UrgentIsOnDisk'
    <3>1. PICK b : b = f.buffered OBVIOUS
    <3>2. b \in Seq(Pieces) BY <2>11, <3>1 DEF LogFile
    <3>3. /\ Len(Append(b, p)) = Len(b) + 1 /\ Len(b) \in Nat
          /\ \A k \in 1..Len(b) : Append(b, p)[k] = b[k]
          /\ Append(b, p)[Len(b) + 1] = p
      BY <3>2, <2>9, AppendProperties
    <3>4. logged'[n].level = call[t].level BY <2>8, <2>15, <2>16
    <3>5. \A k \in 1..Len(files'[j].buffered) :
            \/ \E l \in 1..Len(files[j].buffered) : files'[j].buffered[k] = files[j].buffered[l]
            \/ logged'[files'[j].buffered[k][2]].level \notin Log!Urgent
      <4>1. PICK v, w : v = files'[j].buffered /\ w = logged' OBVIOUS
      <4>2. files[j].buffered = b /\ w[n].level = call[t].level BY <4>1, <3>1, <3>4, <2>2
      <4>3. CASE call[t].level \in Log!Urgent
        <5>1. v = <<>> BY <4>1, <4>3, <2>13, <2>14
        <5> QED BY <5>1, <4>1
      <4>4. CASE call[t].level \notin Log!Urgent
        <5>1. v = Append(b, p) BY <4>1, <4>4, <3>1, <2>13, <2>14
        <5>2. ASSUME NEW k \in 1..Len(v)
              PROVE  (\E l \in 1..Len(b) : v[k] = b[l]) \/ w[v[k][2]].level \notin Log!Urgent
          <6>1. CASE k \in 1..Len(b) BY <6>1, <5>1, <3>3
          <6>2. CASE k \notin 1..Len(b)
            <7>1. k = Len(b) + 1 BY <6>2, <5>1, <5>2, <3>3
            <7>2. v[k][2] = n BY <7>1, <5>1, <3>3, <2>9
            <7> QED BY <7>2, <4>2, <4>4
          <6> QED BY <6>1, <6>2
        <5> QED BY <5>2, <4>1, <4>2
      <4> QED BY <4>3, <4>4
    <3>6. \A i \in 1..Len(files') : \A k \in 1..Len(files'[i].buffered) :
            \/ i \in 1..Len(files) /\ \E l \in 1..Len(files[i].buffered) : files'[i].buffered[k] = files[i].buffered[l]
            \/ logged'[files'[i].buffered[k][2]].level \notin Log!Urgent
      BY <3>5, <2>7, <2>14
    <3>7. \A k \in 1..Len(logged) : logged'[k].done =>
            logged[k].done \/ \E u \in Threads : call[u].at # "idle" /\ call[u].id = k
      BY <2>1, <2>6, <2>16
    <3> QED BY <3>6, <3>7, <2>17, <2>18, UrgentKept
  <2> QED BY <2>17, <2>21, <2>22, <2>23, <2>24 DEF LogInv
<1> QED BY <1>1, <1>2

(* The numbers that the opened files get are those behind the files so far. *)
LEMMA InitLoggerLogs ==
  ASSUME LogInv, NEW t \in Threads, NEW sub \in BOOLEAN, Log!initLogger(t, sub)
  PROVE  LogInv'
<1> DEFINE wanted == IF sub THEN Log!Streams ELSE {"main"}
           closing == {fout[s] : s \in Log!Streams} \ {0}
<1>1. wanted \subseteq Log!Streams
  BY DEF Log!Streams
<1>2. PICK opened \in SUBSET wanted :
        LET names == Log!Listed(opened)
            number(s) == Len(files) + (CHOOSE i \in DOMAIN names: names[i] = s)
        IN  /\ files' = [i \in DOMAIN files |->
                           IF i \in closing THEN [Log!Flushed(files[i]) EXCEPT !.open = FALSE] ELSE files[i]]
                        \o [i \in DOMAIN names |-> [open |-> TRUE, buffered |-> <<>>, disk |-> <<>>]]
            /\ fout' = [s \in Log!Streams |-> IF s \in opened THEN number(s)
                                              ELSE IF s \in wanted THEN 0 ELSE fout[s]]
  BY Zenon DEF Log!initLogger
<1> HIDE DEF wanted, closing
<1>3. lock' = lock /\ call' = call /\ logged' = logged
  BY DEF Log!initLogger
<1>4. /\ files \in Seq(LogFile) /\ Len(files) \in Nat /\ DOMAIN files = 1..Len(files) /\ Len(logged) \in Nat
      /\ fout \in [Log!Streams -> 0..Len(files)]
  BY DEF LogInv, LogTyped
<1>5. IsFiniteSet(opened)
  <2>1. IsFiniteSet({"main"} \cup {"operate"} \cup {"record"})
    BY FS_Singleton, FS_Union
  <2>2. opened \in SUBSET ({"main"} \cup {"operate"} \cup {"record"})
    BY <1>1 DEF Log!Streams
  <2> QED BY <2>1, <2>2, FS_Subset
<1>6. PICK names, c : names = Log!Listed(opened) /\ c = Cardinality(opened)
  OBVIOUS
<1>7. /\ names \in [1..c -> opened] /\ c \in Nat /\ DOMAIN names = 1..c
      /\ \A s \in opened : \E i \in 1..c : names[i] = s
  BY <1>5, <1>6, Numbered
<1>8. PICK old : old = [i \in 1..Len(files) |->
                          IF i \in closing THEN [Log!Flushed(files[i]) EXCEPT !.open = FALSE] ELSE files[i]]
  OBVIOUS
<1>9. PICK empty : empty = [open |-> TRUE, buffered |-> <<>>, disk |-> <<>>]
  OBVIOUS
<1>10. PICK new : new = [i \in 1..c |-> empty]
  OBVIOUS
<1>11. files' = old \o new
  BY <1>2, <1>4, <1>6, <1>7, <1>8, <1>9, <1>10
<1>12. ASSUME NEW i \in 1..Len(files)
       PROVE  /\ old[i] \in LogFile /\ Log!Text(old[i]) = Log!Text(files[i])
              /\ old[i].buffered = <<>> \/ old[i].buffered = files[i].buffered
  <2>1. PICK f : f = files[i] OBVIOUS
  <2>2. f \in LogFile BY <1>12, <2>1, TextsTyped DEF LogInv
  <2>3. PICK h : h = [Log!Flushed(f) EXCEPT !.open = FALSE] OBVIOUS
  <2>4. h \in LogFile /\ Log!Text(h) = Log!Text(f) /\ h.buffered = <<>> BY <2>2, <2>3, FlushedText
  <2>5. old[i] = h \/ old[i] = f BY <1>8, <1>12, <2>1, <2>3
  <2> QED BY <2>1, <2>2, <2>4, <2>5
<1>13. empty \in LogFile /\ Log!Text(empty) = <<>> /\ empty.buffered = <<>>
  <2>1. <<>> \in Seq(Pieces) /\ TRUE \in BOOLEAN BY EmptySeq
  <2>2. <<>> \o <<>> = <<>> BY <2>1, ConcatEmptySeq
  <2> QED BY <2>1, <2>2, <1>9 DEF LogFile, Log!Text
<1>14. old \in Seq(LogFile) /\ Len(old) = Len(files) /\ new \in Seq(LogFile) /\ Len(new) = c
  <2>1. old \in [1..Len(files) -> LogFile]
    <3>1. \A i \in 1..Len(files) : old[i] \in LogFile BY <1>12
    <3>2. DOMAIN old = 1..Len(files) /\ old = [i \in 1..Len(files) |-> old[i]] BY <1>8
    <3> QED BY <3>1, <3>2
  <2>2. new \in [1..c -> LogFile] BY <1>10, <1>13
  <2>3. PICK n : n = Len(files) OBVIOUS
  <2>4. old \in [1..n -> LogFile] /\ n \in Nat BY <2>1, <2>3, <1>4
  <2>5. old \in Seq(LogFile) /\ Len(old) = n BY ONLY <2>4
  <2>6. new \in Seq(LogFile) /\ Len(new) = c BY ONLY <2>2, <1>7
  <2> QED BY <2>3, <2>5, <2>6
<1>15. /\ files' \in Seq(LogFile) /\ Len(files') = Len(files) + c
       /\ \A i \in 1..Len(files) : files'[i] = old[i]
       /\ \A i \in (Len(files) + 1)..Len(files') : files'[i] = empty
  <2>1. /\ old \o new \in Seq(LogFile) /\ Len(old \o new) = Len(old) + Len(new)
        /\ \A i \in 1..(Len(old) + Len(new)) : (old \o new)[i] = IF i <= Len(old) THEN old[i] ELSE new[i - Len(old)]
    BY ONLY <1>14, ConcatProperties
  <2>2. \A i \in 1..c : new[i] = empty BY <1>10
  <2> QED BY <2>1, <2>2, <1>4, <1>7, <1>11, <1>14
<1>16. fout' \in [Log!Streams -> 0..Len(files')]
  <2>1. ASSUME NEW s \in opened
        PROVE  Len(files) + (CHOOSE i \in DOMAIN names: names[i] = s) \in 0..Len(files')
    <3>1. (CHOOSE i \in DOMAIN names: names[i] = s) \in 1..c BY <1>7
    <3> QED BY <3>1, <1>4, <1>7, <1>15
  <2>2. \A s \in Log!Streams : fout[s] \in 0..Len(files') BY <1>4, <1>7, <1>15
  <2>3. 0 \in 0..Len(files') BY <1>4, <1>7, <1>15
  <2>4. PICK num : num = [s \in opened |-> Len(files) + (CHOOSE i \in DOMAIN names: names[i] = s)]
    OBVIOUS
  <2>5. fout' = [s \in Log!Streams |-> IF s \in opened THEN num[s] ELSE IF s \in wanted THEN 0 ELSE fout[s]]
    BY <2>4, <1>2, <1>6
  <2>6. PICK n : n = Len(files') OBVIOUS
  <2>7. \A s \in opened : num[s] \in 0..n BY <2>1, <2>4, <2>6
  <2>8. 0 \in 0..n /\ \A s \in Log!Streams : fout[s] \in 0..n BY <2>2, <2>3, <2>6
  <2> QED BY ONLY <2>5, <2>6, <2>7, <2>8
<1>17. LogTyped'
  BY <1>3, <1>15, <1>16 DEF LogInv, LogTyped
<1>18. LevelsKept /\ \A u \in Threads : call'[u].at # "idle" => GoesOn(u) /\ call'[u] = call[u]
  BY <1>3, <1>4 DEF LevelsKept, GoesOn
<1>19. TextsKept
  <2>1. Len(files) <= Len(files')
    BY <1>4, <1>7, <1>15
  <2>2. ASSUME NEW i \in 1..Len(files) PROVE Log!Text(files'[i]) = Log!Text(files[i])
    BY <1>12, <1>15
  <2>3. ASSUME NEW i \in (Len(files) + 1)..Len(files') PROVE Log!Text(files'[i]) = <<>>
    BY <1>13, <1>15
  <2> QED BY <2>1, <2>2, <2>3 DEF TextsKept
<1>20. TextWasLogged' /\ HeadIsLast' /\ Log!LinesAreWhole'
  BY <1>17, <1>18, <1>19, KeptTexts
<1>21. CallsFit' /\ OwnMessages'
  <2>1. Len(files) <= Len(files') BY <1>4, <1>7, <1>15
  <2> QED BY <2>1, <1>17, <1>18, CallsKept
<1>22. WritersLock'
  BY <1>3 DEF LogInv, WritersLock
<1>23. Log!UrgentIsOnDisk'
  <2>1. ASSUME NEW i \in 1..Len(files'), NEW k \in 1..Len(files'[i].buffered)
        PROVE  i \in 1..Len(files) /\ \E m \in 1..Len(files[i].buffered) : files'[i].buffered[k] = files[i].buffered[m]
    <3>1. PICK v : v = files'[i].buffered OBVIOUS
    <3>2. v # <<>> BY <3>1, <2>1
    <3>3. i \in 1..Len(files) BY <3>1, <3>2, <1>4, <1>7, <1>13, <1>15
    <3>4. v = files[i].buffered BY <3>1, <3>2, <3>3, <1>12, <1>15
    <3> QED BY <3>1, <3>3, <3>4
  <2> QED BY <2>1, <1>3, <1>17, <1>18, UrgentKept
<1> QED BY <1>17, <1>20, <1>21, <1>22, <1>23 DEF LogInv

LEMMA LogSteps == LogInv /\ [Log!Next]_loggerVars => LogInv'
<1>1. ASSUME LogInv, UNCHANGED loggerVars PROVE LogInv'
  BY <1>1, LogRest DEF loggerVars
<1>2. ASSUME LogInv, Log!Next PROVE LogInv'
  BY <1>2, ChooseLogs, LockLogs, WriteHeadLogs, WriteBodyLogs, WriteFailsLogs, DrainLogs, InitLoggerLogs
     DEF Log!Next
<1> QED BY <1>1, <1>2

LEMMA LogTold == LogInv => LogCanBeTrusted
<1> SUFFICES ASSUME LogInv PROVE LogCanBeTrusted
  OBVIOUS
<1>1. Log!TypeOK
  <2>1. \A t \in Threads : call[t].at \in {"idle", "chosen", "head", "body"}
    BY DEF LogInv, LogTyped, Logging, Log!Idle
  <2> QED BY <2>1 DEF LogInv, LogTyped, WritersLock, Log!TypeOK
<1> QED BY <1>1 DEF LogInv, LogCanBeTrusted, Log!LogCanBeTrusted

(* Whatever threads log while the log is initialised again, what is in the
   files after a crash can be relied on. *)
THEOREM LogsCanBeTrusted == HelpersSpec => []LogCanBeTrusted
<1>1. HelpersInit => LogInv
  BY InitLogs DEF HelpersInit
<1>2. LogInv /\ [HelpersNext]_helperVars => LogInv'
  <2> SUFFICES ASSUME LogInv, [HelpersNext]_helperVars PROVE LogInv'
    OBVIOUS
  <2>1. [Log!Next]_loggerVars
    BY DEF HelpersNext, helperVars, loggerVars, UseRing, UseBuffer, UseTime, UsePelco, UseLog, UseConfig
  <2> QED BY <2>1, LogSteps
<1> QED BY <1>1, <1>2, LogTold, PTL DEF HelpersSpec

-----------------------------------------------------------------------------
(* The PTZ driver's frame scanner                                          *)

(* The sets of numbers a frame is made of, named: the provers are lost in the
   numerals otherwise. *)
Octets == 0..255
Sevens == 0..140
Axes == {89, 91}
AngleFrames == [addr: Addresses, cmd2: Axes, high: Highs, low: Lows]
Angles == [cmd2: Axes, val: 0..36095]

\* The p-th byte of the frames that were sent.
ByteOf(fr, p) == Pelco!FrameBytes(fr[(p - 1) \div 7 + 1])[((p - 1) % 7) + 1]

LEMMA FrameTyped ==
  ASSUME NEW f \in AngleFrames
  PROVE  f.addr \in Octets /\ f.cmd2 \in Axes /\ f.high \in Sevens /\ f.low \in Octets
<1>1. f.addr \in Addresses /\ f.cmd2 \in Axes /\ f.high \in Highs /\ f.low \in Lows
  BY DEF AngleFrames
<1>2. Addresses \subseteq Octets /\ Highs \subseteq Sevens /\ Lows \subseteq Octets
  BY PelcoAssumption DEF Octets, Sevens
<1> QED BY <1>1, <1>2, Zenon

LEMMA FrameBytesAre ==
  ASSUME NEW f \in AngleFrames, NEW b, b = Pelco!FrameBytes(f)
  PROVE  /\ b[1] = 255 /\ b[2] = f.addr /\ b[3] = 0 /\ b[4] = f.cmd2 /\ b[5] = f.high /\ b[6] = f.low
         /\ b \in Seq(Octets) /\ Len(b) = 7
<1>1. PICK a \in Octets : a = f.addr
  BY FrameTyped
<1>2. PICK x \in Axes : x = f.cmd2
  BY FrameTyped
<1>3. PICK h \in Sevens : h = f.high
  BY FrameTyped
<1>4. PICK l \in Octets : l = f.low
  BY FrameTyped
<1>5. PICK sum : sum = Pelco!Byte(a + x + h + l)
  OBVIOUS
<1>6. a \in Nat /\ x \in Nat /\ h \in Nat /\ l \in Nat
  BY DEF Octets, Axes, Sevens
<1>7. sum \in Octets
  <2>1. PICK n \in Nat : n = a + x + h + l
    BY <1>6
  <2>2. sum = Pelco!Byte(n)
    BY <1>5, <2>1, Zenon
  <2> QED BY ONLY <2>2, n \in Nat DEF Pelco!Byte, Octets
<1>8. b = <<255, a, 0, x, h, l, sum>>
  BY <1>1, <1>2, <1>3, <1>4, <1>5, Zenon DEF Pelco!FrameBytes
<1>9. 255 \in Octets /\ 0 \in Octets /\ x \in Octets /\ h \in Octets
  BY DEF Octets, Axes, Sevens
<1>10. b \in Seq(Octets) /\ Len(b) = 7
  BY ONLY <1>7, <1>8, <1>9, a \in Octets, l \in Octets
<1>11. b[1] = 255 /\ b[2] = a /\ b[3] = 0 /\ b[4] = x /\ b[5] = h /\ b[6] = l
  BY ONLY <1>8
<1> QED BY <1>1, <1>2, <1>3, <1>4, <1>10, <1>11, Zenon

\* Seven bytes that pass for a frame of the driver's camera are one, or their
\* fourth byte is that of no angle: the low byte of an angle is taken for the
\* head of a frame, and the address in the frame behind it for the command.
LEMMA AlignedOrNoAngle ==
  ASSUME NEW fr \in Seq(AngleFrames), NEW p \in Nat \ {0}, p + 6 <= 7 * Len(fr),
         ByteOf(fr, p) = 255, ByteOf(fr, p + 1) = m_addr,
         ByteOf(fr, p + 6) = Pelco!Byte(ByteOf(fr, p + 1) + ByteOf(fr, p + 2) + ByteOf(fr, p + 3)
                                          + ByteOf(fr, p + 4) + ByteOf(fr, p + 5)),
         ByteOf(fr, p + 3) \in Axes
  PROVE  (p - 1) % 7 = 0
<1>1. PICK q \in Nat, o \in 0..6 : p = 7 * q + o + 1 /\ (p - 1) % 7 = o
  <2>1. PICK z \in Nat : z = p - 1 /\ p = z + 1
    OBVIOUS
  <2>2. PICK q \in Nat : q = z \div 7
    OBVIOUS
  <2>3. PICK o \in 0..6 : o = z % 7
    OBVIOUS
  <2>4. z = 7 * q + o
    BY ONLY <2>2, <2>3, z \in Nat
  <2>5. p = 7 * q + o + 1
    BY ONLY <2>1, <2>4, z \in Nat, q \in Nat, o \in 0..6
  <2> QED BY <2>1, <2>3, <2>5, Zenon
<1>2. Len(fr) \in Nat /\ q + 1 \in 1..Len(fr) /\ (o > 0 => q + 2 \in 1..Len(fr))
  BY <1>1
<1>3. PICK f : f = fr[q + 1]
  OBVIOUS
<1>4. PICK g : g = fr[q + 2]
  OBVIOUS
<1>5. PICK b : b = Pelco!FrameBytes(f)
  OBVIOUS
<1>6. PICK c : c = Pelco!FrameBytes(g)
  OBVIOUS
<1>7. ASSUME NEW n \in 0..6, o + n <= 6 PROVE ByteOf(fr, p + n) = b[o + n + 1]
  <2>1. PICK u \in 0..6 : u = o + n
    BY <1>7
  <2>2. p + n = 7 * q + u + 1
    BY <1>1, <2>1
  <2>3. ByteOf(fr, p + n) = Pelco!FrameBytes(fr[q + 1])[u + 1]
    <3>1. PICK k \in Nat : k = p + n
      OBVIOUS
    <3>2. (k - 1) \div 7 = q /\ (k - 1) % 7 = u
      BY ONLY <2>2, <3>1, q \in Nat, u \in 0..6
    <3> QED BY <3>1, <3>2, Zenon DEF ByteOf
  <2> QED BY <2>1, <2>3, <1>3, <1>5, Zenon
<1>8. ASSUME NEW n \in 0..6, o + n > 6 PROVE ByteOf(fr, p + n) = c[o + n - 6]
  <2>1. PICK u \in 0..6 : u = o + n - 7 /\ u + 1 = o + n - 6
    BY <1>8
  <2>2. PICK w \in Nat : w = q + 1 /\ w + 1 = q + 2
    OBVIOUS
  <2>3. p + n = 7 * w + u + 1
    BY <1>1, <2>1, <2>2
  <2>4. ByteOf(fr, p + n) = Pelco!FrameBytes(fr[w + 1])[u + 1]
    <3>1. PICK k \in Nat : k = p + n
      OBVIOUS
    <3>2. (k - 1) \div 7 = w /\ (k - 1) % 7 = u
      BY ONLY <2>3, <3>1, w \in Nat, u \in 0..6
    <3> QED BY <3>1, <3>2, Zenon DEF ByteOf
  <2> QED BY <2>1, <2>2, <2>4, <1>4, <1>6, Zenon
<1>9. /\ b[1] = 255 /\ b[3] = 0 /\ b[4] \in Axes /\ b[5] \in Sevens
  <2>1. f \in AngleFrames
    BY <1>2, <1>3
  <2>2. b[1] = 255 /\ b[2] = f.addr /\ b[3] = 0 /\ b[4] = f.cmd2 /\ b[5] = f.high
    BY <2>1, <1>5, FrameBytesAre
  <2>3. f.addr \in Octets /\ f.cmd2 \in Axes /\ f.high \in Sevens
    BY <2>1, FrameTyped
  <2> QED BY ONLY <2>2, <2>3
<1>10. ASSUME o > 0
       PROVE  /\ c[1] = 255 /\ c[2] \in Octets /\ c[3] = 0 /\ c[4] \in Axes /\ c[5] \in Sevens
  <2>1. g \in AngleFrames
    BY <1>2, <1>4, <1>10
  <2>2. c[1] = 255 /\ c[2] = g.addr /\ c[3] = 0 /\ c[4] = g.cmd2 /\ c[5] = g.high
    BY <2>1, <1>6, FrameBytesAre
  <2>3. g.addr \in Octets /\ g.cmd2 \in Axes /\ g.high \in Sevens
    BY <2>1, FrameTyped
  <2> QED BY ONLY <2>2, <2>3
<1>11. p + 0 = p /\ m_addr = 1
  BY PelcoAssumption
<1>12. ASSUME o = 1 PROVE FALSE
  <2>1. ByteOf(fr, p + 1) = b[o + 1 + 1] /\ o + 1 + 1 = 3
    BY <1>7, <1>12
  <2>2. ByteOf(fr, p + 1) = b[3]
    BY <2>1, Zenon
  <2> QED BY ONLY <2>2, <1>9, <1>11, ByteOf(fr, p + 1) = m_addr
<1>13. ASSUME o \in {2, 3, 4} PROVE FALSE
  <2>1. ByteOf(fr, p + 0) = b[o + 0 + 1] /\ o + 0 + 1 \in {3, 4, 5}
    BY <1>7, <1>13
  <2>2. PICK n \in {3, 4, 5} : n = o + 0 + 1
    BY <2>1
  <2>3. b[n] # 255
    <3>1. b[3] # 255 /\ b[4] # 255 /\ b[5] # 255
      <4>1. 0 # 255 /\ 255 \notin Axes /\ 255 \notin Sevens
        BY DEF Axes, Sevens
      <4> QED BY <4>1, <1>9, Zenon
    <3>2. n = 3 \/ n = 4 \/ n = 5
      OBVIOUS
    <3> QED BY ONLY <3>1, <3>2, Zenon
  <2>4. ByteOf(fr, p) = b[n]
    BY <1>11, <2>1, <2>2, Zenon
  <2> QED BY ONLY <2>3, <2>4, ByteOf(fr, p) = 255
<1>14. ASSUME o = 5 PROVE FALSE
  <2>0. /\ o + 2 > 6 /\ o + 3 > 6 /\ o + 4 > 6 /\ o + 5 > 6 /\ o + 6 > 6
        /\ o + 2 - 6 = 1 /\ o + 3 - 6 = 2 /\ o + 4 - 6 = 3 /\ o + 5 - 6 = 4 /\ o + 6 - 6 = 5
    BY <1>14
  <2>a. /\ ByteOf(fr, p + 2) = c[o + 2 - 6] /\ ByteOf(fr, p + 3) = c[o + 3 - 6] /\ ByteOf(fr, p + 4) = c[o + 4 - 6]
        /\ ByteOf(fr, p + 5) = c[o + 5 - 6] /\ ByteOf(fr, p + 6) = c[o + 6 - 6]
    BY <1>8, <2>0
  <2>1. /\ ByteOf(fr, p + 2) = c[1] /\ ByteOf(fr, p + 3) = c[2] /\ ByteOf(fr, p + 4) = c[3]
        /\ ByteOf(fr, p + 5) = c[4] /\ ByteOf(fr, p + 6) = c[5]
    BY <2>0, <2>a, Zenon
  <2>2. PICK x \in Axes : x = c[2]
    BY <2>1
  <2>3. PICK y \in Axes : y = c[4]
    BY <1>10, <1>14
  <2>4. c[1] = 255 /\ c[3] = 0 /\ c[5] \in Sevens
    BY <1>10, <1>14
  <2>b. /\ ByteOf(fr, p + 1) = 1 /\ ByteOf(fr, p + 2) = 255 /\ ByteOf(fr, p + 3) = x
        /\ ByteOf(fr, p + 4) = 0 /\ ByteOf(fr, p + 5) = y
    BY <2>1, <2>2, <2>3, <2>4, <1>11, Zenon
  <2>c. ByteOf(fr, p + 1) + ByteOf(fr, p + 2) + ByteOf(fr, p + 3) + ByteOf(fr, p + 4) + ByteOf(fr, p + 5)
          = 1 + 255 + x + 0 + y
    BY <2>b, Zenon
  <2>5. c[5] = Pelco!Byte(1 + 255 + x + 0 + y)
    BY <2>1, <2>c, Zenon
  <2>6. PICK n \in 178..182 : n = x + y
    BY DEF Axes
  <2>7. 1 + 255 + x + 0 + y = 256 + n
    BY <2>6 DEF Axes
  <2>8. c[5] = (256 + n) % 256
    BY <2>5, <2>7, Zenon DEF Pelco!Byte
  <2>9. (256 + n) % 256 = n
    BY ONLY n \in 178..182
  <2>10. n \notin Sevens
    BY ONLY n \in 178..182 DEF Sevens
  <2> QED BY ONLY <2>4, <2>8, <2>9, <2>10
<1>15. ASSUME o = 6 PROVE FALSE
  <2>1. ByteOf(fr, p + 1) = c[o + 1 - 6] /\ o + 1 - 6 = 1
    BY <1>8, <1>15
  <2>2. c[1] = 255
    BY <1>10, <1>15
  <2>3. ByteOf(fr, p + 1) = 255
    BY <2>1, <2>2, Zenon
  <2> QED BY ONLY <2>3, <1>11, ByteOf(fr, p + 1) = m_addr
<1> QED BY <1>1, <1>12, <1>13, <1>14, <1>15

\* Angles told from frames of the camera between two places of the stream, in
\* the order of the frames.
Told(fr, s, lo, hi) ==
  /\ s \in Seq(Angles)
  /\ \E of \in [DOMAIN s -> DOMAIN fr] :
       /\ \A i \in DOMAIN s : /\ fr[of[i]].addr = m_addr /\ s[i] = Pelco!Angle(fr[of[i]])
                              /\ lo <= 7 * (of[i] - 1) /\ 7 * of[i] <= hi
       /\ \A i, j \in DOMAIN s : i < j => of[i] < of[j]

LEMMA ToldNothing ==
  ASSUME NEW fr, NEW lo, NEW hi
  PROVE  Told(fr, <<>>, lo, hi)
<1>1. PICK none : none = [x \in {} |-> x]
  OBVIOUS
<1>2. none \in [{} -> DOMAIN fr] /\ DOMAIN <<>> = {} /\ <<>> \in Seq(Angles)
  BY <1>1
<1> QED BY <1>2 DEF Told

LEMMA ToldOfMore ==
  ASSUME NEW fr \in Seq(AngleFrames), NEW s, NEW lo \in Int, NEW hi \in Int, Told(fr, s, lo, hi),
         NEW l \in Int, NEW h \in Int, l <= lo, hi <= h
  PROVE  Told(fr, s, l, h)
<1>1. PICK of \in [DOMAIN s -> DOMAIN fr] :
        /\ \A i \in DOMAIN s : /\ fr[of[i]].addr = m_addr /\ s[i] = Pelco!Angle(fr[of[i]])
                               /\ lo <= 7 * (of[i] - 1) /\ 7 * of[i] <= hi
        /\ \A i, j \in DOMAIN s : i < j => of[i] < of[j]
  BY DEF Told
<1>2. ASSUME NEW i \in DOMAIN s PROVE l <= 7 * (of[i] - 1) /\ 7 * of[i] <= h
  <2>1. of[i] \in Nat
    OBVIOUS
  <2>2. PICK n \in Nat : n = of[i]
    BY <2>1
  <2>3. lo <= 7 * (n - 1) /\ 7 * n <= hi
    BY <1>1, <2>2
  <2> QED BY ONLY <2>2, <2>3, lo \in Int, hi \in Int, l \in Int, h \in Int, l <= lo, hi <= h
<1>3. /\ \A i \in DOMAIN s : /\ fr[of[i]].addr = m_addr /\ s[i] = Pelco!Angle(fr[of[i]])
                             /\ l <= 7 * (of[i] - 1) /\ 7 * of[i] <= h
      /\ \A i, j \in DOMAIN s : i < j => of[i] < of[j]
  BY <1>1, <1>2
<1>4. s \in Seq(Angles)
  BY DEF Told
<1> QED BY <1>3, <1>4 DEF Told

\* A frame's angle.
LEMMA ToldOne ==
  ASSUME NEW fr \in Seq(AngleFrames), NEW k \in DOMAIN fr, fr[k].addr = m_addr,
         NEW a, a = Pelco!Angle(fr[k])
  PROVE  Told(fr, <<a>>, 7 * (k - 1), 7 * k)
<1>1. fr[k] \in AngleFrames /\ k \in Nat
  OBVIOUS
<1>2. PICK f \in AngleFrames : f = fr[k]
  BY <1>1
<1>3. f.cmd2 \in Axes /\ f.high \in Sevens /\ f.low \in Octets
  BY FrameTyped
<1>4. PICK v : v = f.high * 256 + f.low
  OBVIOUS
<1>5. v \in 0..36095
  <2>1. PICK h \in Sevens : h = f.high
    BY <1>3
  <2>2. PICK l \in Octets : l = f.low
    BY <1>3
  <2>3. v = h * 256 + l
    BY <1>4, <2>1, <2>2, Zenon
  <2> QED BY ONLY <2>3, h \in Sevens, l \in Octets DEF Sevens, Octets
<1>6. a \in Angles
  <2>1. a = [cmd2 |-> f.cmd2, val |-> f.high * 256 + f.low]
    BY <1>2, Zenon DEF Pelco!Angle
  <2>2. a = [cmd2 |-> f.cmd2, val |-> v]
    BY <2>1, <1>4, Zenon
  <2> QED BY ONLY <2>2, <1>3, <1>5 DEF Angles
<1>7. PICK s : s = <<a>>
  OBVIOUS
<1>8. s \in Seq(Angles) /\ DOMAIN s = {1} /\ s[1] = a
  BY <1>6, <1>7
<1>9. PICK of : of = [i \in {1} |-> k]
  OBVIOUS
<1>10. of \in [DOMAIN s -> DOMAIN fr] /\ \A i \in DOMAIN s : i = 1 /\ of[i] = k
  BY <1>8, <1>9
<1>11. \A i \in DOMAIN s : /\ fr[of[i]].addr = m_addr /\ s[i] = Pelco!Angle(fr[of[i]])
                           /\ 7 * (k - 1) <= 7 * (of[i] - 1) /\ 7 * of[i] <= 7 * k
  BY <1>1, <1>8, <1>10
<1>12. \A i, j \in DOMAIN s : i < j => of[i] < of[j]
  BY <1>10
<1>13. Told(fr, s, 7 * (k - 1), 7 * k)
  BY <1>8, <1>10, <1>11, <1>12 DEF Told
<1> QED BY <1>7, <1>13, Zenon

LEMMA ToldBoth ==
  ASSUME NEW fr \in Seq(AngleFrames), NEW s, NEW t, NEW lo \in Int, NEW mid \in Int, NEW hi \in Int,
         lo <= mid, mid <= hi, Told(fr, s, lo, mid), Told(fr, t, mid, hi)
  PROVE  Told(fr, s \o t, lo, hi)
<1>1. PICK f \in [DOMAIN s -> DOMAIN fr] :
        /\ \A i \in DOMAIN s : /\ fr[f[i]].addr = m_addr /\ s[i] = Pelco!Angle(fr[f[i]])
                               /\ lo <= 7 * (f[i] - 1) /\ 7 * f[i] <= mid
        /\ \A i, j \in DOMAIN s : i < j => f[i] < f[j]
  BY DEF Told
<1>2. PICK g \in [DOMAIN t -> DOMAIN fr] :
        /\ \A i \in DOMAIN t : /\ fr[g[i]].addr = m_addr /\ t[i] = Pelco!Angle(fr[g[i]])
                               /\ mid <= 7 * (g[i] - 1) /\ 7 * g[i] <= hi
        /\ \A i, j \in DOMAIN t : i < j => g[i] < g[j]
  BY DEF Told
<1>3. s \in Seq(Angles) /\ t \in Seq(Angles)
  BY DEF Told
<1>4. PICK r : r = s \o t
  OBVIOUS
<1>5. PICK m \in Nat : m = Len(s)
  BY <1>3
<1>6. PICK n \in Nat : n = Len(t)
  BY <1>3
<1>7. DOMAIN s = 1..m /\ DOMAIN t = 1..n
  BY <1>3, <1>5, <1>6
<1>8. /\ r \in Seq(Angles) /\ DOMAIN r = 1..(m + n)
      /\ \A i \in 1..m : r[i] = s[i]
      /\ \A i \in (m + 1)..(m + n) : r[i] = t[i - m]
  BY <1>3, <1>4, <1>5, <1>6
<1>9. PICK of : of = [i \in 1..(m + n) |-> IF i \in 1..m THEN f[i] ELSE g[i - m]]
  OBVIOUS
<1>10. ASSUME NEW i \in 1..(m + n)
       PROVE  \/ i \in 1..m /\ of[i] = f[i] /\ r[i] = s[i]
              \/ i - m \in 1..n /\ i > m /\ of[i] = g[i - m] /\ r[i] = t[i - m]
  <2>1. CASE i \in 1..m
    BY <1>8, <1>9, <2>1
  <2>2. CASE i \notin 1..m
    <3>1. i - m \in 1..n /\ i > m /\ i \in (m + 1)..(m + n)
      BY <2>2
    <3> QED BY <1>8, <1>9, <2>2, <3>1
  <2> QED BY <2>1, <2>2
<1>11. \A i \in 1..m : f[i] \in DOMAIN fr /\ f[i] \in Nat
  BY <1>7
<1>12. \A i \in 1..n : g[i] \in DOMAIN fr /\ g[i] \in Nat
  BY <1>7
<1>13. of \in [DOMAIN r -> DOMAIN fr]
  <2>1. \A i \in 1..(m + n) : of[i] \in DOMAIN fr
    BY <1>10, <1>11, <1>12
  <2> QED BY <1>8, <1>9, <2>1
<1>14. ASSUME NEW i \in DOMAIN r
       PROVE  /\ fr[of[i]].addr = m_addr /\ r[i] = Pelco!Angle(fr[of[i]])
              /\ lo <= 7 * (of[i] - 1) /\ 7 * of[i] <= hi
  <2>1. CASE i \in 1..m /\ of[i] = f[i] /\ r[i] = s[i]
    <3>1. PICK o \in Nat : o = f[i]
      BY <1>11, <2>1
    <3>2. lo <= 7 * (o - 1) /\ 7 * o <= mid
      BY <1>1, <1>7, <2>1, <3>1
    <3>3. 7 * o <= hi
      BY ONLY <3>2, mid <= hi, mid \in Int, hi \in Int
    <3> QED BY <1>1, <1>7, <2>1, <3>1, <3>2, <3>3
  <2>2. CASE i - m \in 1..n /\ of[i] = g[i - m] /\ r[i] = t[i - m]
    <3>1. PICK o \in Nat : o = g[i - m]
      BY <1>12, <2>2
    <3>2. mid <= 7 * (o - 1) /\ 7 * o <= hi
      BY <1>2, <1>7, <2>2, <3>1
    <3>3. lo <= 7 * (o - 1)
      BY ONLY <3>2, lo <= mid, mid \in Int, lo \in Int
    <3> QED BY <1>2, <1>7, <2>2, <3>1, <3>2, <3>3
  <2> QED BY <1>8, <1>10, <2>1, <2>2
<1>15. ASSUME NEW i \in DOMAIN r, NEW j \in DOMAIN r, i < j PROVE of[i] < of[j]
  <2>1. i \in Nat /\ j \in Nat
    BY <1>8
  <2>2. CASE i \in 1..m /\ of[i] = f[i] /\ j \in 1..m /\ of[j] = f[j]
    BY <1>1, <1>7, <1>15, <2>2
  <2>3. CASE i \in 1..m /\ of[i] = f[i] /\ j - m \in 1..n /\ of[j] = g[j - m]
    <3>1. PICK o \in Nat : o = f[i]
      BY <1>11, <2>3
    <3>2. PICK u \in Nat : u = g[j - m]
      BY <1>12, <2>3
    <3>3. 7 * o <= mid /\ mid <= 7 * (u - 1)
      BY <1>1, <1>2, <1>7, <2>3, <3>1, <3>2
    <3>4. o < u
      BY ONLY <3>3, mid \in Int
    <3> QED BY <2>3, <3>1, <3>2, <3>4
  <2>4. CASE i - m \in 1..n /\ of[i] = g[i - m] /\ j - m \in 1..n /\ of[j] = g[j - m]
    <3>1. i - m < j - m
      BY <1>15, <2>1
    <3> QED BY <1>2, <1>7, <2>4, <3>1
  <2>5. CASE i > m /\ j \in 1..m
    BY <1>15, <2>1, <2>5
  <2> QED BY <1>8, <1>10, <2>2, <2>3, <2>4, <2>5
<1>16. Told(fr, r, lo, hi)
  BY <1>8, <1>13, <1>14, <1>15 DEF Told
<1> QED BY <1>4, <1>16, Zenon

\* More frames are sent.
LEMMA ToldStill ==
  ASSUME NEW fr \in Seq(AngleFrames), NEW f \in AngleFrames, NEW s, NEW lo, NEW hi, Told(fr, s, lo, hi)
  PROVE  Told(Append(fr, f), s, lo, hi)
<1>1. PICK r : r = Append(fr, f)
  OBVIOUS
<1>2. DOMAIN fr \subseteq DOMAIN r /\ \A k \in DOMAIN fr : r[k] = fr[k]
  BY <1>1
<1>3. PICK of \in [DOMAIN s -> DOMAIN fr] :
        /\ \A i \in DOMAIN s : /\ fr[of[i]].addr = m_addr /\ s[i] = Pelco!Angle(fr[of[i]])
                               /\ lo <= 7 * (of[i] - 1) /\ 7 * of[i] <= hi
        /\ \A i, j \in DOMAIN s : i < j => of[i] < of[j]
  BY DEF Told
<1>4. /\ of \in [DOMAIN s -> DOMAIN r]
      /\ \A i \in DOMAIN s : of[i] \in DOMAIN fr /\ r[of[i]] = fr[of[i]]
  BY <1>2
<1>5. \A i \in DOMAIN s : /\ r[of[i]].addr = m_addr /\ s[i] = Pelco!Angle(r[of[i]])
                          /\ lo <= 7 * (of[i] - 1) /\ 7 * of[i] <= hi
  BY <1>3, <1>4
<1>6. s \in Seq(Angles)
  BY DEF Told
<1>7. Told(r, s, lo, hi)
  BY <1>3, <1>4, <1>5, <1>6 DEF Told
<1> QED BY <1>1, <1>7, Zenon

LEMMA NumbersFromZero ==
  ASSUME NEW S, 0 \in S, \A n \in Nat : n \in S => n + 1 \in S
  PROVE  Nat \subseteq S
<1> SUFFICES ASSUME Nat \ S # {} PROVE FALSE
  OBVIOUS
<1> DEFINE Less == {ss \in Nat \X Nat : ss[1] < ss[2]}
<1>1. IsWellFoundedOn(Less, Nat)
  BY NatLessThanWellFounded DEF OpToRel
<1>2. \E n \in Nat \ S : \A t \in Nat \ S : ~(<<t, n>> \in Less)
  BY <1>1, WFMin
<1>3. PICK n \in Nat \ S : \A t \in Nat \ S : ~(<<t, n>> \in Less)
  BY <1>2
<1>4. n # 0
  BY <1>3
<1>5. n - 1 \in Nat /\ (n - 1) + 1 = n /\ n - 1 < n
  BY <1>4
<1>6. n - 1 \in S
  BY <1>3, <1>5
<1> QED BY <1>3, <1>5, <1>6

\* What OnRawDataReceived() finds from the i-th byte on.
StepAt(data, f, i) ==
  CASE i > Len(data) - 6 -> <<>>
    [] i <= Len(data) - 6 /\ Pelco!IsFrame(data, i) -> Pelco!ParsePelcoResponse(data, i) \o f[i + 7]
    [] OTHER -> f[i + 1]

Scan(data, lo, f) == f = [i \in lo..Len(data) + 7 |-> StepAt(data, f, i)]

LEMMA StepAtEnd ==
  ASSUME NEW data \in Seq(Octets), NEW f, NEW i \in Nat, i > Len(data) - 6
  PROVE  StepAt(data, f, i) = <<>>
<1>1. ~(i <= Len(data) - 6)
  OBVIOUS
<1> QED BY <1>1, Zenon DEF StepAt

LEMMA StepAtFrame ==
  ASSUME NEW data \in Seq(Octets), NEW f, NEW i \in Nat, i <= Len(data) - 6, Pelco!IsFrame(data, i)
  PROVE  StepAt(data, f, i) = Pelco!ParsePelcoResponse(data, i) \o f[i + 7]
<1>1. ~(i > Len(data) - 6)
  OBVIOUS
<1> QED BY <1>1, Zenon DEF StepAt

LEMMA StepAtOther ==
  ASSUME NEW data \in Seq(Octets), NEW f, NEW i \in Nat, i <= Len(data) - 6, ~Pelco!IsFrame(data, i)
  PROVE  StepAt(data, f, i) = f[i + 1]
<1>1. ~(i > Len(data) - 6)
  OBVIOUS
<1> QED BY <1>1, Zenon DEF StepAt

LEMMA StepsAgree ==
  ASSUME NEW data \in Seq(Octets), NEW f, NEW g, NEW i \in Nat,
         \A j \in (i + 1)..(Len(data) + 7) : f[j] = g[j]
  PROVE  StepAt(data, f, i) = StepAt(data, g, i)
<1>1. CASE i > Len(data) - 6
  BY <1>1, StepAtEnd
<1>2. CASE i <= Len(data) - 6
  <2>1. f[i + 1] = g[i + 1] /\ f[i + 7] = g[i + 7]
    <3>1. i + 1 \in (i + 1)..(Len(data) + 7) /\ i + 7 \in (i + 1)..(Len(data) + 7)
      BY <1>2
    <3> QED BY <3>1
  <2>2. CASE Pelco!IsFrame(data, i)
    BY <1>2, <2>1, <2>2, StepAtFrame
  <2>3. CASE ~Pelco!IsFrame(data, i)
    BY <1>2, <2>1, <2>3, StepAtOther
  <2> QED BY <2>2, <2>3
<1> QED BY <1>1, <1>2

LEMMA ScanExists ==
  ASSUME NEW data \in Seq(Octets)
  PROVE  \E f : Scan(data, 1, f)
<1> DEFINE N == Len(data)
           S == {m \in Nat : m <= N + 6 => \E f : Scan(data, N + 7 - m, f)}
<1>0. N \in Nat
  OBVIOUS
<1> HIDE DEF N
<1>1. 0 \in S
  <2> DEFINE f == [i \in (N + 7)..(N + 7) |-> <<>>]
  <2>1. ASSUME NEW i \in (N + 7)..(N + 7) PROVE StepAt(data, f, i) = <<>>
    <3> HIDE DEF f
    <3>1. i \in Nat /\ i > Len(data) - 6
      BY <1>0 DEF N
    <3> QED BY <3>1, StepAtEnd
  <2>2. f = [i \in (N + 7)..(N + 7) |-> StepAt(data, f, i)]
    BY <2>1
  <2>3. Scan(data, N + 7 - 0, f)
    <3>1. N + 7 - 0 = N + 7
      BY <1>0
    <3> HIDE DEF f
    <3> QED BY <2>2, <3>1, Zenon DEF Scan, N
  <2> QED BY <2>3
<1>2. ASSUME NEW m \in Nat, m \in S PROVE m + 1 \in S
  <2> SUFFICES ASSUME m + 1 <= N + 6 PROVE \E f : Scan(data, N + 7 - (m + 1), f)
    OBVIOUS
  <2>1. PICK f : Scan(data, N + 7 - m, f)
    BY <1>0, <1>2
  <2>2. PICK lo \in Nat : lo = N + 7 - (m + 1) /\ lo + 1 = N + 7 - m /\ lo <= N + 6
    BY <1>0
  <2>3. f = [i \in (lo + 1)..(N + 7) |-> StepAt(data, f, i)]
    BY <2>1, <2>2, Zenon DEF Scan, N
  <2> DEFINE g == [i \in lo..(N + 7) |-> IF i = lo THEN StepAt(data, f, lo) ELSE f[i]]
  <2>4. g[lo] = StepAt(data, f, lo) /\ \A j \in (lo + 1)..(N + 7) : g[j] = f[j]
    BY <1>0, <2>2
  <2>5. ASSUME NEW i \in lo..(N + 7) PROVE g[i] = StepAt(data, g, i)
    <3>1. StepAt(data, f, i) = StepAt(data, g, i)
      <4>1. i \in Nat /\ \A j \in (i + 1)..(Len(data) + 7) : j \in (lo + 1)..(N + 7)
        BY <1>0, <2>2 DEF N
      <4>2. \A j \in (i + 1)..(Len(data) + 7) : f[j] = g[j]
        BY <2>4, <4>1
      <4> HIDE DEF g
      <4> QED BY <4>1, <4>2, StepsAgree
    <3>2. CASE i = lo
      BY <2>4, <3>1, <3>2, Zenon
    <3>3. CASE i # lo
      <4>1. i \in (lo + 1)..(N + 7)
        BY <1>0, <3>3
      <4>2. g[i] = f[i] /\ f[i] = StepAt(data, f, i)
        BY <2>3, <2>4, <4>1, Zenon
      <4> QED BY <3>1, <4>2, Zenon
    <3> QED BY <3>2, <3>3
  <2>6. g = [i \in lo..(N + 7) |-> StepAt(data, g, i)]
    <3>1. \E h : g = [i \in lo..(N + 7) |-> h[i]]
      <4>1. g = [i \in lo..(N + 7) |-> g[i]]
        OBVIOUS
      <4> QED BY <4>1
    <3> HIDE DEF g
    <3> QED BY <2>5, <3>1
  <2>7. Scan(data, N + 7 - (m + 1), g)
    <3> HIDE DEF g
    <3> QED BY <2>2, <2>6, Zenon DEF Scan, N
  <2> QED BY <2>7
<1>3. Nat \subseteq S
  <2> HIDE DEF S
  <2> QED BY <1>1, <1>2, NumbersFromZero
<1>4. PICK m \in Nat : m = N + 6 /\ N + 7 - m = 1 /\ m <= N + 6
  BY <1>0
<1>5. \E f : Scan(data, N + 7 - m, f)
  BY <1>3, <1>4
<1> QED BY <1>4, <1>5, Zenon

\* A read is the bytes of the frames that follow those read before.
Follows(fr, data, G) ==
  /\ fr \in Seq(AngleFrames) /\ data \in Seq(Octets) /\ G \in Nat /\ G + Len(data) <= 7 * Len(fr)
  /\ \A j \in 1..Len(data) : data[j] = ByteOf(fr, G + j)

\* What is found at one place is told by the frames of the camera.
LEMMA FoundIsTold ==
  ASSUME NEW fr, NEW data, NEW G, Follows(fr, data, G),
         NEW i \in Nat \ {0}, i <= Len(data) - 6, Pelco!IsFrame(data, i)
  PROVE  Told(fr, Pelco!ParsePelcoResponse(data, i), G + i - 1, G + i + 6)
<1>1. fr \in Seq(AngleFrames) /\ data \in Seq(Octets) /\ G \in Nat /\ Len(data) \in Nat /\ Len(fr) \in Nat
      /\ G + Len(data) <= 7 * Len(fr)
  BY DEF Follows
<1>2. CASE data[i + 3] \notin {Pelco!Pan, Pelco!Tilt}
  <2>1. Pelco!ParsePelcoResponse(data, i) = <<>>
    BY <1>2, Zenon DEF Pelco!ParsePelcoResponse
  <2>2. Told(fr, <<>>, G + i - 1, G + i + 6)
    BY ToldNothing, Zenon
  <2> QED BY <2>1, <2>2, Zenon
<1>3. CASE data[i + 3] \in {Pelco!Pan, Pelco!Tilt}
  <2>1. PICK p \in Nat \ {0} : p = G + i
    BY <1>1
  <2>2. ASSUME NEW n \in 0..6 PROVE data[i + n] = ByteOf(fr, p + n)
    <3>1. i + n \in 1..Len(data) /\ G + (i + n) = p + n
      BY <1>1, <2>1
    <3>2. data[i + n] = ByteOf(fr, G + (i + n))
      BY <3>1 DEF Follows
    <3> QED BY <3>1, <3>2, Zenon
  <2>3. /\ data[i + 1] = ByteOf(fr, p + 1) /\ data[i + 2] = ByteOf(fr, p + 2) /\ data[i + 3] = ByteOf(fr, p + 3)
        /\ data[i + 4] = ByteOf(fr, p + 4) /\ data[i + 5] = ByteOf(fr, p + 5) /\ data[i + 6] = ByteOf(fr, p + 6)
    BY <2>2
  <2>4. data[i] = ByteOf(fr, p)
    <3>1. data[i + 0] = ByteOf(fr, p + 0) /\ i + 0 = i /\ p + 0 = p
      BY <2>2
    <3> QED BY <3>1, Zenon
  <2>5. /\ data[i] = 255 /\ data[i + 1] = m_addr
        /\ data[i + 6] = Pelco!Byte(data[i + 1] + data[i + 2] + data[i + 3] + data[i + 4] + data[i + 5])
    BY DEF Pelco!IsFrame
  <2>6. data[i + 3] \in Axes
    BY <1>3 DEF Axes, Pelco!Pan, Pelco!Tilt
  <2>7. (p - 1) % 7 = 0
    <3>1. p + 6 <= 7 * Len(fr)
      BY <1>1, <2>1
    <3>2. ByteOf(fr, p) = 255
      BY <2>4, <2>5
    <3>3. ByteOf(fr, p + 1) = m_addr /\ ByteOf(fr, p + 3) \in Axes
      BY <2>3, <2>5, <2>6, Zenon
    <3>4. ByteOf(fr, p + 6) = Pelco!Byte(ByteOf(fr, p + 1) + ByteOf(fr, p + 2) + ByteOf(fr, p + 3)
                                           + ByteOf(fr, p + 4) + ByteOf(fr, p + 5))
      BY <2>3, <2>5, Zenon
    <3> QED BY <1>1, <3>1, <3>2, <3>3, <3>4, AlignedOrNoAngle
  <2>8. PICK q \in Nat : p = 7 * q + 1
    <3>1. PICK q \in Nat : q = (p - 1) \div 7
      OBVIOUS
    <3> QED BY <2>7, <3>1
  <2>9. PICK k \in DOMAIN fr : k = q + 1
    BY <1>1, <2>1, <2>8
  <2>10. PICK f \in AngleFrames : f = fr[k]
    BY <1>1
  <2>11. PICK b : b = Pelco!FrameBytes(f)
    OBVIOUS
  <2>12. /\ ByteOf(fr, p + 1) = b[2] /\ ByteOf(fr, p + 3) = b[4]
         /\ ByteOf(fr, p + 4) = b[5] /\ ByteOf(fr, p + 5) = b[6]
    <3>1. ASSUME NEW n \in {1, 3, 4, 5} PROVE ((p + n) - 1) \div 7 = q /\ ((p + n) - 1) % 7 = n
      BY ONLY <2>8, p \in Nat \ {0}, q \in Nat, n \in {1, 3, 4, 5}
    <3>2. ASSUME NEW n \in {1, 3, 4, 5} PROVE ByteOf(fr, p + n) = b[n + 1]
      BY <2>9, <2>10, <2>11, <3>1, Zenon DEF ByteOf
    <3>3. ByteOf(fr, p + 1) = b[1 + 1] /\ ByteOf(fr, p + 3) = b[3 + 1] /\ ByteOf(fr, p + 4) = b[4 + 1] /\ ByteOf(fr, p + 5) = b[5 + 1]
      BY <3>2
    <3>4. 1 + 1 = 2 /\ 3 + 1 = 4 /\ 4 + 1 = 5 /\ 5 + 1 = 6
      OBVIOUS
    <3> QED BY <3>3, <3>4, Zenon
  <2>13. b[2] = f.addr /\ b[4] = f.cmd2 /\ b[5] = f.high /\ b[6] = f.low
    BY <2>11, FrameBytesAre
  <2>14. f.addr = m_addr /\ f.cmd2 = data[i + 3] /\ f.high = data[i + 4] /\ f.low = data[i + 5]
    BY <2>3, <2>5, <2>12, <2>13, Zenon
  <2>15. PICK a : a = Pelco!Angle(f)
    OBVIOUS
  <2>16. Pelco!ParsePelcoResponse(data, i) = <<a>>
    <3>1. Pelco!ParsePelcoResponse(data, i) = <<[cmd2 |-> data[i + 3], val |-> data[i + 4] * 256 + data[i + 5]]>>
      BY <1>3, Zenon DEF Pelco!ParsePelcoResponse
    <3>2. a = [cmd2 |-> f.cmd2, val |-> f.high * 256 + f.low]
      BY <2>15, Zenon DEF Pelco!Angle
    <3>3. a = [cmd2 |-> data[i + 3], val |-> data[i + 4] * 256 + data[i + 5]]
      BY <2>14, <3>2, Zenon
    <3> QED BY <3>1, <3>3, Zenon
  <2>17. Told(fr, <<a>>, 7 * (k - 1), 7 * k)
    <3>1. fr[k].addr = m_addr /\ a = Pelco!Angle(fr[k])
      BY <2>10, <2>14, <2>15, Zenon
    <3> QED BY <1>1, <3>1, ToldOne
  <2>18. 7 * (k - 1) = G + i - 1 /\ 7 * k = G + i + 6
    BY <1>1, <2>1, <2>8, <2>9
  <2> QED BY <2>16, <2>17, <2>18, Zenon
<1> QED BY <1>2, <1>3

\* The angles found in a read are told by the frames in it.
LEMMA ReadIsTold ==
  ASSUME NEW fr, NEW data, NEW G, Follows(fr, data, G)
  PROVE  Told(fr, Pelco!OnRawDataReceived(data), G, G + Len(data))
<1>1. fr \in Seq(AngleFrames) /\ data \in Seq(Octets) /\ G \in Nat
  BY DEF Follows
<1>2. PICK N \in Nat : N = Len(data)
  BY <1>1
<1>3. PICK f : Scan(data, 1, f) /\ Pelco!OnRawDataReceived(data) = f[1]
  <2>1. \E f : f = [i \in 1..Len(data) + 7 |-> StepAt(data, f, i)]
    BY <1>1, ScanExists, Zenon DEF Scan
  <2>2. PICK f : f = CHOOSE h : h = [i \in 1..Len(data) + 7 |-> StepAt(data, h, i)]
    OBVIOUS
  <2>3. Scan(data, 1, f)
    BY <2>1, <2>2, Zenon DEF Scan
  <2>4. Pelco!OnRawDataReceived(data) = f[1]
    BY <2>2, Zenon DEF Pelco!OnRawDataReceived, StepAt
  <2> QED BY <2>3, <2>4
<1>4. ASSUME NEW i \in 1..(N + 7) PROVE f[i] = StepAt(data, f, i)
  BY <1>2, <1>3, Zenon DEF Scan
<1> DEFINE S == {m \in Nat : \A i \in 1..(N + 7) : N + 7 - i <= m => Told(fr, f[i], G + i - 1, G + N)}
<1>5. ASSUME NEW i \in 1..(N + 7), i > N - 6 PROVE Told(fr, f[i], G + i - 1, G + N)
  <2>1. f[i] = <<>>
    BY <1>1, <1>2, <1>4, <1>5, StepAtEnd
  <2> QED BY <2>1, ToldNothing, Zenon
<1>6. 0 \in S
  BY <1>5
<1>7. ASSUME NEW m \in Nat, m \in S PROVE m + 1 \in S
  <2> SUFFICES ASSUME NEW i \in 1..(N + 7), N + 7 - i <= m + 1, i <= N - 6
               PROVE  Told(fr, f[i], G + i - 1, G + N)
    BY <1>5
  <2>1. i \in Nat \ {0} /\ i <= Len(data) - 6
    BY <1>2
  <2>2. CASE Pelco!IsFrame(data, i)
    <3>1. PICK n \in 1..(N + 7) : n = i + 7
      OBVIOUS
    <3>2. Told(fr, f[n], G + n - 1, G + N)
      BY <1>7, <3>1
    <3>3. Told(fr, Pelco!ParsePelcoResponse(data, i), G + i - 1, G + i + 6)
      BY <2>1, <2>2, FoundIsTold
    <3>4. f[i] = Pelco!ParsePelcoResponse(data, i) \o f[n]
      <4>1. StepAt(data, f, i) = Pelco!ParsePelcoResponse(data, i) \o f[i + 7]
        BY <1>1, <2>1, <2>2, StepAtFrame
      <4> QED BY <1>4, <3>1, <4>1, Zenon
    <3>5. PICK lo \in Int : lo = G + i - 1
      BY <1>1
    <3>6. PICK mid \in Int : mid = G + i + 6
      BY <1>1
    <3>7. PICK hi \in Int : hi = G + N
      BY <1>1
    <3>8. lo <= mid /\ mid <= hi /\ G + n - 1 = mid
      BY <1>1, <3>1, <3>5, <3>6, <3>7
    <3>9. Told(fr, f[n], mid, hi) /\ Told(fr, Pelco!ParsePelcoResponse(data, i), lo, mid)
      BY <3>2, <3>3, <3>5, <3>6, <3>7, <3>8, Zenon
    <3>10. Told(fr, Pelco!ParsePelcoResponse(data, i) \o f[n], lo, hi)
      BY <1>1, <3>8, <3>9, ToldBoth
    <3> QED BY <3>4, <3>5, <3>7, <3>10, Zenon
  <2>3. CASE ~Pelco!IsFrame(data, i)
    <3>1. PICK n \in 1..(N + 7) : n = i + 1
      OBVIOUS
    <3>2. Told(fr, f[n], G + n - 1, G + N)
      BY <1>7, <3>1
    <3>3. f[i] = f[n]
      <4>1. StepAt(data, f, i) = f[i + 1]
        BY <1>1, <2>1, <2>3, StepAtOther
      <4> QED BY <1>4, <3>1, <4>1, Zenon
    <3>4. PICK lo \in Int : lo = G + n - 1
      BY <1>1
    <3>5. PICK l \in Int : l = G + i - 1
      BY <1>1
    <3>6. PICK hi \in Int : hi = G + N
      BY <1>1
    <3>7. l <= lo /\ hi <= hi
      BY <1>1, <3>1, <3>4, <3>5
    <3>8. Told(fr, f[i], lo, hi)
      BY <3>2, <3>3, <3>4, <3>6, Zenon
    <3>9. Told(fr, f[i], l, hi)
      BY <1>1, <3>7, <3>8, ToldOfMore
    <3> QED BY <3>5, <3>6, <3>9, Zenon
  <2> QED BY <2>2, <2>3
<1>8. Nat \subseteq S
  <2> HIDE DEF S
  <2> QED BY <1>6, <1>7, NumbersFromZero
<1>9. PICK o \in 1..(N + 7) : o = 1 /\ G + o - 1 = G
  BY <1>1
<1>10. Told(fr, f[o], G + o - 1, G + N)
  <2>1. N + 7 \in S /\ N + 7 - o <= N + 7
    <3>1. N + 7 \in Nat /\ N + 7 - o <= N + 7
      OBVIOUS
    <3> HIDE DEF S
    <3> QED BY <1>8, <3>1
  <2> QED BY <2>1
<1> QED BY <1>2, <1>3, <1>9, <1>10, Zenon

\* Bytes of the frames that were read.
Gone == 7 * Len(frames) - Len(wire)

(* The unread bytes are the last of the frames that were sent, and the angles
   reported are told by frames that were read to their end.                *)
PelcoInv == Follows(frames, wire, Gone) /\ Gone + Len(wire) = 7 * Len(frames) /\ Told(frames, reported, 0, Gone)

LEMMA InitPelco == Pelco!Init => PelcoInv
<1> SUFFICES ASSUME Pelco!Init PROVE PelcoInv
  OBVIOUS
<1>1. frames = <<>> /\ wire = <<>> /\ reported = <<>>
  BY DEF Pelco!Init
<1>2. frames \in Seq(AngleFrames) /\ wire \in Seq(Octets) /\ Len(frames) = 0 /\ Len(wire) = 0
  BY <1>1
<1>3. Gone = 0
  BY <1>2 DEF Gone
<1>4. Follows(frames, wire, Gone)
  BY <1>2, <1>3 DEF Follows
<1>5. Told(frames, reported, 0, Gone)
  BY <1>1, ToldNothing, Zenon
<1> QED BY <1>2, <1>3, <1>4, <1>5 DEF PelcoInv

LEMMA SendKeepsPelco ==
  ASSUME PelcoInv, NEW f \in AngleFrames, Pelco!Send(f)
  PROVE  PelcoInv'
<1>1. frames' = Append(frames, f) /\ wire' = wire \o Pelco!FrameBytes(f) /\ reported' = reported
  BY DEF Pelco!Send
<1>2. PICK fr : fr = frames
  OBVIOUS
<1>3. PICK w : w = wire
  OBVIOUS
<1>4. PICK s : s = reported
  OBVIOUS
<1>5. PICK G \in Nat : G = Gone
  BY DEF PelcoInv, Follows
<1>6. Follows(fr, w, G) /\ G + Len(w) = 7 * Len(fr) /\ Told(fr, s, 0, G)
  BY <1>2, <1>3, <1>4, <1>5, Zenon DEF PelcoInv
<1>7. fr \in Seq(AngleFrames) /\ w \in Seq(Octets)
  BY <1>6 DEF Follows
<1>8. PICK b : b = Pelco!FrameBytes(f)
  OBVIOUS
<1>9. b \in Seq(Octets) /\ Len(b) = 7
  BY <1>8, FrameBytesAre
<1>10. PICK frn : frn = Append(fr, f)
  OBVIOUS
<1>11. PICK wn : wn = w \o b
  OBVIOUS
<1>12. PICK n \in Nat : n = Len(fr)
  BY <1>7
<1>13. PICK l \in Nat : l = Len(w)
  BY <1>7
<1>14. frn \in Seq(AngleFrames) /\ Len(frn) = n + 1 /\ frn[n + 1] = f /\ \A k \in 1..n : frn[k] = fr[k]
  BY <1>7, <1>10, <1>12
<1>15. /\ wn \in Seq(Octets) /\ Len(wn) = l + 7
       /\ \A j \in 1..l : wn[j] = w[j]
       /\ \A j \in (l + 1)..(l + 7) : wn[j] = b[j - l]
  <2>1. wn \in Seq(Octets)
    BY ONLY <1>7, <1>9, <1>11
  <2>0. PICK lb \in Nat : lb = Len(b) /\ lb = 7
    BY <1>9
  <2>2. Len(wn) = l + lb
    <3>1. b \in Seq(Octets)
      BY <1>9
    <3>2. Len(wn) = Len(w) + Len(b)
      BY ONLY <1>7, <1>11, <3>1
    <3> QED BY <1>13, <2>0, <3>2, Zenon
  <2>3. \A j \in 1..l : wn[j] = w[j]
    BY ONLY <1>7, <1>9, <1>11, <1>13
  <2>4. \A j \in (l + 1)..(l + lb) : wn[j] = b[j - l]
    <3>1. b \in Seq(Octets) /\ lb = Len(b)
      BY <1>9, <2>0
    <3> QED BY ONLY <1>7, <1>11, <1>13, <3>1
  <2> QED BY <2>0, <2>1, <2>2, <2>3, <2>4, Zenon
<1>16. G + l = 7 * n
  BY <1>6, <1>12, <1>13, Zenon
<1>17. ASSUME NEW j \in 1..(l + 7) PROVE wn[j] = ByteOf(frn, G + j)
  <2>1. CASE j \in 1..l
    <3>1. w[j] = ByteOf(fr, G + j)
      BY <1>6, <1>13, <2>1 DEF Follows
    <3>0. PICK p \in Nat : p = G + j
      OBVIOUS
    <3>2. PICK k \in 1..n : k = (p - 1) \div 7 + 1
      <4>1. PICK z \in Nat : z = p - 1 /\ z < 7 * n
        BY <1>16, <2>1, <3>0
      <4>2. z \div 7 \in Nat /\ z \div 7 < n
        BY ONLY <4>1, z \in Nat, n \in Nat
      <4> QED BY <4>1, <4>2
    <3>3. ByteOf(frn, p) = ByteOf(fr, p)
      <4>1. frn[k] = fr[k]
        BY <1>14
      <4> QED BY <3>2, <4>1, Zenon DEF ByteOf
    <3>4. wn[j] = w[j]
      BY <1>15, <2>1
    <3> QED BY <3>0, <3>1, <3>3, <3>4, Zenon
  <2>2. CASE j \notin 1..l
    <3>1. PICK u \in 0..6 : u = j - l - 1 /\ j - l = u + 1 /\ G + j = 7 * n + u + 1 /\ j \in (l + 1)..(l + 7)
      BY <1>16, <2>2
    <3>2. PICK p \in Nat : p = G + j
      OBVIOUS
    <3>3. (p - 1) \div 7 = n /\ (p - 1) % 7 = u
      BY ONLY <3>1, <3>2, n \in Nat, u \in 0..6
    <3>4. ByteOf(frn, p) = b[u + 1]
      BY <1>8, <1>14, <3>3, Zenon DEF ByteOf
    <3>5. wn[j] = b[j - l]
      BY <1>15, <3>1
    <3> QED BY <3>1, <3>2, <3>4, <3>5, Zenon
  <2> QED BY <2>1, <2>2
<1>18. Follows(frn, wn, G) /\ G + Len(wn) = 7 * Len(frn)
  <2>1. G + (l + 7) = 7 * (n + 1)
    BY <1>16
  <2>2. G + Len(wn) = 7 * Len(frn)
    BY <1>14, <1>15, <2>1, Zenon
  <2>3. G + Len(wn) <= 7 * Len(frn)
    BY <1>14, <1>15, <2>1
  <2>4. \A j \in 1..Len(wn) : wn[j] = ByteOf(frn, G + j)
    BY <1>15, <1>17, Zenon
  <2> QED BY <1>14, <1>15, <2>2, <2>3, <2>4 DEF Follows
<1>19. Told(frn, s, 0, G)
  BY <1>6, <1>7, <1>10, ToldStill
<1>20. frames' = frn /\ wire' = wn /\ reported' = s
  BY <1>1, <1>2, <1>3, <1>4, <1>8, <1>10, <1>11, Zenon
<1>21. Gone' = G
  <2>1. Gone' = 7 * Len(frn) - Len(wn)
    BY <1>20, Zenon DEF Gone
  <2> QED BY <1>14, <1>15, <1>18, <2>1
<1> QED BY <1>18, <1>19, <1>20, <1>21, Zenon DEF PelcoInv

LEMMA ReadKeepsPelco ==
  ASSUME PelcoInv, NEW n \in 1..Len(wire), Pelco!Read(n)
  PROVE  PelcoInv'
<1>1. /\ reported' = reported \o Pelco!OnRawDataReceived(SubSeq(wire, 1, n))
      /\ wire' = SubSeq(wire, n + 1, Len(wire)) /\ frames' = frames
  BY DEF Pelco!Read
<1>2. PICK fr : fr = frames
  OBVIOUS
<1>3. PICK w : w = wire
  OBVIOUS
<1>4. PICK s : s = reported
  OBVIOUS
<1>5. PICK G \in Nat : G = Gone
  BY DEF PelcoInv, Follows
<1>6. Follows(fr, w, G) /\ G + Len(w) = 7 * Len(fr) /\ Told(fr, s, 0, G)
  BY <1>2, <1>3, <1>4, <1>5, Zenon DEF PelcoInv
<1>7. fr \in Seq(AngleFrames) /\ w \in Seq(Octets)
  BY <1>6 DEF Follows
<1>8. PICK l \in Nat : l = Len(w)
  BY <1>7
<1>9. n \in 1..l
  BY <1>3, <1>8, Zenon
<1>10. PICK data : data = SubSeq(w, 1, n)
  OBVIOUS
<1>11. PICK wn : wn = SubSeq(w, n + 1, l)
  OBVIOUS
<1>12. data \in Seq(Octets) /\ Len(data) = n /\ \A j \in 1..n : data[j] = w[j]
  BY <1>7, <1>8, <1>9, <1>10
<1>13. wn \in Seq(Octets) /\ Len(wn) = l - n /\ \A j \in 1..(l - n) : wn[j] = w[n + j]
  BY <1>7, <1>8, <1>9, <1>11
<1>14. PICK m \in Nat : m = 7 * Len(fr)
  BY <1>7
<1>15. G + l = m
  BY <1>6, <1>8, <1>14, Zenon
<1>16. \A j \in 1..l : w[j] = ByteOf(fr, G + j)
  BY <1>6, <1>8 DEF Follows
<1>17. Follows(fr, data, G)
  <2>1. G + n <= m
    BY <1>9, <1>15
  <2>2. G + Len(data) <= 7 * Len(fr)
    BY <1>12, <1>14, <2>1, Zenon
  <2>3. \A j \in 1..Len(data) : data[j] = ByteOf(fr, G + j)
    BY <1>9, <1>12, <1>16
  <2> QED BY <1>7, <1>12, <2>2, <2>3 DEF Follows
<1>18. Told(fr, Pelco!OnRawDataReceived(data), G, G + n)
  BY <1>12, <1>17, ReadIsTold, Zenon
<1>19. PICK H \in Nat : H = G + n
  BY <1>9
<1>20. Told(fr, s \o Pelco!OnRawDataReceived(data), 0, H)
  <2>1. 0 <= G /\ G <= H /\ H \in Int /\ G \in Int
    BY <1>9, <1>19
  <2>2. Told(fr, Pelco!OnRawDataReceived(data), G, H)
    BY <1>18, <1>19, Zenon
  <2> QED BY <1>6, <1>7, <2>1, <2>2, ToldBoth
<1>21. H + (l - n) = m
  BY <1>9, <1>15, <1>19
<1>22. Follows(fr, wn, H)
  <2>1. H + Len(wn) <= 7 * Len(fr)
    <3>1. H + (l - n) <= m
      BY <1>21
    <3> QED BY <1>13, <1>14, <3>1, Zenon
  <2>2. ASSUME NEW j \in 1..(l - n) PROVE wn[j] = ByteOf(fr, H + j)
    <3>1. n + j \in 1..l /\ G + (n + j) = H + j
      BY <1>9, <1>19
    <3>2. w[n + j] = ByteOf(fr, G + (n + j))
      BY <1>16, <3>1
    <3> QED BY <1>13, <3>1, <3>2, Zenon
  <2>3. \A j \in 1..Len(wn) : wn[j] = ByteOf(fr, H + j)
    BY <1>13, <2>2, Zenon
  <2> QED BY <1>7, <1>13, <2>1, <2>3 DEF Follows
<1>23. frames' = fr /\ wire' = wn /\ reported' = s \o Pelco!OnRawDataReceived(data)
  BY <1>1, <1>2, <1>3, <1>4, <1>8, <1>10, <1>11, Zenon
<1>24. Gone' = H
  <2>1. Gone' = m - (l - n)
    BY <1>13, <1>14, <1>23, Zenon DEF Gone
  <2> QED BY <1>9, <1>21, <2>1
<1>25. H + Len(wn) = 7 * Len(fr)
  BY <1>13, <1>14, <1>21, Zenon
<1> QED BY <1>20, <1>22, <1>23, <1>24, <1>25, Zenon DEF PelcoInv

LEMMA PelcoKept ==
  ASSUME PelcoInv, [Pelco!Next]_pelcoVars
  PROVE  PelcoInv'
<1>1. CASE Pelco!Next
  <2>1. \/ \E f \in AngleFrames : Pelco!Send(f)
        \/ \E n \in 1..Len(wire) : Pelco!Read(n)
    BY <1>1, Zenon DEF Pelco!Next, AngleFrames, Axes, Pelco!Pan, Pelco!Tilt
  <2> QED BY <2>1, SendKeepsPelco, ReadKeepsPelco
<1>2. CASE UNCHANGED pelcoVars
  BY <1>2, Zenon DEF pelcoVars, PelcoInv, Gone
<1> QED BY <1>1, <1>2

LEMMA PelcoIsTold == PelcoInv => ReportedWasSent
<1> SUFFICES ASSUME PelcoInv PROVE ReportedWasSent
  OBVIOUS
<1>1. frames \in Seq(AngleFrames) /\ wire \in Seq(Octets) /\ reported \in Seq(Angles)
  BY DEF PelcoInv, Follows, Told
<1>2. Axes = {Pelco!Pan, Pelco!Tilt}
  BY DEF Axes, Pelco!Pan, Pelco!Tilt
<1>3. Pelco!TypeOK
  <2>1. frames \in Seq([addr: Addresses, cmd2: {Pelco!Pan, Pelco!Tilt}, high: Highs, low: Lows])
    BY <1>1, <1>2, Zenon DEF AngleFrames
  <2>2. wire \in Seq(0..255)
    BY <1>1 DEF Octets
  <2>3. reported \in Seq([cmd2: {Pelco!Pan, Pelco!Tilt}, val: 0..36095])
    BY <1>1, <1>2 DEF Angles
  <2> QED BY <2>1, <2>2, <2>3 DEF Pelco!TypeOK
<1>4. PICK of \in [DOMAIN reported -> DOMAIN frames] :
        /\ \A i \in DOMAIN reported : frames[of[i]].addr = m_addr /\ reported[i] = Pelco!Angle(frames[of[i]])
        /\ \A i, j \in DOMAIN reported : i < j => of[i] < of[j]
  BY DEF PelcoInv, Told
<1>5. Pelco!ReportedWasSent
  BY <1>4, Zenon DEF Pelco!ReportedWasSent
<1> QED BY <1>3, <1>5 DEF ReportedWasSent

(* ReportedWasSent: however the reads cut the bytes of frames of several
   cameras, what onRawDataReceived() reports is angles that the driver's
   camera sent, in their order.                                            *)
THEOREM ReportsAreTrue == HelpersSpec => []ReportedWasSent
<1>1. HelpersInit => PelcoInv
  BY InitPelco DEF HelpersInit
<1>2. PelcoInv /\ [HelpersNext]_helperVars => PelcoInv'
  <2> SUFFICES ASSUME PelcoInv, [HelpersNext]_helperVars PROVE PelcoInv'
    OBVIOUS
  <2>1. [Pelco!Next]_pelcoVars
    BY DEF HelpersNext, helperVars, pelcoVars, UseRing, UseBuffer, UseTime, UsePelco, UseLog, UseConfig
  <2> QED BY <2>1, PelcoKept
<1> QED BY <1>1, <1>2, PelcoIsTold, PTL DEF HelpersSpec

-----------------------------------------------------------------------------
(* The calendar of the time conversions                                    *)

LEMMA EveryFourth ==
  ASSUME NEW y \in Nat \ {0}, NEW k \in {4, 100, 400}
  PROVE  y \div k = (y - 1) \div k + (IF y % k = 0 THEN 1 ELSE 0)
<1>1. CASE k = 4
  BY <1>1
<1>2. CASE k = 100
  BY <1>2
<1>3. CASE k = 400
  BY <1>3
<1> QED BY <1>1, <1>2, <1>3

LEMMA LeapsOfYear ==
  ASSUME NEW y \in Nat \ {0}
  PROVE  Clock!LeapsUpTo(y) = Clock!LeapsUpTo(y - 1) + (IF Clock!IsLeap(y) THEN 1 ELSE 0)
<1>1. /\ y \div 4 = (y - 1) \div 4 + (IF y % 4 = 0 THEN 1 ELSE 0)
      /\ y \div 100 = (y - 1) \div 100 + (IF y % 100 = 0 THEN 1 ELSE 0)
      /\ y \div 400 = (y - 1) \div 400 + (IF y % 400 = 0 THEN 1 ELSE 0)
  BY EveryFourth
<1>2. (y % 400 = 0 => y % 100 = 0) /\ (y % 100 = 0 => y % 4 = 0)
  BY SMT
<1>3. PICK a \in Nat : a = (y - 1) \div 4
  OBVIOUS
<1>4. PICK b \in Nat : b = (y - 1) \div 100
  OBVIOUS
<1>5. PICK c \in Nat : c = (y - 1) \div 400
  OBVIOUS
<1>6. Clock!LeapsUpTo(y - 1) = a - b + c
  BY <1>3, <1>4, <1>5, Zenon DEF Clock!LeapsUpTo
<1>7. Clock!LeapsUpTo(y) = y \div 4 - y \div 100 + y \div 400
  BY Zenon DEF Clock!LeapsUpTo
<1>8. CASE y % 400 = 0
  BY <1>1, <1>2, <1>3, <1>4, <1>5, <1>6, <1>7, <1>8 DEF Clock!IsLeap
<1>9. CASE y % 400 # 0 /\ y % 100 = 0
  BY <1>1, <1>2, <1>3, <1>4, <1>5, <1>6, <1>7, <1>9 DEF Clock!IsLeap
<1>10. CASE y % 400 # 0 /\ y % 100 # 0 /\ y % 4 = 0
  BY <1>1, <1>2, <1>3, <1>4, <1>5, <1>6, <1>7, <1>10 DEF Clock!IsLeap
<1>11. CASE y % 400 # 0 /\ y % 100 # 0 /\ y % 4 # 0
  BY <1>1, <1>2, <1>3, <1>4, <1>5, <1>6, <1>7, <1>11 DEF Clock!IsLeap
<1> QED BY <1>8, <1>9, <1>10, <1>11

LEMMA LeapsAreFew ==
  ASSUME NEW y \in Nat, NEW z \in Nat, y <= z
  PROVE  Clock!LeapsUpTo(y) \in Nat /\ Clock!LeapsUpTo(y) <= Clock!LeapsUpTo(z) + 3
<1>1. PICK a \in Nat : a = y \div 4 /\ 4 * a <= y /\ y < 4 * a + 4
  OBVIOUS
<1>2. PICK b \in Nat : b = y \div 100 /\ 100 * b <= y /\ y < 100 * b + 100
  OBVIOUS
<1>3. PICK c \in Nat : c = y \div 400 /\ 400 * c <= y /\ y < 400 * c + 400
  OBVIOUS
<1>4. PICK d \in Nat : d = z \div 4 /\ 4 * d <= z /\ z < 4 * d + 4
  OBVIOUS
<1>5. PICK e \in Nat : e = z \div 100 /\ 100 * e <= z /\ z < 100 * e + 100
  OBVIOUS
<1>6. PICK f \in Nat : f = z \div 400 /\ 400 * f <= z /\ z < 400 * f + 400
  OBVIOUS
<1>7. Clock!LeapsUpTo(y) = a - b + c /\ Clock!LeapsUpTo(z) = d - e + f
  BY <1>1, <1>2, <1>3, <1>4, <1>5, <1>6, Zenon DEF Clock!LeapsUpTo
<1>8. a - b + c \in Nat
  BY ONLY <1>1, <1>2, <1>3, a \in Nat, b \in Nat, c \in Nat, y \in Nat
<1>9. a - b + c <= (d - e + f) + 3
  BY ONLY <1>1, <1>2, <1>3, <1>4, <1>5, <1>6, y <= z, y \in Nat, z \in Nat, a \in Nat, b \in Nat, c \in Nat, d \in Nat, e \in Nat, f \in Nat
<1> QED BY <1>7, <1>8, <1>9

LEMMA YearStartIs ==
  ASSUME NEW y \in Nat \ {0}
  PROVE  Clock!YearStart(y) \in Int /\ Clock!YearStart(y) = 365 * (y - 1980) + Clock!LeapsUpTo(y - 1) - 484
<1>1. Clock!LeapsUpTo(1979) = 479
  BY DEF Clock!LeapsUpTo
<1>2. Clock!LeapsUpTo(y - 1) \in Nat
  BY LeapsAreFew
<1> QED BY <1>1, <1>2 DEF Clock!YearStart

\* How long a year is, and that the years follow each other.
LEMMA YearLength ==
  ASSUME NEW y \in Nat \ {0}
  PROVE  Clock!YearStart(y + 1) = Clock!YearStart(y) + (IF Clock!IsLeap(y) THEN 366 ELSE 365)
<1>1. PICK n \in Nat : n = Clock!LeapsUpTo(y - 1)
  BY LeapsAreFew
<1>2. Clock!LeapsUpTo(y) = n + (IF Clock!IsLeap(y) THEN 1 ELSE 0)
  BY <1>1, LeapsOfYear
<1>3. Clock!YearStart(y + 1) = 365 * ((y + 1) - 1980) + Clock!LeapsUpTo(y) - 484
  <2>1. (y + 1) - 1 = y /\ y + 1 \in Nat \ {0}
    OBVIOUS
  <2> QED BY <2>1, YearStartIs
<1>4. Clock!YearStart(y) = 365 * (y - 1980) + n - 484
  BY <1>1, YearStartIs
<1> QED BY <1>2, <1>3, <1>4

LEMMA YearsFollow ==
  ASSUME NEW y \in Nat \ {0}, NEW z \in Nat, y < z
  PROVE  Clock!YearStart(y + 1) <= Clock!YearStart(z)
<1>1. CASE z = y + 1
  BY <1>1, YearStartIs
<1>2. CASE z # y + 1
  <2>1. PICK x \in Nat : x = z - 1 /\ y < x
    BY <1>2
  <2>2. PICK n \in Nat : n = Clock!LeapsUpTo(y)
    BY LeapsAreFew
  <2>3. PICK m \in Nat : m = Clock!LeapsUpTo(x) /\ n <= m + 3
    BY <2>1, <2>2, LeapsAreFew
  <2>4. Clock!YearStart(y + 1) = 365 * ((y + 1) - 1980) + n - 484
    <3>1. (y + 1) - 1 = y /\ y + 1 \in Nat \ {0}
      OBVIOUS
    <3> QED BY <2>2, <3>1, YearStartIs
  <2>5. Clock!YearStart(z) = 365 * (z - 1980) + m - 484
    BY <2>1, <2>3, YearStartIs
  <2> QED BY <2>1, <2>3, <2>4, <2>5
<1> QED BY <1>1, <1>2

\* A leap year's day more.
LeapDay(y) == IF Clock!IsLeap(y) THEN 1 ELSE 0

LEMMA MonthsBefore ==
  ASSUME NEW y
  PROVE
         /\ Clock!DaysBefore(y, 1) = 0 /\ Clock!DaysBefore(y, 2) = 31 /\ Clock!DaysBefore(y, 3) = 59 + LeapDay(y)
         /\ Clock!DaysBefore(y, 4) = 90 + LeapDay(y) /\ Clock!DaysBefore(y, 5) = 120 + LeapDay(y) /\ Clock!DaysBefore(y, 6) = 151 + LeapDay(y)
         /\ Clock!DaysBefore(y, 7) = 181 + LeapDay(y) /\ Clock!DaysBefore(y, 8) = 212 + LeapDay(y) /\ Clock!DaysBefore(y, 9) = 243 + LeapDay(y)
         /\ Clock!DaysBefore(y, 10) = 273 + LeapDay(y) /\ Clock!DaysBefore(y, 11) = 304 + LeapDay(y) /\ Clock!DaysBefore(y, 12) = 334 + LeapDay(y)
<1>1. PICK t : t = <<0, 31, 59, 90, 120, 151, 181, 212, 243, 273, 304, 334>>
  OBVIOUS
<1>2. /\ t[1] = 0 /\ t[2] = 31 /\ t[3] = 59 /\ t[4] = 90 /\ t[5] = 120 /\ t[6] = 151
      /\ t[7] = 181 /\ t[8] = 212 /\ t[9] = 243 /\ t[10] = 273 /\ t[11] = 304 /\ t[12] = 334
  BY ONLY <1>1
<1>3. ASSUME NEW m PROVE Clock!DaysBefore(y, m) = t[m] + (IF m > 2 /\ Clock!IsLeap(y) THEN 1 ELSE 0)
  BY <1>1, Zenon DEF Clock!DaysBefore
<1>4. LeapDay(y) \in Nat
  BY DEF LeapDay
<1>5. Clock!DaysBefore(y, 1) = 0
  BY <1>2, <1>3, <1>4 DEF LeapDay
<1>6. Clock!DaysBefore(y, 2) = 31
  BY <1>2, <1>3, <1>4 DEF LeapDay
<1>7. Clock!DaysBefore(y, 3) = 59 + LeapDay(y)
  BY <1>2, <1>3, <1>4 DEF LeapDay
<1>8. Clock!DaysBefore(y, 4) = 90 + LeapDay(y)
  BY <1>2, <1>3, <1>4 DEF LeapDay
<1>9. Clock!DaysBefore(y, 5) = 120 + LeapDay(y)
  BY <1>2, <1>3, <1>4 DEF LeapDay
<1>10. Clock!DaysBefore(y, 6) = 151 + LeapDay(y)
  BY <1>2, <1>3, <1>4 DEF LeapDay
<1>11. Clock!DaysBefore(y, 7) = 181 + LeapDay(y)
  BY <1>2, <1>3, <1>4 DEF LeapDay
<1>12. Clock!DaysBefore(y, 8) = 212 + LeapDay(y)
  BY <1>2, <1>3, <1>4 DEF LeapDay
<1>13. Clock!DaysBefore(y, 9) = 243 + LeapDay(y)
  BY <1>2, <1>3, <1>4 DEF LeapDay
<1>14. Clock!DaysBefore(y, 10) = 273 + LeapDay(y)
  BY <1>2, <1>3, <1>4 DEF LeapDay
<1>15. Clock!DaysBefore(y, 11) = 304 + LeapDay(y)
  BY <1>2, <1>3, <1>4 DEF LeapDay
<1>16. Clock!DaysBefore(y, 12) = 334 + LeapDay(y)
  BY <1>2, <1>3, <1>4 DEF LeapDay
<1> QED BY <1>5, <1>6, <1>7, <1>8, <1>9, <1>10, <1>11, <1>12, <1>13, <1>14, <1>15, <1>16

LEMMA MonthsListed ==
  ASSUME NEW y
  PROVE
         /\ Clock!MonthDays(y, 1) = 31 /\ Clock!MonthDays(y, 2) = 28 + LeapDay(y) /\ Clock!MonthDays(y, 3) = 31
         /\ Clock!MonthDays(y, 4) = 30 /\ Clock!MonthDays(y, 5) = 31 /\ Clock!MonthDays(y, 6) = 30
         /\ Clock!MonthDays(y, 7) = 31 /\ Clock!MonthDays(y, 8) = 31 /\ Clock!MonthDays(y, 9) = 30
         /\ Clock!MonthDays(y, 10) = 31 /\ Clock!MonthDays(y, 11) = 30 /\ Clock!MonthDays(y, 12) = 31
BY DEF Clock!MonthDays, LeapDay

LEMMA MonthOneOf ==
  ASSUME NEW m \in 1..12
  PROVE  m = 1 \/ m = 2 \/ m = 3 \/ m = 4 \/ m = 5 \/ m = 6 \/ m = 7 \/ m = 8 \/ m = 9 \/ m = 10 \/ m = 11 \/ m = 12
OBVIOUS

LEMMA LeapDayIs == \A y : LeapDay(y) \in 0..1
BY DEF LeapDay

\* How long a month is, and that the months follow each other.
LEMMA MonthLength ==
  ASSUME NEW y, NEW m \in 1..12
  PROVE  Clock!DaysBefore(y, m) \in 0..335 /\ Clock!MonthDays(y, m) \in 28..31
BY MonthsBefore, MonthsListed, MonthOneOf, LeapDayIs

LEMMA MonthEnd ==
  ASSUME NEW y, NEW m \in 1..11
  PROVE  Clock!DaysBefore(y, m + 1) = Clock!DaysBefore(y, m) + Clock!MonthDays(y, m)
BY MonthsBefore, MonthsListed, LeapDayIs

LEMMA YearEnd ==
  ASSUME NEW y
  PROVE  Clock!DaysBefore(y, 1) = 0 /\ Clock!DaysBefore(y, 12) + Clock!MonthDays(y, 12) = 365 + LeapDay(y)
BY MonthsBefore, MonthsListed, LeapDayIs

LEMMA MonthsFollow ==
  ASSUME NEW y, NEW m \in 1..12, NEW n \in 1..12, m < n
  PROVE  Clock!DaysBefore(y, m) + Clock!MonthDays(y, m) <= Clock!DaysBefore(y, n)
BY MonthsBefore, MonthsListed, MonthOneOf, LeapDayIs

-----------------------------------------------------------------------------
(* timegm() and gmtime() undo each other                                   *)

\* The years of the clock.
ClockYears == 1980..LastYear

LEMMA YearsAreNumbers ==
  /\ LastYear \in Nat /\ 1980 <= LastYear /\ LastYear <= 3000
  /\ \A y \in ClockYears : y \in Nat \ {0} /\ y >= 1980 /\ y <= LastYear /\ y \in Clock!Years
  /\ \A y \in Clock!Years : y \in Nat \ {0} /\ y <= LastYear
<1>1. LastYear \in 1980..3000
  BY TimeAssumption
<1> QED BY ONLY <1>1 DEF ClockYears, Clock!Years

LEMMA DateTyped ==
  ASSUME NEW t, Clock!IsDate(t)
  PROVE  /\ t.year \in ClockYears /\ t.mon \in 1..12 /\ t.day \in 1..31 /\ t.sod \in 0..(Clock!DaySeconds - 1)
         /\ t.day <= Clock!MonthDays(t.year, t.mon)
         /\ t = [year |-> t.year, mon |-> t.mon, day |-> t.day, sod |-> t.sod]
<1> DEFINE M == 1..12
           D == 1..31
           S == 0..(Clock!DaySeconds - 1)
<1>2. t \in [year: ClockYears, mon: M, day: D, sod: S] /\ t.day <= Clock!MonthDays(t.year, t.mon)
  BY DEF Clock!IsDate, ClockYears
<1> HIDE DEF M, D, S
<1>3. /\ t.year \in ClockYears /\ t.mon \in M /\ t.day \in D /\ t.sod \in S
      /\ t = [year |-> t.year, mon |-> t.mon, day |-> t.day, sod |-> t.sod]
  BY ONLY <1>2
<1> QED BY <1>2, <1>3 DEF M, D, S

LEMMA DateMade ==
  ASSUME NEW y \in ClockYears, NEW m \in 1..12, NEW k \in 1..31, NEW o \in 0..(Clock!DaySeconds - 1),
         k <= Clock!MonthDays(y, m), NEW t, t = [year |-> y, mon |-> m, day |-> k, sod |-> o]
  PROVE  Clock!IsDate(t)
<1>1. t \in [year: 1980..LastYear, mon: 1..12, day: 1..31, sod: 0..(Clock!DaySeconds - 1)]
  BY DEF ClockYears
<1>2. t.day <= Clock!MonthDays(t.year, t.mon)
  OBVIOUS
<1> QED BY <1>1, <1>2 DEF Clock!IsDate

\* The days of a year are between its start and the next one's.
LEMMA DayInYear ==
  ASSUME NEW y \in Nat \ {0}, NEW m \in 1..12, NEW k \in Nat \ {0}, k <= Clock!MonthDays(y, m)
  PROVE  /\ Clock!MonthStart(y, m) \in Int
         /\ Clock!YearStart(y) <= Clock!MonthStart(y, m) + (k - 1)
         /\ Clock!MonthStart(y, m) + (k - 1) < Clock!YearStart(y + 1)
<1>1. PICK b \in 0..335 : b = Clock!DaysBefore(y, m)
  BY MonthLength
<1>2. PICK l \in 28..31 : l = Clock!MonthDays(y, m)
  BY MonthLength
<1>3. PICK s \in Int : s = Clock!YearStart(y)
  BY YearStartIs
<1>4. Clock!MonthStart(y, m) = s + b
  BY <1>1, <1>3, Zenon DEF Clock!MonthStart
<1>5. Clock!YearStart(y + 1) = s + (365 + LeapDay(y))
  <2>1. Clock!YearStart(y + 1) = s + (IF Clock!IsLeap(y) THEN 366 ELSE 365)
    BY <1>3, YearLength
  <2> QED BY <2>1 DEF LeapDay
<1>6. b + l <= 365 + LeapDay(y)
  <2>1. CASE m = 12
    BY <1>1, <1>2, <2>1, YearEnd
  <2>2. CASE m # 12
    <3>1. b + l <= Clock!DaysBefore(y, 12)
      BY <1>1, <1>2, <2>2, MonthsFollow
    <3>2. PICK e \in 0..335 : e = Clock!DaysBefore(y, 12)
      BY MonthLength
    <3>3. PICK f \in 28..31 : f = Clock!MonthDays(y, 12)
      BY MonthLength
    <3>4. e + f = 365 + LeapDay(y)
      BY <3>2, <3>3, YearEnd
    <3> QED BY <3>1, <3>2, <3>3, <3>4
  <2> QED BY <2>1, <2>2
<1>7. LeapDay(y) \in 0..1
  BY LeapDayIs
<1> QED BY <1>1, <1>2, <1>3, <1>4, <1>5, <1>6, <1>7

\* gmtime() of the second o of the k-th day of a month.
LEMMA GmtimeIs ==
  ASSUME NEW y \in ClockYears, NEW m \in 1..12, NEW k \in 1..31, NEW o \in 0..(Clock!DaySeconds - 1),
         k <= Clock!MonthDays(y, m), NEW d, d = Clock!MonthStart(y, m) + (k - 1)
  PROVE  Clock!gmtime(d * Clock!DaySeconds + o) = [year |-> y, mon |-> m, day |-> k, sod |-> o]
<1>1. LastYear \in Nat /\ y \in Nat \ {0} /\ k \in Nat \ {0} /\ y >= 1980 /\ y <= LastYear
  BY YearsAreNumbers
<1>2. PICK b \in Int : b = Clock!MonthStart(y, m)
  BY <1>1, DayInYear
<1>3. d \in Int /\ d = b + (k - 1)
  BY <1>2
<1>4. PICK s \in Int : s = d * Clock!DaySeconds + o
  BY <1>3 DEF Clock!DaySeconds
<1>5. s \div Clock!DaySeconds = d /\ s % Clock!DaySeconds = o
  <2>0. PICK n : n = Clock!DaySeconds
    OBVIOUS
  <2>1. n = 86400
    BY <2>0 DEF Clock!DaySeconds
  <2>2. s = d * n + o /\ o \in 0..(n - 1)
    BY <1>4, <2>0, o \in 0..(Clock!DaySeconds - 1), Zenon
  <2>3. s = d * 86400 + o /\ 0 <= o /\ o < 86400 /\ o \in Int /\ d \in Int
    BY ONLY <1>3, <2>1, <2>2
  <2>4. PICK u \in Int : u = s \div 86400 /\ 86400 * u <= s /\ s < 86400 * u + 86400
    BY ONLY s \in Int
  <2>5. PICK v \in Int : v = s % 86400 /\ s = 86400 * u + v
    BY ONLY s \in Int, <2>4
  <2>6. u = d
    BY ONLY <2>3, <2>4, s \in Int, u \in Int
  <2>7. v = o
    BY ONLY <2>3, <2>5, <2>6, v \in Int
  <2> QED BY <2>0, <2>1, <2>4, <2>5, <2>6, <2>7
<1>6. Clock!YearStart(y) <= d /\ d < Clock!YearStart(y + 1)
  BY <1>1, DayInYear
<1> DEFINE year == CHOOSE n \in Clock!Years : Clock!YearStart(n) <= d /\ d < Clock!YearStart(n + 1)
           mon  == CHOOSE n \in 1..12 : Clock!MonthStart(y, n) <= d /\ d < Clock!MonthStart(y, n) + Clock!MonthDays(y, n)
<1>7. year = y
  <2>1. ASSUME NEW n \in Clock!Years, Clock!YearStart(n) <= d, d < Clock!YearStart(n + 1) PROVE n = y
    <3>1. n \in Nat \ {0} /\ n + 1 \in Nat \ {0} /\ y + 1 \in Nat \ {0}
      BY <1>1, YearsAreNumbers
    <3>2. /\ Clock!YearStart(n) \in Int /\ Clock!YearStart(n + 1) \in Int
          /\ Clock!YearStart(y) \in Int /\ Clock!YearStart(y + 1) \in Int
      BY <1>1, <3>1, YearStartIs
    <3>3. CASE n < y
      <4>1. Clock!YearStart(n + 1) <= Clock!YearStart(y)
        BY <1>1, <3>1, <3>3, YearsFollow
      <4> QED BY <1>3, <1>6, <2>1, <3>2, <4>1
    <3>4. CASE y < n
      <4>1. Clock!YearStart(y + 1) <= Clock!YearStart(n)
        BY <1>1, <3>1, <3>4, YearsFollow
      <4> QED BY <1>3, <1>6, <2>1, <3>2, <4>1
    <3> QED BY <1>1, <3>1, <3>3, <3>4
  <2>2. y \in Clock!Years
    BY YearsAreNumbers
  <2> QED BY <1>6, <2>1, <2>2
<1>8. mon = m
  <2>1. PICK z \in Int : z = Clock!YearStart(y)
    BY <1>1, YearStartIs
  <2>0. ASSUME NEW n PROVE Clock!MonthStart(y, n) = z + Clock!DaysBefore(y, n)
    BY <2>1, Zenon DEF Clock!MonthStart
  <2>2. ASSUME NEW n \in 1..12 PROVE Clock!DaysBefore(y, n) \in 0..335 /\ Clock!MonthDays(y, n) \in 28..31
    BY MonthLength
  <2>3. ASSUME NEW n \in 1..12, Clock!MonthStart(y, n) <= d, d < Clock!MonthStart(y, n) + Clock!MonthDays(y, n)
        PROVE  n = m
    <3>1. PICK p \in 0..335 : p = Clock!DaysBefore(y, n)
      BY <2>2
    <3>2. PICK q \in 28..31 : q = Clock!MonthDays(y, n)
      BY <2>2
    <3>3. PICK e \in 0..335 : e = Clock!DaysBefore(y, m)
      BY <2>2
    <3>4. PICK f \in 28..31 : f = Clock!MonthDays(y, m)
      BY <2>2
    <3>5. z + p <= d /\ d < z + p + q /\ z + e <= d /\ d < z + e + f
      <4>1. Clock!MonthStart(y, n) = z + p /\ b = z + e
        BY <1>2, <2>0, <3>1, <3>3, Zenon
      <4>2. z + p <= d /\ d < (z + p) + q
        BY <2>3, <3>2, <4>1, Zenon
      <4>3. k <= f
        BY <3>4
      <4> QED BY ONLY <1>3, <4>1, <4>2, <4>3, z \in Int, p \in 0..335, q \in 28..31, e \in 0..335, f \in 28..31, k \in 1..31, b \in Int
    <3>6. CASE n < m
      <4>1. p + q <= e
        BY <3>1, <3>2, <3>3, <3>6, MonthsFollow
      <4> QED BY ONLY <1>3, <3>5, <4>1, z \in Int, p \in 0..335, q \in 28..31, e \in 0..335, f \in 28..31
    <3>7. CASE m < n
      <4>1. e + f <= p
        BY <3>1, <3>3, <3>4, <3>7, MonthsFollow
      <4> QED BY ONLY <1>3, <3>5, <4>1, z \in Int, p \in 0..335, q \in 28..31, e \in 0..335, f \in 28..31
    <3> QED BY <3>6, <3>7
  <2>4. Clock!MonthStart(y, m) <= d /\ d < Clock!MonthStart(y, m) + Clock!MonthDays(y, m)
    <3>1. PICK f \in 28..31 : f = Clock!MonthDays(y, m)
      BY <2>2
    <3>2. b <= d /\ d < b + f
      BY <1>3, <3>1
    <3> QED BY <1>2, <3>1, <3>2
  <2> QED BY <2>3, <2>4
<1>9. d - Clock!MonthStart(y, m) + 1 = k
  BY <1>2, <1>3
<1>10. Clock!gmtime(s) = [year |-> year, mon |-> mon, day |-> d - Clock!MonthStart(year, mon) + 1, sod |-> o]
  BY <1>5, <1>7, Zenon DEF Clock!gmtime
<1> HIDE DEF year, mon
<1> QED BY <1>4, <1>7, <1>8, <1>9, <1>10, Zenon

\* Every day from the epoch on is one of the calendar.
LEMMA DayHasYear ==
  ASSUME NEW d \in Nat, d < Clock!YearStart(LastYear + 1)
  PROVE  \E y \in ClockYears : Clock!YearStart(y) <= d /\ d < Clock!YearStart(y + 1)
<1> DEFINE S == {n \in Nat : Clock!YearStart(1980 + n) <= d}
<1>1. 0 \in S
  <2>1. Clock!YearStart(1980) <= d
    <3>1. Clock!LeapsUpTo(1979) = 479
      BY DEF Clock!LeapsUpTo
    <3>2. Clock!YearStart(1980) = 365 * (1980 - 1980) + Clock!LeapsUpTo(1980 - 1) - 484
      BY YearStartIs
    <3> QED BY <3>1, <3>2
  <2> QED BY <2>1
<1>2. PICK m \in Nat : 1980 + m = LastYear + 1
  BY YearsAreNumbers
<1>3. m \notin S
  <2>1. Clock!YearStart(1980 + m) \in Int
    BY <1>2, YearStartIs
  <2> QED BY <1>2, <2>1
<1>4. PICK n \in S : n + 1 \notin S
  <2> HIDE DEF S
  <2>1. ~(Nat \subseteq S)
    BY <1>3
  <2>2. ~ \A n \in Nat : n \in S => n + 1 \in S
    BY <1>1, <2>1, NumbersFromZero
  <2> QED BY <2>2
<1>5. PICK y \in Nat \ {0} : y = 1980 + n /\ y + 1 = 1980 + (n + 1)
  OBVIOUS
<1>6. Clock!YearStart(y) <= d /\ d < Clock!YearStart(y + 1)
  <2>1. Clock!YearStart(y) <= d /\ ~(Clock!YearStart(y + 1) <= d)
    BY <1>4, <1>5
  <2>2. Clock!YearStart(y + 1) \in Int
    BY YearStartIs
  <2> QED BY <2>1, <2>2
<1>7. y \in ClockYears
  <2>1. y <= LastYear
    <3>1. SUFFICES ASSUME LastYear < y PROVE FALSE
      BY <1>5, YearsAreNumbers
    <3>2. /\ LastYear \in Nat \ {0} /\ LastYear + 1 \in Nat \ {0}
          /\ Clock!YearStart(LastYear + 1) <= Clock!YearStart(y)
      BY <3>1, YearsAreNumbers, YearsFollow
    <3>3. Clock!YearStart(LastYear + 1) \in Int /\ Clock!YearStart(y) \in Int
      BY <3>2, YearStartIs
    <3> QED BY <1>6, <3>2, <3>3
  <2> QED BY <1>5, <2>1, YearsAreNumbers DEF ClockYears
<1> QED BY <1>6, <1>7

LEMMA DayHasMonth ==
  ASSUME NEW y, NEW r \in Nat, r < 365 + LeapDay(y)
  PROVE  \E m \in 1..12 : Clock!DaysBefore(y, m) <= r /\ r < Clock!DaysBefore(y, m) + Clock!MonthDays(y, m)
<1> SUFFICES ASSUME \A m \in 1..12 : Clock!DaysBefore(y, m) <= r => Clock!DaysBefore(y, m) + Clock!MonthDays(y, m) <= r
             PROVE  FALSE
  <2>1. ASSUME NEW m \in 1..12, ~(Clock!DaysBefore(y, m) + Clock!MonthDays(y, m) <= r)
        PROVE  r < Clock!DaysBefore(y, m) + Clock!MonthDays(y, m)
    <3>1. Clock!DaysBefore(y, m) \in Int /\ Clock!MonthDays(y, m) \in Int
      BY MonthLength
    <3> QED BY <2>1, <3>1
  <2> QED BY <2>1
<1> DEFINE In(m) == Clock!DaysBefore(y, m) <= r
<1>1. In(1)
  BY YearEnd
<1>2. ASSUME NEW m \in 1..11, In(m) PROVE In(m + 1)
  BY <1>2, MonthEnd
<1>3. In(2) /\ In(3) /\ In(4)
  <2> HIDE DEF In
  <2>1. In(1 + 1) BY <1>1, <1>2
  <2>2. In(2 + 1) BY <2>1, <1>2
  <2>3. In(3 + 1) BY <2>2, <1>2
  <2> QED BY <2>1, <2>2, <2>3
<1>4. In(5) /\ In(6) /\ In(7) /\ In(8)
  <2> HIDE DEF In
  <2>1. In(4 + 1) BY <1>3, <1>2
  <2>2. In(5 + 1) BY <2>1, <1>2
  <2>3. In(6 + 1) BY <2>2, <1>2
  <2>4. In(7 + 1) BY <2>3, <1>2
  <2> QED BY <2>1, <2>2, <2>3, <2>4
<1>5. In(9) /\ In(10) /\ In(11) /\ In(12)
  <2> HIDE DEF In
  <2>1. In(8 + 1) BY <1>4, <1>2
  <2>2. In(9 + 1) BY <2>1, <1>2
  <2>3. In(10 + 1) BY <2>2, <1>2
  <2>4. In(11 + 1) BY <2>3, <1>2
  <2> QED BY <2>1, <2>2, <2>3, <2>4
<1>6. 365 + LeapDay(y) <= r
  BY <1>5, YearEnd
<1> QED BY <1>6, LeapDayIs

LEMMA DayHasDate ==
  ASSUME NEW d \in Nat, d < Clock!YearStart(LastYear + 1)
  PROVE  \E y \in ClockYears, m \in 1..12, k \in 1..31 :
           k <= Clock!MonthDays(y, m) /\ d = Clock!MonthStart(y, m) + (k - 1)
<1>1. PICK y \in ClockYears : Clock!YearStart(y) <= d /\ d < Clock!YearStart(y + 1)
  BY DayHasYear
<1>2. y \in Nat \ {0}
  BY YearsAreNumbers
<1>3. PICK s \in Int : s = Clock!YearStart(y)
  BY <1>2, YearStartIs
<1>4. Clock!YearStart(y + 1) = s + (365 + LeapDay(y))
  <2>1. Clock!YearStart(y + 1) = s + (IF Clock!IsLeap(y) THEN 366 ELSE 365)
    BY <1>2, <1>3, YearLength
  <2> QED BY <2>1 DEF LeapDay
<1>5. PICK r \in Nat : r = d - s /\ r < 365 + LeapDay(y)
  <2>1. LeapDay(y) \in 0..1
    BY LeapDayIs
  <2> QED BY <1>1, <1>3, <1>4, <2>1
<1>6. PICK m \in 1..12 : Clock!DaysBefore(y, m) <= r /\ r < Clock!DaysBefore(y, m) + Clock!MonthDays(y, m)
  BY <1>5, DayHasMonth
<1>7. PICK b \in 0..335 : b = Clock!DaysBefore(y, m)
  BY MonthLength
<1>8. PICK l \in 28..31 : l = Clock!MonthDays(y, m)
  BY MonthLength
<1>9. PICK k \in 1..31 : k = r - b + 1 /\ k <= l
  BY <1>6, <1>7, <1>8
<1>10. d = Clock!MonthStart(y, m) + (k - 1)
  <2>1. Clock!MonthStart(y, m) = s + b
    BY <1>3, <1>7, Zenon DEF Clock!MonthStart
  <2> QED BY <1>5, <1>9, <2>1
<1> QED BY <1>8, <1>9, <1>10

\* gmtime() of timegm(), and the other way round.
LEMMA DateIsKept ==
  ASSUME NEW t, Clock!IsDate(t)
  PROVE  Clock!gmtime(Clock!timegm(t)) = t
<1>1. /\ t.year \in ClockYears /\ t.mon \in 1..12 /\ t.day \in 1..31 /\ t.sod \in 0..(Clock!DaySeconds - 1)
      /\ t.day <= Clock!MonthDays(t.year, t.mon)
      /\ t = [year |-> t.year, mon |-> t.mon, day |-> t.day, sod |-> t.sod]
  BY DateTyped
<1>2. Clock!timegm(t) = (Clock!MonthStart(t.year, t.mon) + (t.day - 1)) * Clock!DaySeconds + t.sod
  BY Zenon DEF Clock!timegm, Clock!DayNumber
<1>3. PICK d : d = Clock!MonthStart(t.year, t.mon) + (t.day - 1)
  OBVIOUS
<1>4. Clock!gmtime(d * Clock!DaySeconds + t.sod) = [year |-> t.year, mon |-> t.mon, day |-> t.day, sod |-> t.sod]
  BY <1>1, <1>3, GmtimeIs
<1>5. Clock!timegm(t) = d * Clock!DaySeconds + t.sod
  BY <1>2, <1>3, Zenon
<1>6. t = [year |-> t.year, mon |-> t.mon, day |-> t.day, sod |-> t.sod]
  BY <1>1
<1> QED BY <1>4, <1>5, <1>6, Zenon

LEMMA SecondIsKept ==
  ASSUME NEW s \in Nat, s < Clock!YearStart(LastYear + 1) * Clock!DaySeconds
  PROVE  Clock!IsDate(Clock!gmtime(s)) /\ Clock!timegm(Clock!gmtime(s)) = s
<1>0. PICK n : n = Clock!DaySeconds
  OBVIOUS
<1>1. n = 86400
  BY <1>0 DEF Clock!DaySeconds
<1>2. PICK e \in Int : e = Clock!YearStart(LastYear + 1)
  <2>1. LastYear + 1 \in Nat \ {0}
    BY YearsAreNumbers
  <2> QED BY <2>1, YearStartIs
<1>3. s < e * n
  BY <1>0, <1>2, Zenon
<1>4. PICK d \in Nat : d = s \div 86400 /\ 86400 * d <= s /\ s < 86400 * d + 86400
  OBVIOUS
<1>5. PICK o \in 0..(n - 1) : s = d * n + o
  <2>1. PICK o \in Nat : o = s - 86400 * d
    BY ONLY <1>4, s \in Nat, d \in Nat
  <2>2. o < 86400 /\ s = 86400 * d + o
    BY ONLY <1>4, <2>1, s \in Nat, d \in Nat, o \in Nat
  <2>3. o \in 0..(n - 1)
    <3>1. n \in Int /\ o < n
      BY ONLY <1>1, <2>2
    <3>2. 0 <= o /\ o <= n - 1 /\ o \in Int /\ n - 1 \in Int
      BY ONLY <3>1, o \in Nat
    <3> QED BY ONLY <3>2
  <2>4. s = d * n + o
    BY ONLY <1>1, <2>2, o \in Nat, d \in Nat
  <2> QED BY <2>3, <2>4
<1>6. d < e
  BY <1>1, <1>3, <1>4
<1>7. PICK y \in ClockYears, m \in 1..12, k \in 1..31 :
        k <= Clock!MonthDays(y, m) /\ d = Clock!MonthStart(y, m) + (k - 1)
  BY <1>2, <1>6, DayHasDate
<1>8. PICK t : t = [year |-> y, mon |-> m, day |-> k, sod |-> o]
  OBVIOUS
<1>9. o \in 0..(Clock!DaySeconds - 1)
  BY <1>0
<1>10. Clock!gmtime(d * Clock!DaySeconds + o) = [year |-> y, mon |-> m, day |-> k, sod |-> o]
  BY <1>7, <1>9, GmtimeIs
<1>11. s = d * Clock!DaySeconds + o
  BY ONLY <1>0, <1>5, Zenon
<1>12. Clock!gmtime(s) = t
  BY ONLY <1>8, <1>10, <1>11, Zenon
<1>13. Clock!IsDate(t)
  BY <1>7, <1>8, <1>9, DateMade
<1>14. t.year = y /\ t.mon = m /\ t.day = k /\ t.sod = o
  BY <1>8
<1>15. Clock!timegm(t) = d * Clock!DaySeconds + o
  BY ONLY <1>7, <1>14, Zenon DEF Clock!timegm, Clock!DayNumber
<1> QED BY ONLY <1>11, <1>12, <1>13, <1>15, Zenon

-----------------------------------------------------------------------------
(* UTC2GPS() has the same calendar                                         *)

SumFrom(e, f) == f = [y \in ClockYears |-> IF y = e THEN 0 ELSE f[y - 1] + (IF Clock!IsLeap(y - 1) THEN 366 ELSE 365)]
YearSum(f) == SumFrom(1980, f)

LEMMA SumFromIs ==
  ASSUME NEW e, NEW f, SumFrom(e, f), NEW y \in ClockYears
  PROVE  f[y] = IF y = e THEN 0 ELSE f[y - 1] + (IF Clock!IsLeap(y - 1) THEN 366 ELSE 365)
<1> DEFINE G(g, x) == IF x = e THEN 0 ELSE g[x - 1] + (IF Clock!IsLeap(x - 1) THEN 366 ELSE 365)
<1>1. f = [x \in ClockYears |-> G(f, x)]
  BY DEF SumFrom
<1> HIDE DEF G
<1>2. f[y] = G(f, y)
  BY ONLY <1>1, y \in ClockYears, Zenon
<1> QED BY <1>2 DEF G

LEMMA FirstYear == Clock!YearStart(1980) = -5
<1>1. Clock!LeapsUpTo(1979) = 479
  BY DEF Clock!LeapsUpTo
<1>2. Clock!YearStart(1980) = 365 * (1980 - 1980) + Clock!LeapsUpTo(1980 - 1) - 484
  BY YearStartIs
<1> QED BY <1>1, <1>2

LEMMA YearSumExists == \E f : YearSum(f)
<1> DEFINE f == [y \in ClockYears |-> Clock!YearStart(y) + 5]
<1>1. ASSUME NEW y \in ClockYears
      PROVE  f[y] = IF y = 1980 THEN 0 ELSE f[y - 1] + (IF Clock!IsLeap(y - 1) THEN 366 ELSE 365)
  <2>1. CASE y = 1980
    BY <2>1, FirstYear
  <2>2. CASE y # 1980
    <3>1. PICK x \in ClockYears : x = y - 1 /\ y = x + 1
      BY <2>2, YearsAreNumbers DEF ClockYears
    <3>2. x \in Nat \ {0}
      BY YearsAreNumbers
    <3>3. PICK s \in Int : s = Clock!YearStart(x)
      BY <3>2, YearStartIs
    <3>4. Clock!YearStart(y) = s + (IF Clock!IsLeap(x) THEN 366 ELSE 365)
      BY <3>1, <3>2, <3>3, YearLength
    <3>5. f[x] = s + 5 /\ f[y] = (s + (IF Clock!IsLeap(x) THEN 366 ELSE 365)) + 5
      BY <3>3, <3>4
    <3> HIDE DEF f
    <3>6. f[y] = f[x] + (IF Clock!IsLeap(x) THEN 366 ELSE 365)
      BY ONLY <3>5, s \in Int
    <3> QED BY <2>2, <3>1, <3>6
  <2> QED BY <2>1, <2>2
<1>2. f = [y \in ClockYears |-> f[y]]
  OBVIOUS
<1> HIDE DEF f
<1>3. f = [y \in ClockYears |-> IF y = 1980 THEN 0 ELSE f[y - 1] + (IF Clock!IsLeap(y - 1) THEN 366 ELSE 365)]
  BY <1>1, <1>2
<1> QED BY <1>3 DEF YearSum, SumFrom

LEMMA YearSumIs ==
  ASSUME NEW f, YearSum(f), NEW y \in ClockYears
  PROVE  f[y] = Clock!YearStart(y) + 5
<1>1. ASSUME NEW x \in ClockYears
      PROVE  f[x] = IF x = 1980 THEN 0 ELSE f[x - 1] + (IF Clock!IsLeap(x - 1) THEN 366 ELSE 365)
  BY SumFromIs DEF YearSum
<1> DEFINE S == {n \in Nat : 1980 + n <= LastYear => f[1980 + n] = Clock!YearStart(1980 + n) + 5}
<1>2. 0 \in S
  <2>1. 1980 \in ClockYears
    BY YearsAreNumbers DEF ClockYears
  <2>2. f[1980] = 0
    BY <1>1, <2>1
  <2> QED BY <2>2, FirstYear
<1>3. ASSUME NEW n \in Nat, n \in S PROVE n + 1 \in S
  <2> SUFFICES ASSUME 1980 + (n + 1) <= LastYear
               PROVE  f[1980 + (n + 1)] = Clock!YearStart(1980 + (n + 1)) + 5
    OBVIOUS
  <2>1. PICK x \in ClockYears : x = 1980 + n
    BY YearsAreNumbers DEF ClockYears
  <2>2. PICK z \in ClockYears : z = 1980 + (n + 1) /\ z - 1 = x /\ z # 1980 /\ z = x + 1
    BY <2>1, YearsAreNumbers DEF ClockYears
  <2>3. x \in Nat \ {0}
    BY YearsAreNumbers
  <2>4. PICK s \in Int : s = Clock!YearStart(x)
    BY <2>3, YearStartIs
  <2>5. f[x] = s + 5
    <3>1. 1980 + n <= LastYear
      BY YearsAreNumbers
    <3> QED BY <1>3, <2>1, <2>4, <3>1
  <2>6. f[z] = f[x] + (IF Clock!IsLeap(x) THEN 366 ELSE 365)
    BY <1>1, <2>2
  <2>7. Clock!YearStart(z) = s + (IF Clock!IsLeap(x) THEN 366 ELSE 365)
    BY <2>2, <2>3, <2>4, YearLength
  <2>8. f[z] = Clock!YearStart(z) + 5
    BY ONLY <2>5, <2>6, <2>7, s \in Int
  <2> QED BY <2>2, <2>8
<1>4. Nat \subseteq S
  <2> HIDE DEF S
  <2> QED BY <1>2, <1>3, NumbersFromZero
<1>5. PICK n \in Nat : y = 1980 + n /\ 1980 + n <= LastYear
  <2>1. y \in Nat /\ y >= 1980 /\ y <= LastYear
    BY YearsAreNumbers
  <2>2. y - 1980 \in Nat /\ y = 1980 + (y - 1980)
    BY <2>1
  <2> QED BY <2>1, <2>2
<1>6. f[1980 + n] = Clock!YearStart(1980 + n) + 5
  BY <1>4, <1>5
<1> QED BY <1>5, <1>6

LEMMA YearsCounted ==
  ASSUME NEW y \in ClockYears
  PROVE  Clock!DayofYear[y] = Clock!YearStart(y) + 5
<1>1. PICK f : f = CHOOSE g : YearSum(g)
  OBVIOUS
<1>2. YearSum(f)
  BY <1>1, YearSumExists, Zenon
<1>3. Clock!DayofYear = f
  BY <1>1 DEF Clock!DayofYear, YearSum, SumFrom, ClockYears
<1> QED BY <1>2, <1>3, YearSumIs

MonthSum(y, f) == f = [m \in 1..12 |-> IF m = 1 THEN 0 ELSE f[m - 1] + Clock!MonthDays(y, m - 1)]

LEMMA MonthSumExists == ASSUME NEW y PROVE \E f : MonthSum(y, f)
<1> DEFINE f == [m \in 1..12 |-> Clock!DaysBefore(y, m)]
<1>1. ASSUME NEW m \in 1..12
      PROVE  f[m] = IF m = 1 THEN 0 ELSE f[m - 1] + Clock!MonthDays(y, m - 1)
  <2>1. CASE m = 1
    BY <2>1, YearEnd
  <2>2. CASE m # 1
    <3>1. PICK n \in 1..11 : n = m - 1 /\ m = n + 1
      BY <2>2
    <3>2. Clock!DaysBefore(y, m) = Clock!DaysBefore(y, n) + Clock!MonthDays(y, n)
      BY <3>1, MonthEnd
    <3>3. f[n] = Clock!DaysBefore(y, n) /\ f[m] = Clock!DaysBefore(y, m)
      OBVIOUS
    <3> HIDE DEF f
    <3> QED BY <2>2, <3>1, <3>2, <3>3
  <2> QED BY <2>1, <2>2
<1>2. f = [m \in 1..12 |-> f[m]]
  OBVIOUS
<1> HIDE DEF f
<1>3. f = [m \in 1..12 |-> IF m = 1 THEN 0 ELSE f[m - 1] + Clock!MonthDays(y, m - 1)]
  BY <1>1, <1>2
<1> QED BY <1>3 DEF MonthSum

LEMMA MonthSumIs ==
  ASSUME NEW y, NEW f, MonthSum(y, f), NEW m \in 1..12
  PROVE  f[m] = Clock!DaysBefore(y, m)
<1>1. ASSUME NEW n \in 1..12
      PROVE  f[n] = IF n = 1 THEN 0 ELSE f[n - 1] + Clock!MonthDays(y, n - 1)
  BY Zenon DEF MonthSum
<1> DEFINE Is(n) == f[n] = Clock!DaysBefore(y, n)
<1>2. Is(1)
  BY <1>1, YearEnd
<1>3. ASSUME NEW n \in 1..11, Is(n) PROVE Is(n + 1)
  <2>1. PICK k \in 1..12 : k = n + 1 /\ k - 1 = n /\ k # 1
    OBVIOUS
  <2>2. f[k] = f[n] + Clock!MonthDays(y, n)
    BY <1>1, <2>1
  <2>3. Clock!DaysBefore(y, k) = Clock!DaysBefore(y, n) + Clock!MonthDays(y, n)
    BY <2>1, MonthEnd
  <2>4. f[k] = Clock!DaysBefore(y, k)
    BY <1>3, <2>2, <2>3
  <2> QED BY <2>1, <2>4
<1> HIDE DEF Is
<1>4. Is(2) /\ Is(3) /\ Is(4)
  <2>1. Is(1 + 1) BY <1>2, <1>3
  <2>2. Is(2 + 1) BY <2>1, <1>3
  <2>3. Is(3 + 1) BY <2>2, <1>3
  <2> QED BY <2>1, <2>2, <2>3
<1>5. Is(5) /\ Is(6) /\ Is(7) /\ Is(8)
  <2>1. Is(4 + 1) BY <1>4, <1>3
  <2>2. Is(5 + 1) BY <2>1, <1>3
  <2>3. Is(6 + 1) BY <2>2, <1>3
  <2>4. Is(7 + 1) BY <2>3, <1>3
  <2> QED BY <2>1, <2>2, <2>3, <2>4
<1>6. Is(9) /\ Is(10) /\ Is(11) /\ Is(12)
  <2>1. Is(8 + 1) BY <1>5, <1>3
  <2>2. Is(9 + 1) BY <2>1, <1>3
  <2>3. Is(10 + 1) BY <2>2, <1>3
  <2>4. Is(11 + 1) BY <2>3, <1>3
  <2> QED BY <2>1, <2>2, <2>3, <2>4
<1>7. Is(m)
  BY <1>2, <1>4, <1>5, <1>6, MonthOneOf
<1> QED BY <1>7 DEF Is

LEMMA MonthsCounted ==
  ASSUME NEW y, NEW m \in 1..12
  PROVE  Clock!DayofMonth(y)[m] = Clock!DaysBefore(y, m)
<1>1. PICK f : f = CHOOSE g : MonthSum(y, g)
  OBVIOUS
<1>2. MonthSum(y, f)
  BY <1>1, MonthSumExists, Zenon
<1>3. Clock!DayofMonth(y) = f
  BY <1>1 DEF Clock!DayofMonth, MonthSum
<1> QED BY <1>2, <1>3, MonthSumIs

-----------------------------------------------------------------------------
(* The conversions                                                         *)

LEMMA SecondsAre == Clock!DaySeconds = 86400 /\ Clock!WeekSeconds = 604800
<1>1. Clock!DaySeconds = 86400
  BY DEF Clock!DaySeconds
<1> QED BY <1>1 DEF Clock!WeekSeconds

LEMMA ZonesAre ==
  ASSUME NEW z \in Zones, NEW l \in Leaps
  PROVE  z \in Int /\ -12 <= z /\ z <= 14 /\ l \in Int /\ -3600 <= l /\ l <= 0
<1>1. Zones \subseteq -12..14
  BY TimeAssumption
<1>2. Leaps \subseteq -3600..0
  BY TimeAssumption
<1>3. z \in -12..14
  BY <1>1
<1>4. l \in -3600..0
  BY <1>2
<1> QED BY ONLY <1>3, <1>4

\* 16 bits number the weeks of all the years there are.
LEMMA YearsAreFew == Clock!YearStart(LastYear + 1) \in Int /\ Clock!YearStart(LastYear + 1) <= 400000
<1>1. LastYear + 1 \in Nat \ {0} /\ (LastYear + 1) - 1 = LastYear /\ LastYear \in Nat /\ LastYear <= 3000
  BY YearsAreNumbers
<1>2. Clock!LeapsUpTo(3000) = 727
  BY DEF Clock!LeapsUpTo
<1>3. PICK n \in Nat : n = Clock!LeapsUpTo(LastYear)
  BY <1>1, LeapsAreFew
<1>4. n <= 727 + 3
  <2>1. Clock!LeapsUpTo(LastYear) <= Clock!LeapsUpTo(3000) + 3
    BY <1>1, LeapsAreFew
  <2> QED BY <1>2, <1>3, <2>1
<1>5. Clock!YearStart(LastYear + 1) = 365 * ((LastYear + 1) - 1980) + n - 484
  BY <1>1, <1>3, YearStartIs
<1> QED BY <1>1, <1>4, <1>5

LEMMA DayNumberIs ==
  ASSUME NEW t, Clock!IsDate(t)
  PROVE  Clock!DayNumber(t) \in Int
<1>1. t.year \in ClockYears /\ t.mon \in 1..12 /\ t.day \in 1..31 /\ t.day <= Clock!MonthDays(t.year, t.mon)
  BY DateTyped
<1>2. t.year \in Nat \ {0} /\ t.day \in Nat \ {0}
  BY <1>1, YearsAreNumbers
<1>3. Clock!MonthStart(t.year, t.mon) \in Int
  BY <1>1, <1>2, DayInYear
<1> QED BY <1>2, <1>3 DEF Clock!DayNumber

LEMMA TimegmIs ==
  ASSUME NEW t, Clock!IsDate(t), NEW d \in Int, d = Clock!DayNumber(t)
  PROVE  \E o \in Nat : o < 86400 /\ o = t.sod /\ Clock!timegm(t) = 86400 * d + o
<1>1. t.sod \in 0..(Clock!DaySeconds - 1)
  BY DateTyped
<1>2. PICK n : n = Clock!DaySeconds
  OBVIOUS
<1>3. n = 86400
  BY <1>2, SecondsAre
<1>4. PICK o : o = t.sod
  OBVIOUS
<1>5. o \in 0..(n - 1)
  BY ONLY <1>1, <1>2, <1>4, Zenon
<1>6. o \in Nat /\ o < 86400
  BY ONLY <1>3, <1>5
<1>8. Clock!timegm(t) = d * n + o
  BY <1>2, <1>4, Zenon DEF Clock!timegm
<1>9. d * n + o = 86400 * d + o
  BY ONLY <1>3, d \in Int, <1>6
<1>10. Clock!timegm(t) = 86400 * d + o
  BY ONLY <1>8, <1>9
<1> QED BY ONLY <1>4, <1>6, <1>10

\* What local2gps() makes of a second names it, in range.
InWeeks(w) == w \in [week: 0..(Clock!WeekNumbers - 1), sec: 0..(Clock!WeekSeconds - 1)]
InTime(s) == s \in Nat /\ s < Clock!WeekNumbers * Clock!WeekSeconds
WeekOf(s) == [week |-> (s \div Clock!WeekSeconds) % Clock!WeekNumbers, sec |-> s % Clock!WeekSeconds]

LEMMA WeeksAreWhole ==
  ASSUME NEW s, InTime(s)
  PROVE  InWeeks(WeekOf(s)) /\ Clock!Instant(WeekOf(s)) = s
<1>1. PICK W : W = Clock!WeekSeconds
  OBVIOUS
<1>2. PICK N : N = Clock!WeekNumbers
  OBVIOUS
<1>3. W = 604800 /\ N = 65536
  BY <1>1, <1>2, SecondsAre DEF Clock!WeekNumbers
<1>4. s \in Nat /\ s < N * W
  BY ONLY <1>1, <1>2, InTime(s), Zenon DEF InTime
<1>5. PICK q \in Nat : q = s \div 604800 /\ 604800 * q <= s /\ s < 604800 * q + 604800
  BY ONLY <1>4
<1>6. PICK r \in Nat : r = s % 604800 /\ r < 604800 /\ s = 604800 * q + r
  BY ONLY <1>4, <1>5
<1>7. q < 65536
  <2>1. s < 65536 * 604800
    BY ONLY <1>3, <1>4
  <2> QED BY ONLY <1>4, <1>5, <2>1, q \in Nat
<1>8. q % 65536 = q
  BY ONLY <1>7, q \in Nat
<1>9. (s \div W) % N = q /\ s % W = r
  BY ONLY <1>3, <1>5, <1>6, <1>8
<1>10. PICK w : w = WeekOf(s)
  OBVIOUS
<1>11. w = [week |-> q, sec |-> r]
  BY ONLY <1>1, <1>2, <1>9, <1>10, Zenon DEF WeekOf
<1>12. q \in 0..(N - 1) /\ r \in 0..(W - 1)
  <2>1. N \in Int /\ q < N /\ W \in Int /\ r < W
    BY ONLY <1>3, <1>6, <1>7
  <2> QED BY ONLY <2>1, q \in Nat, r \in Nat
<1>13. q * W + r = s
  BY ONLY <1>3, <1>6, q \in Nat, r \in Nat
<1>14. w.week = q /\ w.sec = r
  BY ONLY <1>11
<1>15. w \in [week: 0..(N - 1), sec: 0..(W - 1)]
  BY ONLY <1>11, <1>12
<1>16. InWeeks(w)
  BY ONLY <1>1, <1>2, <1>15, Zenon DEF InWeeks
<1>17. Clock!Instant(w) = s
  BY ONLY <1>1, <1>13, <1>14, Zenon DEF Clock!Instant
<1> QED BY ONLY <1>10, <1>16, <1>17, Zenon

LEMMA GpsNames ==
  ASSUME NEW t, NEW z, NEW l, NEW s, s = Clock!timegm(t) - z * 3600 - l
  PROVE  Clock!local2gps(t, z, l) = WeekOf(s)
BY DEF Clock!local2gps, WeekOf

LEMMA InTimeIs ==
  ASSUME NEW s \in Nat, s < 39000000000
  PROVE  InTime(s)
<1>1. Clock!WeekSeconds = 604800 /\ Clock!WeekNumbers = 65536
  BY SecondsAre DEF Clock!WeekNumbers
<1>2. s < 65536 * 604800
  OBVIOUS
<1>3. s < Clock!WeekNumbers * Clock!WeekSeconds
  BY ONLY <1>1, <1>2
<1> QED BY <1>3 DEF InTime

(* The clock's count is that of the calendar, which has days left for every
   zone.                                                                   *)
ClockInv ==
  /\ Clock!IsDate(utc) /\ elapsed = Clock!timegm(utc) /\ left \in 0..Days
  /\ 1 <= Clock!DayNumber(utc) /\ Clock!DayNumber(utc) + left + 1 < Clock!YearStart(LastYear + 1)

\* The instants of the conversions, and where they lie.
LEMMA ClockInTime ==
  ASSUME ClockInv
  PROVE  \E T \in Nat : /\ T = Clock!timegm(utc) /\ 86400 <= T /\ T < 35000000000
                        /\ T + 86400 <= Clock!YearStart(LastYear + 1) * Clock!DaySeconds
<1>1. Clock!IsDate(utc)
  BY DEF ClockInv
<1>2. PICK d \in Int : d = Clock!DayNumber(utc)
  BY <1>1, DayNumberIs
<1>3. PICK e \in Int : e = Clock!YearStart(LastYear + 1)
  BY YearsAreFew
<1>4. e <= 400000
  BY <1>3, YearsAreFew
<1>5. PICK o \in Nat : o < 86400 /\ o = utc.sod /\ Clock!timegm(utc) = 86400 * d + o
  BY <1>1, <1>2, TimegmIs
<1>6. 1 <= d /\ d + 1 < e
  <2>1. left \in Nat
    BY YearsAreNumbers, TimeAssumption DEF ClockInv
  <2>2. 1 <= d /\ d + left + 1 < e
    BY ONLY <1>2, <1>3, ClockInv, Zenon DEF ClockInv
  <2> QED BY ONLY <2>1, <2>2, d \in Int, e \in Int
<1>7. PICK T \in Nat : T = 86400 * d + o
  BY <1>6
<1>8. 86400 <= T /\ T < 35000000000 /\ T + 86400 <= e * 86400
  BY ONLY <1>4, <1>5, <1>6, <1>7, T \in Nat, d \in Int, e \in Int, o \in Nat
<1>9. Clock!YearStart(LastYear + 1) * Clock!DaySeconds = e * 86400
  BY <1>3, SecondsAre
<1> QED BY <1>5, <1>7, <1>8, <1>9

LEMMA NamesItsInstant ==
  ASSUME NEW t, NEW z \in Int, NEW l \in Int, NEW T \in Nat, T = Clock!timegm(t), NEW s \in Nat,
         s = T - z * 3600 - l, s < 39000000000
  PROVE  InWeeks(Clock!local2gps(t, z, l)) /\ Clock!Instant(Clock!local2gps(t, z, l)) = s
<1>1. Clock!local2gps(t, z, l) = WeekOf(s)
  BY GpsNames
<1>2. InTime(s)
  BY InTimeIs
<1> QED BY ONLY <1>1, <1>2, WeeksAreWhole, Zenon

LEMMA ClockAgrees == ClockInv => Clock!TimesAgree
<1> SUFFICES ASSUME ClockInv PROVE Clock!TimesAgree
  OBVIOUS
<1>1. Clock!IsDate(utc) /\ elapsed = Clock!timegm(utc) /\ left \in 0..Days
  BY DEF ClockInv
<1>2. PICK T \in Nat : /\ T = Clock!timegm(utc) /\ 86400 <= T /\ T < 35000000000
                       /\ T + 86400 <= Clock!YearStart(LastYear + 1) * Clock!DaySeconds
  BY ClockInTime
<1>3. ASSUME NEW z \in Zones, NEW l \in Leaps
      PROVE  /\ InWeeks(Clock!local2gps(utc, z, l))
             /\ Clock!Instant(Clock!local2gps(utc, z, l)) = T - z * 3600 - l
  <2>1. z \in Int /\ -12 <= z /\ z <= 14 /\ l \in Int /\ -3600 <= l /\ l <= 0
    BY ZonesAre
  <2>2. PICK s \in Nat : s = T - z * 3600 - l /\ s < 39000000000
    BY ONLY <1>2, <2>1, T \in Nat
  <2>3. InWeeks(Clock!local2gps(utc, z, l)) /\ Clock!Instant(Clock!local2gps(utc, z, l)) = s
    BY <1>2, <2>1, <2>2, NamesItsInstant
  <2> QED BY <2>2, <2>3
<1>4. Clock!TypeOK
  <2>1. \A z \in Zones, l \in Leaps : InWeeks(Clock!local2gps(utc, z, l))
    BY <1>3
  <2> QED BY ONLY <1>1, <2>1, Zenon DEF Clock!TypeOK, InWeeks
<1>5. Clock!RoundTrip
  <2> SUFFICES ASSUME NEW z \in Zones, NEW l \in Leaps
               PROVE  Clock!gps2local(Clock!local2gps(utc, z, l), z, l) = utc
    BY Zenon DEF Clock!RoundTrip
  <2>1. z \in Int /\ l \in Int
    BY ZonesAre
  <2>2. PICK w : w = Clock!local2gps(utc, z, l)
    OBVIOUS
  <2>3. PICK i : i = w.week * Clock!WeekSeconds + w.sec
    OBVIOUS
  <2>4. i = T - z * 3600 - l
    <3>1. i = Clock!Instant(w)
      BY ONLY <2>3, Zenon DEF Clock!Instant
    <3> QED BY <1>3, <2>2, <3>1
  <2>5. Clock!gps2local(w, z, l) = Clock!gmtime(i + z * 3600 + l)
    BY <2>3 DEF Clock!gps2local
  <2>6. i + z * 3600 + l = T
    BY ONLY <2>1, <2>4, T \in Nat
  <2>7. Clock!gps2local(w, z, l) = Clock!gmtime(T)
    BY ONLY <2>5, <2>6
  <2>8. Clock!gmtime(T) = utc
    BY <1>1, <1>2, DateIsKept
  <2> QED BY ONLY <2>2, <2>7, <2>8, Zenon
<1>6. Clock!OneInstant
  <2> SUFFICES ASSUME NEW z \in Zones, NEW l \in Leaps
               PROVE  Clock!Instant(Clock!local2gps(Clock!gmtime(elapsed + z * 3600), z, l)) = elapsed - l
    BY DEF Clock!OneInstant
  <2>1. z \in Int /\ -12 <= z /\ z <= 14 /\ l \in Int /\ -3600 <= l /\ l <= 0
    BY ZonesAre
  <2>2. PICK x \in Nat : x = T + z * 3600 /\ x < T + 86400
    BY ONLY <1>2, <2>1, T \in Nat
  <2>3. x < Clock!YearStart(LastYear + 1) * Clock!DaySeconds
    <3>1. PICK e \in Int : e = Clock!YearStart(LastYear + 1) * Clock!DaySeconds
      BY YearsAreFew, SecondsAre
    <3> QED BY <1>2, <2>2, <3>1
  <2>4. PICK t : t = Clock!gmtime(x)
    OBVIOUS
  <2>5. Clock!timegm(t) = x
    BY <2>3, <2>4, SecondIsKept
  <2>6. PICK s \in Nat : s = x - z * 3600 - l /\ s < 39000000000 /\ s = T - l
    BY ONLY <1>2, <2>1, <2>2, T \in Nat
  <2>7. Clock!Instant(Clock!local2gps(t, z, l)) = s
    BY <2>1, <2>5, <2>6, NamesItsInstant
  <2>8. elapsed = T /\ elapsed + z * 3600 = x /\ elapsed - l = s
    BY <1>1, <1>2, <2>2, <2>6
  <2> QED BY <2>4, <2>7, <2>8
<1>7. Clock!SameInstant
  <2>1. /\ utc.year \in ClockYears /\ utc.mon \in 1..12 /\ utc.day \in 1..31
        /\ utc.day <= Clock!MonthDays(utc.year, utc.mon)
    BY <1>1, DateTyped
  <2>2. PICK d \in Int : d = Clock!DayNumber(utc)
    BY <1>1, DayNumberIs
  <2>3. PICK o \in Nat : o < 86400 /\ o = utc.sod /\ Clock!timegm(utc) = 86400 * d + o
    BY <1>1, <2>2, TimegmIs
  <2>4. d \in Nat
    BY ONLY <1>2, <2>3, T \in Nat, d \in Int, o \in Nat
  <2>5. Clock!DayofMonth(utc.year)[utc.mon] + utc.day + Clock!DayofYear[utc.year] - 6 = d
    <3>1. PICK y \in Int : y = Clock!YearStart(utc.year)
      BY <2>1, YearsAreNumbers, YearStartIs
    <3>2. PICK b \in 0..335 : b = Clock!DaysBefore(utc.year, utc.mon)
      BY <2>1, MonthLength
    <3>3. PICK k \in 1..31 : k = utc.day
      BY <2>1
    <3>4. Clock!DayofMonth(utc.year)[utc.mon] = b
      BY <2>1, <3>2, MonthsCounted
    <3>5. Clock!DayofYear[utc.year] = y + 5
      BY <2>1, <3>1, YearsCounted
    <3>6. d = (y + b) + (k - 1)
      BY ONLY <2>2, <3>1, <3>2, <3>3, Zenon DEF Clock!DayNumber, Clock!MonthStart
    <3> QED BY ONLY <3>3, <3>4, <3>5, <3>6, y \in Int, b \in 0..335, k \in 1..31
  <2>6. Clock!UTC2GPS(utc) = [week |-> d \div 7, sec |-> (d % 7) * Clock!DaySeconds + utc.sod + 18]
    BY ONLY <2>5 DEF Clock!UTC2GPS
  <2>7. PICK w : w = Clock!UTC2GPS(utc)
    OBVIOUS
  <2>8. PICK q \in Nat : q = d \div 7
    BY <2>4
  <2>9. PICK r \in Nat : r = d % 7 /\ d = 7 * q + r
    BY <2>4, <2>8
  <2>10. w.week = q /\ w.sec = r * 86400 + o + 18
    BY <2>3, <2>6, <2>7, <2>8, <2>9, SecondsAre
  <2>11. Clock!Instant(w) = q * 604800 + (r * 86400 + o + 18)
    BY <2>10, SecondsAre DEF Clock!Instant
  <2>12. Clock!Instant(w) = T + 18
    BY ONLY <1>2, <2>3, <2>9, <2>11, q \in Nat, r \in Nat, o \in Nat, d \in Int, T \in Nat
  <2>13. Clock!Instant(Clock!utc2gps(utc, -18)) = T + 18
    <3>1. PICK s \in Nat : s = T - 0 * 3600 - (-18) /\ s < 39000000000 /\ s = T + 18
      BY ONLY <1>2, T \in Nat
    <3>2. Clock!Instant(Clock!local2gps(utc, 0, -18)) = s
      BY <1>2, <3>1, NamesItsInstant
    <3> QED BY <3>1, <3>2 DEF Clock!utc2gps
  <2> QED BY <2>7, <2>12, <2>13 DEF Clock!SameInstant
<1> QED BY <1>4, <1>5, <1>6, <1>7 DEF Clock!TimesAgree

(* What the clock's steps do to its date: another second of the day, and
   midnight, after which the next day of the month, the first of the next
   month or the first of January begins.                                   *)
LEMMA SecondSet ==
  ASSUME NEW t, Clock!IsDate(t), NEW s \in 0..(Clock!DaySeconds - 1), NEW u, u = [t EXCEPT !.sod = s]
  PROVE  Clock!IsDate(u) /\ Clock!DayNumber(u) = Clock!DayNumber(t) /\ u.sod = s
<1>1. /\ t.year \in ClockYears /\ t.mon \in 1..12 /\ t.day \in 1..31
      /\ t.day <= Clock!MonthDays(t.year, t.mon)
      /\ t = [year |-> t.year, mon |-> t.mon, day |-> t.day, sod |-> t.sod]
  BY DateTyped
<1>2. u = [year |-> t.year, mon |-> t.mon, day |-> t.day, sod |-> s]
  BY ONLY <1>1, u = [t EXCEPT !.sod = s]
<1>3. Clock!IsDate(u)
  BY <1>1, <1>2, DateMade
<1>4. u.year = t.year /\ u.mon = t.mon /\ u.day = t.day /\ u.sod = s
  BY ONLY <1>2
<1> QED BY ONLY <1>3, <1>4, Zenon DEF Clock!DayNumber, Clock!MonthStart

LEMMA DayAndSecond ==
  ASSUME NEW t, NEW y, NEW m, NEW k, NEW o, t = [year |-> y, mon |-> m, day |-> k, sod |-> o]
  PROVE  [t EXCEPT !.day = @ + 1, !.sod = 0] = [year |-> y, mon |-> m, day |-> t.day + 1, sod |-> 0]
<1>1. PICK j : j = t.day + 1
  OBVIOUS
<1>2. PICK u : u = [t EXCEPT !.day = j]
  OBVIOUS
<1>3. u = [year |-> y, mon |-> m, day |-> j, sod |-> o]
  BY <1>2
<1>4. [u EXCEPT !.sod = 0] = [year |-> y, mon |-> m, day |-> j, sod |-> 0]
  BY ONLY <1>3
<1>5. [t EXCEPT !.day = @ + 1, !.sod = 0] = [u EXCEPT !.sod = 0]
  BY ONLY <1>1, <1>2
<1> QED BY ONLY <1>1, <1>4, <1>5, Zenon

LEMMA MonthAndSecond ==
  ASSUME NEW t, NEW y, NEW m, NEW k, NEW o, t = [year |-> y, mon |-> m, day |-> k, sod |-> o]
  PROVE  [t EXCEPT !.mon = @ + 1, !.day = 1, !.sod = 0] = [year |-> y, mon |-> t.mon + 1, day |-> 1, sod |-> 0]
<1>1. PICK j : j = t.mon + 1
  OBVIOUS
<1>2. PICK u : u = [t EXCEPT !.mon = j]
  OBVIOUS
<1>3. u = [year |-> y, mon |-> j, day |-> k, sod |-> o]
  BY <1>2
<1>4. PICK v : v = [u EXCEPT !.day = 1]
  OBVIOUS
<1>5. v = [year |-> y, mon |-> j, day |-> 1, sod |-> o]
  BY <1>3, <1>4
<1>6. [v EXCEPT !.sod = 0] = [year |-> y, mon |-> j, day |-> 1, sod |-> 0]
  BY ONLY <1>5
<1>7. [t EXCEPT !.mon = @ + 1, !.day = 1, !.sod = 0] = [v EXCEPT !.sod = 0]
  BY ONLY <1>1, <1>2, <1>4
<1> QED BY ONLY <1>1, <1>6, <1>7, Zenon

Tomorrow(t, u) ==
  \/ t.day < Clock!MonthDays(t.year, t.mon) /\ u = [t EXCEPT !.day = @ + 1, !.sod = 0]
  \/ t.day = Clock!MonthDays(t.year, t.mon) /\ t.mon < 12 /\ u = [t EXCEPT !.mon = @ + 1, !.day = 1, !.sod = 0]
  \/ /\ t.day = Clock!MonthDays(t.year, t.mon) /\ t.mon = 12
     /\ u = [year |-> t.year + 1, mon |-> 1, day |-> 1, sod |-> 0]

LEMMA MidnightIs ==
  ASSUME Clock!IsDate(utc), Clock!Midnight
  PROVE  Tomorrow(utc, utc')
<1>1. /\ utc.year \in ClockYears /\ utc.mon \in 1..12 /\ utc.day \in 1..31
      /\ utc.day <= Clock!MonthDays(utc.year, utc.mon)
  BY DateTyped
<1>2. PICK n \in 28..31 : n = Clock!MonthDays(utc.year, utc.mon)
  BY <1>1, MonthLength
<1>3. utc.day < n \/ (utc.day = n /\ utc.mon < 12) \/ (utc.day = n /\ utc.mon = 12)
  BY ONLY <1>1, <1>2
<1>4. utc' = CASE utc.day < Clock!MonthDays(utc.year, utc.mon) ->
                    [utc EXCEPT !.day = @ + 1, !.sod = 0]
               [] utc.day = Clock!MonthDays(utc.year, utc.mon) /\ utc.mon < 12 ->
                    [utc EXCEPT !.mon = @ + 1, !.day = 1, !.sod = 0]
               [] OTHER -> [year |-> utc.year + 1, mon |-> 1, day |-> 1, sod |-> 0]
  BY Zenon DEF Clock!Midnight
<1>5. CASE utc.day < n
  BY <1>1, <1>2, <1>4, <1>5 DEF Tomorrow
<1>6. CASE utc.day = n /\ utc.mon < 12
  BY <1>1, <1>2, <1>4, <1>6 DEF Tomorrow
<1>7. CASE utc.day = n /\ utc.mon = 12
  BY <1>1, <1>2, <1>4, <1>7 DEF Tomorrow
<1> QED BY ONLY <1>3, <1>5, <1>6, <1>7

LEMMA TomorrowIs ==
  ASSUME NEW t, Clock!IsDate(t), NEW u, Tomorrow(t, u),
         Clock!DayNumber(t) + 1 < Clock!YearStart(LastYear + 1)
  PROVE  Clock!IsDate(u) /\ Clock!DayNumber(u) = Clock!DayNumber(t) + 1 /\ u.sod = 0
<1>1. /\ t.year \in ClockYears /\ t.mon \in 1..12 /\ t.day \in 1..31
      /\ t.day <= Clock!MonthDays(t.year, t.mon)
      /\ t = [year |-> t.year, mon |-> t.mon, day |-> t.day, sod |-> t.sod]
  BY DateTyped
<1>2. PICK y, m, k : y = t.year /\ m = t.mon /\ k = t.day
  OBVIOUS
<1>3. /\ y \in ClockYears /\ m \in 1..12 /\ k \in 1..31 /\ k <= Clock!MonthDays(y, m)
      /\ t = [year |-> y, mon |-> m, day |-> k, sod |-> t.sod]
  BY ONLY <1>1, <1>2, Zenon
<1>4. PICK n \in 28..31 : n = Clock!MonthDays(y, m)
  BY <1>3, MonthLength
<1>5. PICK b \in 0..335 : b = Clock!DaysBefore(y, m)
  BY <1>3, MonthLength
<1>6. PICK x \in Int : x = Clock!YearStart(y)
  BY <1>3, YearsAreNumbers, YearStartIs
<1>7. Clock!DayNumber(t) = (x + b) + (k - 1)
  BY ONLY <1>2, <1>5, <1>6, Zenon DEF Clock!DayNumber, Clock!MonthStart
<1>8. 0 \in 0..(Clock!DaySeconds - 1)
  BY SecondsAre
<1>12. 1 \in 1..31 /\ 1 \in 1..12
  OBVIOUS
<1>9. CASE t.day < Clock!MonthDays(t.year, t.mon) /\ u = [t EXCEPT !.day = @ + 1, !.sod = 0]
  <2>1. k < n
    BY ONLY <1>2, <1>4, <1>9, Zenon
  <2>2. PICK j \in 1..31 : j = k + 1 /\ j <= n
    BY ONLY <1>3, <2>1, n \in 28..31
  <2>3. u = [year |-> y, mon |-> m, day |-> j, sod |-> 0]
    <3>1. t = [year |-> y, mon |-> m, day |-> k, sod |-> t.sod]
      BY <1>3
    <3>2. t.day + 1 = j
      BY ONLY <1>2, <2>2
    <3>3. [t EXCEPT !.day = @ + 1, !.sod = 0] = [year |-> y, mon |-> m, day |-> t.day + 1, sod |-> 0]
      BY ONLY <3>1, DayAndSecond, Zenon
    <3> QED BY ONLY <1>9, <3>2, <3>3, Zenon
  <2>4. Clock!IsDate(u)
    BY <1>3, <1>4, <1>8, <2>2, <2>3, DateMade
  <2>5. u.year = y /\ u.mon = m /\ u.day = j /\ u.sod = 0
    BY ONLY <2>3
  <2>6. Clock!DayNumber(u) = (x + b) + (j - 1)
    BY ONLY <1>5, <1>6, <2>5, Zenon DEF Clock!DayNumber, Clock!MonthStart
  <2> QED BY ONLY <1>3, <1>7, <2>2, <2>4, <2>5, <2>6, x \in Int, b \in 0..335
<1>10. CASE /\ t.day = Clock!MonthDays(t.year, t.mon) /\ t.mon < 12
            /\ u = [t EXCEPT !.mon = @ + 1, !.day = 1, !.sod = 0]
  <2>1. k = n /\ m < 12
    BY ONLY <1>2, <1>4, <1>10, Zenon
  <2>2. PICK p \in 1..12 : p = m + 1 /\ m \in 1..11
    BY ONLY <1>3, <2>1
  <2>3. u = [year |-> y, mon |-> p, day |-> 1, sod |-> 0]
    <3>1. t = [year |-> y, mon |-> m, day |-> k, sod |-> t.sod]
      BY <1>3
    <3>2. t.mon + 1 = p
      BY ONLY <1>2, <2>2
    <3>3. [t EXCEPT !.mon = @ + 1, !.day = 1, !.sod = 0] = [year |-> y, mon |-> t.mon + 1, day |-> 1, sod |-> 0]
      BY ONLY <3>1, MonthAndSecond, Zenon
    <3> QED BY ONLY <1>10, <3>2, <3>3, Zenon
  <2>4. 1 <= Clock!MonthDays(y, p)
    BY MonthLength
  <2>5. Clock!IsDate(u)
    BY ONLY <1>3, <1>8, <1>12, <2>3, <2>4, p \in 1..12, DateMade
  <2>6. u.year = y /\ u.mon = p /\ u.day = 1 /\ u.sod = 0
    BY ONLY <2>3
  <2>7. PICK c : c = Clock!DaysBefore(y, p)
    OBVIOUS
  <2>8. c = b + n
    BY <1>4, <1>5, <2>2, <2>7, MonthEnd
  <2>9. Clock!DayNumber(u) = (x + c) + (1 - 1)
    BY ONLY <1>6, <2>6, <2>7, Zenon DEF Clock!DayNumber, Clock!MonthStart
  <2> QED BY ONLY <1>7, <2>1, <2>5, <2>6, <2>8, <2>9, x \in Int, b \in 0..335, n \in 28..31
<1>11. CASE /\ t.day = Clock!MonthDays(t.year, t.mon) /\ t.mon = 12
            /\ u = [year |-> t.year + 1, mon |-> 1, day |-> 1, sod |-> 0]
  <2>1. k = n /\ m = 12
    BY ONLY <1>2, <1>4, <1>11, Zenon
  <2>2. y \in Nat \ {0} /\ y >= 1980 /\ y <= LastYear /\ LastYear \in Nat
    BY <1>3, YearsAreNumbers
  <2>3. PICK a \in 0..1 : a = LeapDay(y)
    BY LeapDayIs
  <2>4. b + n = 365 + a
    BY <1>4, <1>5, <2>1, <2>3, YearEnd
  <2>5. PICK z \in Int : z = Clock!YearStart(y + 1)
    BY <2>2, YearStartIs
  <2>6. z = x + 365 + a
    BY <1>6, <2>2, <2>3, <2>5, YearLength DEF LeapDay
  <2>7. y # LastYear
    <3>1. z = Clock!DayNumber(t) + 1
      BY ONLY <1>7, <2>1, <2>4, <2>6, x \in Int, b \in 0..335, n \in 28..31, a \in 0..1
    <3> QED BY <2>5, <3>1
  <2>8. PICK v \in ClockYears : v = y + 1
    BY ONLY <2>2, <2>7 DEF ClockYears
  <2>9. u = [year |-> v, mon |-> 1, day |-> 1, sod |-> 0]
    BY ONLY <1>2, <1>11, <2>8, Zenon
  <2>10. 1 <= Clock!MonthDays(v, 1) /\ Clock!DaysBefore(v, 1) = 0
    BY MonthsBefore, MonthLength
  <2>11. Clock!IsDate(u)
    BY ONLY <1>8, <1>12, <2>9, <2>10, v \in ClockYears, DateMade
  <2>12. u.year = v /\ u.mon = 1 /\ u.day = 1 /\ u.sod = 0
    BY ONLY <2>9
  <2>13. Clock!DayNumber(u) = (z + 0) + (1 - 1)
    BY ONLY <2>5, <2>8, <2>10, <2>12, Zenon DEF Clock!DayNumber, Clock!MonthStart
  <2> QED BY ONLY <1>7, <2>1, <2>4, <2>6, <2>11, <2>12, <2>13, x \in Int, z \in Int, b \in 0..335, n \in 28..31, a \in 0..1
<1> QED BY <1>9, <1>10, <1>11 DEF Tomorrow

(* The invariant holds where the clock starts, and its steps keep it. *)
LEMMA ClockStarts == Clock!Init => ClockInv
<1> SUFFICES ASSUME Clock!Init PROVE ClockInv
  OBVIOUS
<1>1. utc \in Starts /\ elapsed = Clock!timegm(utc) /\ left = Days
  BY DEF Clock!Init
<1>2. /\ Clock!IsDate(utc) /\ Clock!DayNumber(utc) >= 1
      /\ Clock!DayNumber(utc) + Days + 1 < Clock!YearStart(LastYear + 1)
  <2>1. \A t \in Starts : /\ Clock!IsDate(t) /\ Clock!DayNumber(t) >= 1
                         /\ Clock!DayNumber(t) + Days + 1 < Clock!YearStart(LastYear + 1)
    BY TimeAssumption
  <2> QED BY ONLY <1>1, <2>1, Zenon
<1>3. Days \in Nat
  BY TimeAssumption
<1>4. PICK d \in Int : d = Clock!DayNumber(utc)
  BY <1>2, DayNumberIs
<1>5. 1 <= Clock!DayNumber(utc)
  BY ONLY <1>2, <1>4
<1>6. left \in 0..Days
  BY ONLY <1>1, <1>3
<1> QED BY ONLY <1>1, <1>2, <1>5, <1>6, Zenon DEF ClockInv

LEMMA ClockTicks == ClockInv /\ Clock!Tick => ClockInv'
<1> SUFFICES ASSUME ClockInv, Clock!Tick PROVE ClockInv'
  OBVIOUS
<1>1. Clock!IsDate(utc) /\ elapsed = Clock!timegm(utc) /\ left \in 0..Days
  BY DEF ClockInv
<1>2. PICK s \in Stops : utc' = [utc EXCEPT !.sod = s] /\ elapsed' = elapsed + s - utc.sod /\ left' = left
  BY DEF Clock!Tick
<1>3. s \in 0..(Clock!DaySeconds - 1)
  BY TimeAssumption
<1>4. Clock!IsDate(utc') /\ Clock!DayNumber(utc') = Clock!DayNumber(utc) /\ utc'.sod = s
  BY <1>1, <1>2, <1>3, SecondSet
<1>5. PICK d \in Int : d = Clock!DayNumber(utc)
  BY <1>1, DayNumberIs
<1>6. PICK o \in Nat : o < 86400 /\ o = utc.sod /\ Clock!timegm(utc) = 86400 * d + o
  BY <1>1, <1>5, TimegmIs
<1>7. PICK r \in Nat : r = utc'.sod /\ Clock!timegm(utc') = 86400 * d + r
  BY <1>4, <1>5, TimegmIs
<1>8. elapsed' = Clock!timegm(utc')
  BY ONLY <1>1, <1>2, <1>4, <1>6, <1>7, d \in Int, o \in Nat, r \in Nat
<1>9. 1 <= Clock!DayNumber(utc) /\ Clock!DayNumber(utc) + left + 1 < Clock!YearStart(LastYear + 1)
  BY DEF ClockInv
<1>10. left' \in 0..Days /\ 1 <= Clock!DayNumber(utc') /\ Clock!DayNumber(utc') + left' + 1 < Clock!YearStart(LastYear + 1)
  BY ONLY <1>1, <1>2, <1>4, <1>9, Zenon
<1> QED BY ONLY <1>4, <1>8, <1>10, Zenon DEF ClockInv

LEMMA ClockPassesMidnight == ClockInv /\ Clock!Midnight => ClockInv'
<1> SUFFICES ASSUME ClockInv, Clock!Midnight PROVE ClockInv'
  OBVIOUS
<1>1. Clock!IsDate(utc) /\ elapsed = Clock!timegm(utc) /\ left \in 0..Days
  BY DEF ClockInv
<1>2. left > 0 /\ elapsed' = elapsed + Clock!DaySeconds - utc.sod /\ left' = left - 1
  BY DEF Clock!Midnight
<1>3. left \in Nat /\ Days \in Nat
  BY <1>1, TimeAssumption
<1>4. PICK d \in Int : d = Clock!DayNumber(utc)
  BY <1>1, DayNumberIs
<1>5. PICK e \in Int : e = Clock!YearStart(LastYear + 1)
  BY YearsAreFew
<1>6. 1 <= d /\ d + left + 1 < e
  BY ONLY <1>4, <1>5, ClockInv, Zenon DEF ClockInv
<1>7. d + 1 < e
  BY ONLY <1>3, <1>6, d \in Int, e \in Int
<1>8. Clock!IsDate(utc') /\ Clock!DayNumber(utc') = d + 1 /\ utc'.sod = 0
  BY <1>1, <1>4, <1>5, <1>7, MidnightIs, TomorrowIs
<1>9. PICK f \in Int : f = d + 1 /\ f = Clock!DayNumber(utc')
  BY <1>8
<1>10. PICK o \in Nat : o < 86400 /\ o = utc.sod /\ Clock!timegm(utc) = 86400 * d + o
  BY <1>1, <1>4, TimegmIs
<1>11. PICK r \in Nat : r = utc'.sod /\ Clock!timegm(utc') = 86400 * f + r
  BY <1>8, <1>9, TimegmIs
<1>12. PICK n \in Nat : n = Clock!DaySeconds /\ n = 86400
  BY SecondsAre
<1>13. elapsed' = Clock!timegm(utc')
  BY ONLY <1>1, <1>2, <1>8, <1>9, <1>10, <1>11, <1>12, d \in Int, f \in Int, o \in Nat, r \in Nat, n \in Nat
<1>14. left' \in 0..Days
  BY ONLY <1>1, <1>2, <1>3
<1>15. 1 <= f /\ f + left' + 1 < e
  BY ONLY <1>2, <1>3, <1>6, <1>9, d \in Int, e \in Int
<1> QED BY ONLY <1>5, <1>8, <1>9, <1>13, <1>14, <1>15, Zenon DEF ClockInv

LEMMA ClockRests ==
  ASSUME ClockInv, utc' = utc, elapsed' = elapsed, left' = left
  PROVE  ClockInv'
BY Zenon DEF ClockInv

LEMMA ClockKept ==
  ASSUME subject = "time" => ClockInv, [HelpersNext]_helperVars
  PROVE  (subject = "time" => ClockInv)'
<1>1. subject' = subject
  BY DEF HelpersNext, helperVars
<1>2. Clock!Next \/ (utc' = utc /\ elapsed' = elapsed /\ left' = left)
  BY Zenon DEF HelpersNext, helperVars, UseRing, UseBuffer, UseTime, UsePelco, UseLog, UseConfig, timeVars
<1> QED BY <1>1, <1>2, ClockTicks, ClockPassesMidnight, ClockRests DEF Clock!Next

(* Calendar time, local time of any zone and GPS time name one instant, at
   every instant the clock goes through and for every zone and leap second:
   gps2local() undoes local2gps(), UTC2GPS() names the instant of utc2gps(),
   and the week and the second are in range (time_convert.cpp:20-326).      *)
THEOREM TimesAgreeAlways == HelpersSpec => []TimesAgree
<1>1. HelpersInit => (subject = "time" => ClockInv)
  BY ClockStarts DEF HelpersInit
<1>2. (subject = "time" => ClockInv) /\ [HelpersNext]_helperVars => (subject = "time" => ClockInv)'
  BY ClockKept
<1>3. (subject = "time" => ClockInv) => TimesAgree
  BY ClockAgrees DEF TimesAgree
<1> QED BY <1>1, <1>2, <1>3, PTL DEF HelpersSpec

-----------------------------------------------------------------------------
(* The order of the lines of a configuration file                          *)

\* Whatever stands before an entry, and how much.
Ahead(es, e) == {d \in es : Config!Precedes(d, e)}
Place(es, e) == Cardinality(Ahead(es, e))

LEMMA PrecedesOrders ==
  /\ \A d \in Nat \X Nat : ~Config!Precedes(d, d)
  /\ \A c, d, e \in Nat \X Nat : Config!Precedes(c, d) /\ Config!Precedes(d, e) => Config!Precedes(c, e)
  /\ \A d, e \in Nat \X Nat : d # e => Config!Precedes(d, e) \/ Config!Precedes(e, d)
<1>1. \A d \in Nat \X Nat : d[1] \in Nat /\ d[2] \in Nat /\ d = <<d[1], d[2]>>
  OBVIOUS
<1> QED BY <1>1 DEF Config!Precedes

LEMMA ConfigCounts == ASSUME NEW S PROVE Config!Cardinality(S) = Cardinality(S)
BY Zenon DEF Config!Cardinality, Cardinality

LEMMA PlaceGrows ==
  ASSUME NEW es, es \subseteq Nat \X Nat, IsFiniteSet(es)
  PROVE  /\ \A e \in es : Place(es, e) \in 0..(Cardinality(es) - 1)
         /\ \A d, e \in es : Config!Precedes(d, e) => Place(es, d) < Place(es, e)
<1>1. ASSUME NEW e \in es PROVE IsFiniteSet(Ahead(es, e)) /\ Place(es, e) \in Nat /\ Ahead(es, e) \subseteq es /\ e \notin Ahead(es, e)
  <2>1. Ahead(es, e) \in SUBSET es /\ e \notin Ahead(es, e)
    BY PrecedesOrders DEF Ahead
  <2> QED BY <2>1, FS_Subset, FS_CardinalityType DEF Place
<1>2. ASSUME NEW e \in es PROVE Place(es, e) \in 0..(Cardinality(es) - 1)
  <2>1. Ahead(es, e) \in SUBSET es /\ Ahead(es, e) # es
    BY <1>1
  <2>2. /\ Cardinality(Ahead(es, e)) <= Cardinality(es)
        /\ Cardinality(es) = Cardinality(Ahead(es, e)) => es = Ahead(es, e)
    BY <2>1, FS_Subset
  <2>3. Cardinality(es) \in Nat
    BY FS_CardinalityType
  <2> QED BY <1>1, <2>1, <2>2, <2>3 DEF Place
<1>3. ASSUME NEW d \in es, NEW e \in es, Config!Precedes(d, e) PROVE Place(es, d) < Place(es, e)
  <2>1. d \in Nat \X Nat /\ e \in Nat \X Nat
    OBVIOUS
  <2>2. Ahead(es, d) \in SUBSET Ahead(es, e)
    BY <1>3, <2>1, PrecedesOrders DEF Ahead
  <2>3. d \in Ahead(es, e) /\ d \notin Ahead(es, d)
    BY <1>1, <1>3 DEF Ahead
  <2>4. /\ Cardinality(Ahead(es, d)) <= Cardinality(Ahead(es, e))
        /\ Cardinality(Ahead(es, e)) = Cardinality(Ahead(es, d)) => Ahead(es, e) = Ahead(es, d)
    BY <1>1, <2>2, FS_Subset
  <2>5. Place(es, d) \in Nat /\ Place(es, e) \in Nat
    BY <1>1
  <2> QED BY <2>3, <2>4, <2>5 DEF Place
<1> QED BY <1>2, <1>3

LEMMA EveryPlaceIsTaken ==
  ASSUME NEW es, es \subseteq Nat \X Nat, IsFiniteSet(es), NEW p \in 0..(Cardinality(es) - 1)
  PROVE  \E e \in es : Place(es, e) = p
<1> DEFINE T == 0..(Cardinality(es) - 1)
           f == [e \in es |-> Place(es, e)]
<1>1. f \in [es -> T]
  BY PlaceGrows
<1>2. \A d, e \in es : f[d] = f[e] => d = e
  <2> SUFFICES ASSUME NEW d \in es, NEW e \in es, d # e PROVE Place(es, d) # Place(es, e)
    OBVIOUS
  <2>1. d \in Nat \X Nat /\ e \in Nat \X Nat
    OBVIOUS
  <2>2. Config!Precedes(d, e) \/ Config!Precedes(e, d)
    BY <2>1, PrecedesOrders
  <2>3. Place(es, d) \in Nat /\ Place(es, e) \in Nat
    <3>1. \A x \in T : x \in Nat
      OBVIOUS
    <3> QED BY <3>1, PlaceGrows
  <2>4. Place(es, d) < Place(es, e) \/ Place(es, e) < Place(es, d)
    BY <2>2, PlaceGrows
  <2> QED BY <2>3, <2>4
<1>3. IsFiniteSet(T) /\ Cardinality(T) = Cardinality(es)
  <2>1. Cardinality(es) \in Nat
    BY FS_CardinalityType
  <2>2. PICK m \in Int : m = Cardinality(es) - 1 /\ m >= -1
    BY <2>1
  <2>3. T = 0..m
    BY <2>2
  <2>4. IsFiniteSet(0..m) /\ Cardinality(0..m) = IF 0 > m THEN 0 ELSE m - 0 + 1
    BY FS_Interval
  <2>5. (IF 0 > m THEN 0 ELSE m - 0 + 1) = Cardinality(es)
    BY ONLY <2>1, <2>2
  <2> QED BY ONLY <2>3, <2>4, <2>5, Zenon
<1>4. p \in T
  OBVIOUS
<1>5. \A e \in es : f[e] = Place(es, e)
  OBVIOUS
<1> HIDE DEF T, f
<1>6. f \in Injection(es, T)
  BY <1>1, <1>2, Fun_IsInj
<1>7. f \in Surjection(es, T)
  BY <1>3, <1>6, FS_Injection
<1>8. \E e \in es : f[e] = p
  BY <1>4, <1>7 DEF Surjection
<1> QED BY <1>5, <1>8

LEMMA SortedIs ==
  ASSUME NEW es, es \subseteq Nat \X Nat, IsFiniteSet(es), NEW n, n = Cardinality(es), NEW q, q = Config!Sorted(es)
  PROVE  /\ n \in Nat /\ q \in [1..n -> es]
         /\ \A i, j \in 1..n : i < j => Config!Precedes(q[i], q[j])
         /\ \A e \in es : \E i \in 1..n : q[i] = e
<1>1. n \in Nat
  BY FS_CardinalityType
<1> DEFINE C(e) == Config!Cardinality({d \in es : Config!Precedes(d, e)})
<1>7. ASSUME NEW e PROVE C(e) = Place(es, e)
  <2>1. Config!Cardinality(Ahead(es, e)) = Cardinality(Ahead(es, e))
    BY ConfigCounts
  <2> QED BY <2>1, Zenon DEF Place, Ahead
<1>2. q = [i \in 1..n |-> CHOOSE e \in es : C(e) = i - 1]
  <2>1. Config!Cardinality(es) = n
    BY ConfigCounts
  <2>2. q = [i \in 1..Config!Cardinality(es) |-> CHOOSE e \in es : C(e) = i - 1]
    BY Zenon DEF Config!Sorted
  <2> QED BY ONLY <2>1, <2>2, Zenon
<1> HIDE DEF C
<1>3. ASSUME NEW i \in 1..n PROVE q[i] \in es /\ Place(es, q[i]) = i - 1
  <2>1. i - 1 \in 0..(Cardinality(es) - 1)
    BY <1>1
  <2>2. PICK e \in es : C(e) = i - 1
    BY <1>7, <2>1, EveryPlaceIsTaken
  <2>3. q[i] = CHOOSE x \in es : C(x) = i - 1
    BY ONLY <1>2, i \in 1..n, Zenon
  <2>4. q[i] \in es /\ C(q[i]) = i - 1
    BY ONLY <2>2, <2>3, Zenon
  <2> QED BY <1>7, <2>4
<1>4. q \in [1..n -> es]
  <2>1. q = [i \in 1..n |-> q[i]]
    BY ONLY <1>2
  <2> QED BY <1>3, <2>1
<1>5. ASSUME NEW i \in 1..n, NEW j \in 1..n, i < j PROVE Config!Precedes(q[i], q[j])
  <2>1. Place(es, q[i]) = i - 1 /\ Place(es, q[j]) = j - 1 /\ q[i] \in es /\ q[j] \in es
    BY <1>3
  <2>2. i - 1 # j - 1 /\ ~(j - 1 < i - 1)
    BY <1>1, <1>5
  <2>3. q[i] # q[j]
    BY ONLY <2>1, <2>2
  <2>4. ~Config!Precedes(q[j], q[i])
    <3>1. Config!Precedes(q[j], q[i]) => Place(es, q[j]) < Place(es, q[i])
      BY <2>1, PlaceGrows
    <3> QED BY ONLY <2>1, <2>2, <3>1
  <2> QED BY <2>1, <2>3, <2>4, PrecedesOrders
<1>6. ASSUME NEW e \in es PROVE \E i \in 1..n : q[i] = e
  <2>1. PICK p \in 0..(n - 1) : p = Place(es, e)
    BY PlaceGrows
  <2>2. PICK i \in 1..n : i = p + 1 /\ i - 1 = p
    BY <1>1
  <2>3. q[i] \in es /\ Place(es, q[i]) = p
    BY <1>3, <2>2
  <2>4. q[i] = e
    <3>1. Config!Precedes(q[i], e) => Place(es, q[i]) < Place(es, e)
      BY <2>3, PlaceGrows
    <3>2. Config!Precedes(e, q[i]) => Place(es, e) < Place(es, q[i])
      BY <2>3, PlaceGrows
    <3>3. ~(p < p)
      OBVIOUS
    <3>4. ~Config!Precedes(q[i], e) /\ ~Config!Precedes(e, q[i])
      BY ONLY <2>1, <2>3, <3>1, <3>2, <3>3
    <3> QED BY <2>3, <3>4, PrecedesOrders
  <2> QED BY <2>4
<1> QED BY <1>1, <1>4, <1>5, <1>6

-----------------------------------------------------------------------------
(* What is read of a configuration file, line by line                      *)

Sections == Slots \cup {0}
ValueTexts == Values \cup Bracketed \cup {"cut"}
Texts == {Config!Section(s) : s \in Sections} \cup {Config!Other}
           \cup {Config!Pair(e[1], e[2]) : e \in Keys \X ValueTexts}

\* What the parser knows: the open section and the values.
Known(o, v) == [open |-> o, values |-> v]
Put(v, o, k, x) ==
  [s \in DOMAIN v \cup o |-> IF s \in o THEN Config!With(Config!Of(v, s), k, x) ELSE v[s]]

LEMMA ConfigIs ==
  /\ Slots \subseteq Nat \ {0} /\ Keys \subseteq Nat \ {0} /\ Keys # {} /\ Values # {}
  /\ \A x \in Values : x \notin Bracketed
  /\ "cut" \notin Bracketed
BY ConfigAssumption

LEMMA ReadHeader ==
  ASSUME NEW o, NEW v, NEW s
  PROVE  Config!ReadLine(Known(o, v), Config!Section(s)) = Known({s}, v)
<1>0. PICK l : l = Config!Section(s)
  OBVIOUS
<1>1. l = Config!Section(s) /\ l.is = "section" /\ l.name = s
  BY <1>0 DEF Config!Section
<1>2. Config!ReadLine(Known(o, v), l) = [Known(o, v) EXCEPT !.open = {l.name}]
  BY <1>1 DEF Config!ReadLine
<1> QED BY <1>1, <1>2 DEF Known

LEMMA ReadOther ==
  ASSUME NEW o, NEW v
  PROVE  Config!ReadLine(Known(o, v), Config!Other) = Known(o, v)
<1>0. PICK l : l = Config!Other
  OBVIOUS
<1>1. l = Config!Other /\ l.is = "other"
  BY <1>0 DEF Config!Other
<1> QED BY <1>1 DEF Config!ReadLine

LEMMA ReadBracketed ==
  ASSUME NEW o, NEW v, NEW k, NEW x \in Bracketed
  PROVE  Config!ReadLine(Known(o, v), Config!Pair(k, x)) = Known({0}, v)
<1>0. PICK l : l = Config!Pair(k, x)
  OBVIOUS
<1>1. l = Config!Pair(k, x) /\ l.is = "pair" /\ l.value = x
  BY <1>0 DEF Config!Pair
<1>2. Config!ReadLine(Known(o, v), l) = [Known(o, v) EXCEPT !.open = {0}]
  BY <1>1 DEF Config!ReadLine
<1> QED BY <1>1, <1>2 DEF Known

LEMMA ReadPair ==
  ASSUME NEW o, NEW v, NEW k, NEW x, x \notin Bracketed
  PROVE  Config!ReadLine(Known(o, v), Config!Pair(k, x)) = Known(o, Put(v, o, k, x))
<1>0. PICK l : l = Config!Pair(k, x)
  OBVIOUS
<1>1. l = Config!Pair(k, x) /\ l.is = "pair" /\ l.value = x /\ l.key = k
  BY <1>0 DEF Config!Pair
<1>7. PICK r : r = Known(o, v)
  OBVIOUS
<1>2. r = Known(o, v) /\ r.open = o /\ r.values = v
  BY <1>7 DEF Known
<1>3. Config!ReadLine(r, l) =
        [r EXCEPT !.values = [s \in DOMAIN @ \cup r.open |->
                                IF s \in r.open THEN Config!With(Config!Of(@, s), l.key, l.value) ELSE @[s]]]
  BY <1>1 DEF Config!ReadLine
<1>4. [s \in DOMAIN r.values \cup r.open |->
         IF s \in r.open THEN Config!With(Config!Of(r.values, s), l.key, l.value) ELSE r.values[s]] = Put(v, o, k, x)
  BY ONLY <1>1, <1>2, Zenon DEF Put
<1>5. Config!ReadLine(r, l) = [r EXCEPT !.values = Put(v, o, k, x)]
  BY ONLY <1>3, <1>4
<1>6. [r EXCEPT !.values = Put(v, o, k, x)] = Known(o, Put(v, o, k, x))
  BY ONLY <1>2 DEF Known
<1> QED BY <1>1, <1>2, <1>5, <1>6

\* The states after each of the first m lines.
Nobody == Known({}, Config!Nothing)
Reads(lines, m, g) == g = [n \in 0..m |-> IF n = 0 THEN Nobody ELSE Config!ReadLine(g[n - 1], lines[n])]

LEMMA ReadsIs ==
  ASSUME NEW lines, NEW m \in Nat, NEW g, Reads(lines, m, g)
  PROVE  /\ g[0] = Nobody
         /\ \A n \in 1..m : g[n] = Config!ReadLine(g[n - 1], lines[n])
<1> DEFINE G(h, n) == IF n = 0 THEN Nobody ELSE Config!ReadLine(h[n - 1], lines[n])
<1>1. g = [n \in 0..m |-> G(g, n)]
  BY DEF Reads
<1>2. 0 \in 0..m /\ \A n \in 1..m : n \in 0..m /\ n # 0
  OBVIOUS
<1>3. G(g, 0) = Nobody /\ \A n \in 1..m : G(g, n) = Config!ReadLine(g[n - 1], lines[n])
  BY <1>2
<1> HIDE DEF G
<1>4. \A n \in 0..m : g[n] = G(g, n)
  BY ONLY <1>1, Zenon
<1> QED BY ONLY <1>2, <1>3, <1>4

LEMMA ReadsExist ==
  ASSUME NEW lines, NEW m \in Nat
  PROVE  \E g : Reads(lines, m, g)
<1> DEFINE S == {n \in Nat : \E g : Reads(lines, n, g)}
<1>1. 0 \in S
  <2> DEFINE g == [n \in 0..0 |-> Nobody]
  <2>1. g = [n \in 0..0 |-> IF n = 0 THEN Nobody ELSE Config!ReadLine(g[n - 1], lines[n])]
    <3>1. \A n \in 0..0 : n = 0
      OBVIOUS
    <3>2. \A n \in 0..0 : g[n] = IF n = 0 THEN Nobody ELSE Config!ReadLine(g[n - 1], lines[n])
      BY <3>1
    <3>3. g = [n \in 0..0 |-> g[n]]
      OBVIOUS
    <3> HIDE DEF g
    <3> QED BY ONLY <3>2, <3>3
  <2> HIDE DEF g
  <2>2. Reads(lines, 0, g)
    BY ONLY <2>1, Zenon DEF Reads
  <2> QED BY <2>2
<1>2. ASSUME NEW n \in Nat, n \in S PROVE n + 1 \in S
  <2>1. PICK f : Reads(lines, n, f)
    BY <1>2
  <2> DEFINE g == [i \in 0..(n + 1) |-> IF i = n + 1 THEN Config!ReadLine(f[n], lines[n + 1]) ELSE f[i]]
  <2>2. g[n + 1] = Config!ReadLine(f[n], lines[n + 1]) /\ \A i \in 0..n : g[i] = f[i]
    OBVIOUS
  <2>3. g = [i \in 0..(n + 1) |-> g[i]]
    OBVIOUS
  <2> HIDE DEF g
  <2>4. ASSUME NEW i \in 0..(n + 1)
        PROVE  g[i] = IF i = 0 THEN Nobody ELSE Config!ReadLine(g[i - 1], lines[i])
    <3>1. CASE i = 0
      BY <2>1, <2>2, <3>1, ReadsIs
    <3>2. CASE i \in 1..n
      <4>1. i \in 0..n /\ i - 1 \in 0..n /\ i # 0
        BY <3>2
      <4>2. f[i] = Config!ReadLine(f[i - 1], lines[i])
        BY <2>1, <3>2, ReadsIs
      <4> QED BY ONLY <2>2, <4>1, <4>2
    <3>3. CASE i = n + 1
      <4>1. n \in 0..n /\ i - 1 = n /\ i # 0
        BY <3>3
      <4> QED BY ONLY <2>2, <3>3, <4>1
    <3> QED BY <3>1, <3>2, <3>3
  <2>5. g = [i \in 0..(n + 1) |-> IF i = 0 THEN Nobody ELSE Config!ReadLine(g[i - 1], lines[i])]
    BY ONLY <2>3, <2>4
  <2>6. Reads(lines, n + 1, g)
    BY ONLY <2>5, Zenon DEF Reads
  <2> QED BY <2>6
<1> HIDE DEF S
<1>3. m \in S
  BY <1>1, <1>2, NumbersFromZero
<1> QED BY <1>3 DEF S

LEMMA ReadsAgree ==
  ASSUME NEW lines, NEW rest, NEW m \in Nat, NEW p \in Nat, NEW f, NEW g, Reads(lines, m, f), Reads(rest, p, g),
         m <= p, \A i \in 1..m : lines[i] = rest[i]
  PROVE  f[m] = g[m]
<1> DEFINE S == {n \in Nat : n <= m => f[n] = g[n]}
<1>1. 0 \in S
  BY ReadsIs
<1>2. ASSUME NEW n \in Nat, n \in S PROVE n + 1 \in S
  <2> SUFFICES ASSUME n + 1 <= m PROVE f[n + 1] = g[n + 1]
    OBVIOUS
  <2>1. PICK i \in 1..m : i = n + 1 /\ i - 1 = n /\ i \in 1..p
    OBVIOUS
  <2>2. f[n] = g[n]
    BY <1>2
  <2>3. f[i] = Config!ReadLine(f[i - 1], lines[i]) /\ g[i] = Config!ReadLine(g[i - 1], rest[i])
    BY <2>1, ReadsIs
  <2>4. lines[i] = rest[i]
    OBVIOUS
  <2> QED BY ONLY <2>1, <2>2, <2>3, <2>4
<1> HIDE DEF S
<1>3. m \in S
  BY <1>1, <1>2, NumbersFromZero
<1> QED BY <1>3 DEF S

\* What the parser knows when it has read the lines.
AllOf(lines) == Config!Parsed(lines)[Len(lines)]

LEMMA ParsedReads ==
  ASSUME NEW lines \in Seq(Texts)
  PROVE  Reads(lines, Len(lines), Config!Parsed(lines))
<1>1. PICK g : g = CHOOSE h : Reads(lines, Len(lines), h)
  OBVIOUS
<1>2. Reads(lines, Len(lines), g)
  <2>1. Len(lines) \in Nat
    OBVIOUS
  <2> QED BY <1>1, <2>1, ReadsExist, Zenon
<1>3. Config!Parsed(lines) = g
  BY <1>1 DEF Config!Parsed, Reads, Nobody, Known
<1> QED BY <1>2, <1>3

LEMMA NothingRead == AllOf(<<>>) = Nobody
<1>1. <<>> \in Seq(Texts) /\ Len(<<>>) = 0
  OBVIOUS
<1> QED BY <1>1, ParsedReads, ReadsIs DEF AllOf

LEMMA OneMoreRead ==
  ASSUME NEW lines \in Seq(Texts), NEW l \in Texts
  PROVE  AllOf(Append(lines, l)) = Config!ReadLine(AllOf(lines), l)
<1>1. PICK rest : rest = Append(lines, l)
  OBVIOUS
<1>2. PICK m \in Nat : m = Len(lines)
  OBVIOUS
<1>3. PICK p \in Nat : p = m + 1 /\ p - 1 = m /\ p \in 1..p /\ m <= p
  OBVIOUS
<1>4. rest \in Seq(Texts) /\ Len(rest) = p /\ rest[p] = l /\ \A i \in 1..m : rest[i] = lines[i]
  BY <1>1, <1>2, <1>3, AppendProperties
<1>5. PICK f, g : f = Config!Parsed(lines) /\ g = Config!Parsed(rest)
  OBVIOUS
<1>6. Reads(lines, m, f) /\ Reads(rest, p, g)
  BY <1>2, <1>4, <1>5, ParsedReads
<1>7. f[m] = g[m]
  BY <1>3, <1>4, <1>6, ReadsAgree
<1>8. g[p] = Config!ReadLine(g[p - 1], rest[p])
  BY <1>3, <1>6, ReadsIs
<1> QED BY ONLY <1>1, <1>2, <1>3, <1>4, <1>5, <1>7, <1>8, Zenon DEF AllOf

\* The values a file can give: no section without a key, no value with brackets.
Plain == Values \cup {"cut"}
Pairings == UNION {[K -> Plain] : K \in (SUBSET Keys) \ {{}}}
Tables == UNION {[D -> Pairings] : D \in SUBSET Sections}

LEMMA PairingIs ==
  ASSUME NEW p
  PROVE  p \in Pairings <=> /\ p = [k \in DOMAIN p |-> p[k]] /\ DOMAIN p \subseteq Keys /\ DOMAIN p # {}
                            /\ \A k \in DOMAIN p : p[k] \in Plain
<1>1. ASSUME p \in Pairings
      PROVE  /\ p = [k \in DOMAIN p |-> p[k]] /\ DOMAIN p \subseteq Keys /\ DOMAIN p # {}
             /\ \A k \in DOMAIN p : p[k] \in Plain
  <2>1. PICK K \in (SUBSET Keys) \ {{}} : p \in [K -> Plain]
    BY <1>1 DEF Pairings
  <2> QED BY <2>1
<1>2. ASSUME p = [k \in DOMAIN p |-> p[k]], DOMAIN p \subseteq Keys, DOMAIN p # {}, \A k \in DOMAIN p : p[k] \in Plain
      PROVE  p \in Pairings
  <2>1. DOMAIN p \in (SUBSET Keys) \ {{}} /\ p \in [DOMAIN p -> Plain]
    BY <1>2
  <2> QED BY <2>1 DEF Pairings
<1> QED BY <1>1, <1>2, Zenon

LEMMA TableIs ==
  ASSUME NEW v
  PROVE  v \in Tables <=> /\ v = [s \in DOMAIN v |-> v[s]] /\ DOMAIN v \subseteq Sections
                          /\ \A s \in DOMAIN v : v[s] \in Pairings
<1>1. ASSUME v \in Tables
      PROVE  v = [s \in DOMAIN v |-> v[s]] /\ DOMAIN v \subseteq Sections /\ \A s \in DOMAIN v : v[s] \in Pairings
  <2>1. PICK D \in SUBSET Sections : v \in [D -> Pairings]
    BY <1>1 DEF Tables
  <2> QED BY <2>1
<1>2. ASSUME v = [s \in DOMAIN v |-> v[s]], DOMAIN v \subseteq Sections, \A s \in DOMAIN v : v[s] \in Pairings
      PROVE  v \in Tables
  <2>1. DOMAIN v \in SUBSET Sections /\ v \in [DOMAIN v -> Pairings]
    BY <1>2
  <2> QED BY <2>1 DEF Tables
<1> QED BY <1>1, <1>2, Zenon

LEMMA NothingIsATable == Config!Nothing \in Tables /\ DOMAIN Config!Nothing = {}
BY TableIs DEF Config!Nothing

LEMMA OfIs ==
  ASSUME NEW v \in Tables, NEW s
  PROVE  /\ s \in DOMAIN v => Config!Of(v, s) = v[s] /\ v[s] \in Pairings
         /\ s \notin DOMAIN v => Config!Of(v, s) = Config!Nothing
         /\ DOMAIN Config!Of(v, s) \subseteq Keys
         /\ \A k \in DOMAIN Config!Of(v, s) : Config!Of(v, s)[k] \in Plain
<1>1. CASE s \in DOMAIN v
  BY <1>1, TableIs, PairingIs DEF Config!Of
<1>2. CASE s \notin DOMAIN v
  BY <1>2, NothingIsATable DEF Config!Of
<1> QED BY <1>1, <1>2

LEMMA WithIs ==
  ASSUME NEW p, DOMAIN p \subseteq Keys, \A j \in DOMAIN p : p[j] \in Plain, NEW k \in Keys, NEW x \in Plain
  PROVE  Config!With(p, k, x) \in Pairings
<1>1. PICK q : q = Config!With(p, k, x)
  OBVIOUS
<1>2. q = [j \in DOMAIN p \cup {k} |-> IF j = k THEN x ELSE p[j]]
  BY <1>1, Zenon DEF Config!With
<1>3. DOMAIN q = DOMAIN p \cup {k} /\ \A j \in DOMAIN p \cup {k} : q[j] = IF j = k THEN x ELSE p[j]
  BY <1>2
<1>4. DOMAIN q \subseteq Keys /\ DOMAIN q # {} /\ (\A j \in DOMAIN q : q[j] \in Plain) /\ q = [j \in DOMAIN q |-> q[j]]
  BY <1>2, <1>3
<1> QED BY <1>1, <1>4, PairingIs

LEMMA PutIsATable ==
  ASSUME NEW v \in Tables, NEW o \in SUBSET Sections, NEW k \in Keys, NEW x \in Plain
  PROVE  Put(v, o, k, x) \in Tables
<1>1. PICK u : u = Put(v, o, k, x)
  OBVIOUS
<1>2. u = [s \in DOMAIN v \cup o |-> IF s \in o THEN Config!With(Config!Of(v, s), k, x) ELSE v[s]]
  BY <1>1, Zenon DEF Put
<1>3. DOMAIN v \subseteq Sections
  BY TableIs
<1>4. ASSUME NEW s \in DOMAIN v \cup o PROVE u[s] \in Pairings
  <2>1. Config!With(Config!Of(v, s), k, x) \in Pairings
    BY OfIs, WithIs
  <2>2. s \notin o => v[s] \in Pairings
    BY TableIs
  <2>3. u[s] = IF s \in o THEN Config!With(Config!Of(v, s), k, x) ELSE v[s]
    BY <1>2, Zenon
  <2> QED BY <2>1, <2>2, <2>3
<1>5. DOMAIN u = DOMAIN v \cup o /\ u = [s \in DOMAIN u |-> u[s]]
  BY <1>2
<1> QED BY <1>1, <1>3, <1>4, <1>5, TableIs

LEMMA TextRead ==
  ASSUME NEW v \in Tables, NEW o \in SUBSET Sections, NEW l \in Texts
  PROVE  \E p \in SUBSET Sections, u \in Tables : Config!ReadLine(Known(o, v), l) = Known(p, u)
<1>1. CASE \E s \in Sections : l = Config!Section(s)
  <2>1. PICK s \in Sections : l = Config!Section(s)
    BY <1>1
  <2>2. Config!ReadLine(Known(o, v), l) = Known({s}, v)
    BY <2>1, ReadHeader
  <2>3. {s} \in SUBSET Sections
    OBVIOUS
  <2> QED BY <2>2, <2>3
<1>2. CASE l = Config!Other
  BY <1>2, ReadOther
<1>3. CASE \E e \in Keys \X ValueTexts : l = Config!Pair(e[1], e[2])
  <2>1. PICK k \in Keys, x \in ValueTexts : l = Config!Pair(k, x)
    BY <1>3
  <2>2. CASE x \in Bracketed
    <3>1. {0} \in SUBSET Sections
      BY DEF Sections
    <3> QED BY <2>1, <2>2, <3>1, ReadBracketed
  <2>3. CASE x \notin Bracketed
    <3>1. x \in Plain
      BY <2>3 DEF ValueTexts, Plain
    <3>2. Put(v, o, k, x) \in Tables
      BY <3>1, PutIsATable
    <3> QED BY <2>1, <2>3, <3>2, ReadPair
  <2> QED BY <2>2, <2>3
<1> QED BY <1>1, <1>2, <1>3 DEF Texts

\* Whatever the lines of a file, the parser knows the values of a table.
LEMMA FileRead ==
  ASSUME NEW lines \in Seq(Texts)
  PROVE  \E o \in SUBSET Sections, v \in Tables : AllOf(lines) = Known(o, v)
<1>0. PICK f : f = Config!Parsed(lines)
  OBVIOUS
<1>1. PICK m \in Nat : m = Len(lines) /\ f = Config!Parsed(lines)
  BY <1>0
<1>2. Reads(lines, m, f) /\ \A n \in 1..m : lines[n] \in Texts
  BY <1>1, ParsedReads
<1> DEFINE S == {n \in Nat : n <= m => \E o \in SUBSET Sections, v \in Tables : f[n] = Known(o, v)}
<1>3. 0 \in S
  <2>1. f[0] = Known({}, Config!Nothing)
    BY <1>2, ReadsIs DEF Nobody
  <2> QED BY <2>1, NothingIsATable
<1>4. ASSUME NEW n \in Nat, n \in S PROVE n + 1 \in S
  <2> SUFFICES ASSUME n + 1 <= m PROVE \E o \in SUBSET Sections, v \in Tables : f[n + 1] = Known(o, v)
    OBVIOUS
  <2>1. PICK i \in 1..m : i = n + 1 /\ i - 1 = n
    OBVIOUS
  <2>2. PICK o \in SUBSET Sections, v \in Tables : f[n] = Known(o, v)
    BY <1>4
  <2>3. f[i] = Config!ReadLine(f[i - 1], lines[i])
    BY <1>2, ReadsIs
  <2>4. f[i] = Config!ReadLine(Known(o, v), lines[i]) /\ lines[i] \in Texts
    BY ONLY <1>2, <2>1, <2>2, <2>3
  <2>5. \E p \in SUBSET Sections, u \in Tables : f[i] = Known(p, u)
    BY <2>4, TextRead
  <2> QED BY ONLY <2>1, <2>5
<1> HIDE DEF S
<1>5. m \in S
  BY <1>3, <1>4, NumbersFromZero
<1>6. m <= m
  OBVIOUS
<1>7. \E o \in SUBSET Sections, v \in Tables : f[m] = Known(o, v)
  BY ONLY <1>5, <1>6 DEF S
<1> QED BY <1>1, <1>7, Zenon DEF AllOf

LEMMA ParsedIsATable ==
  ASSUME NEW lines \in Seq(Texts)
  PROVE  /\ Config!parseConfigFile(lines) = AllOf(lines).values
         /\ Config!parseConfigFile(lines) \in Tables
<1>1. PICK o \in SUBSET Sections, v \in Tables : AllOf(lines) = Known(o, v)
  BY FileRead
<1>2. AllOf(lines).values = v
  BY <1>1 DEF Known
<1>3. Config!parseConfigFile(lines) = AllOf(lines).values
  BY Zenon DEF AllOf, Config!parseConfigFile
<1> QED BY <1>2, <1>3

LEMMA ATableSet ==
  ASSUME NEW v \in Tables, NEW s, NEW k, k \in DOMAIN Config!Of(v, s), NEW x \in Values, NEW u, u = Config!Set(v, s, k, x)
  PROVE  /\ u \in Tables /\ s \in DOMAIN v /\ s \in Sections /\ k \in Keys /\ k \in DOMAIN v[s]
         /\ DOMAIN u = DOMAIN v
         /\ \A t \in DOMAIN v : /\ DOMAIN u[t] = DOMAIN v[t]
                                /\ \A j \in DOMAIN v[t] : u[t][j] = IF t = s /\ j = k THEN x ELSE v[t][j]
<1>1. s \in DOMAIN v /\ k \in DOMAIN v[s]
  BY OfIs, NothingIsATable
<1>2. DOMAIN v \subseteq Sections /\ v = [t \in DOMAIN v |-> v[t]] /\ \A t \in DOMAIN v : v[t] \in Pairings
  BY TableIs
<1>3. \A t \in DOMAIN v : /\ v[t] = [j \in DOMAIN v[t] |-> v[t][j]] /\ DOMAIN v[t] \subseteq Keys /\ DOMAIN v[t] # {}
                          /\ \A j \in DOMAIN v[t] : v[t][j] \in Plain
  BY <1>2, PairingIs
<1>4. u = [v EXCEPT ![s][k] = x]
  BY Zenon DEF Config!Set
<1>5. PICK p : p = [v[s] EXCEPT ![k] = x]
  OBVIOUS
<1>6. u = [v EXCEPT ![s] = p]
  BY <1>4, <1>5
<1>7. /\ DOMAIN p = DOMAIN v[s] /\ p = [j \in DOMAIN p |-> p[j]]
      /\ \A j \in DOMAIN v[s] : p[j] = IF j = k THEN x ELSE v[s][j]
  BY <1>1, <1>5
<1>8. p \in Pairings
  <2>1. \A j \in DOMAIN p : p[j] \in Plain
    BY <1>1, <1>3, <1>7 DEF Plain
  <2> QED BY <1>1, <1>3, <1>7, <2>1, PairingIs
<1>9. DOMAIN u = DOMAIN v /\ u = [t \in DOMAIN u |-> u[t]] /\ \A t \in DOMAIN v : u[t] = IF t = s THEN p ELSE v[t]
  BY <1>1, <1>6
<1>10. u \in Tables
  <2>1. \A t \in DOMAIN u : u[t] \in Pairings
    BY <1>2, <1>8, <1>9
  <2> QED BY <1>2, <1>9, <2>1, TableIs
<1>11. ASSUME NEW t \in DOMAIN v
       PROVE  /\ DOMAIN u[t] = DOMAIN v[t]
              /\ \A j \in DOMAIN v[t] : u[t][j] = IF t = s /\ j = k THEN x ELSE v[t][j]
  BY <1>7, <1>9
<1> QED BY <1>1, <1>2, <1>3, <1>9, <1>10, <1>11

\* The entries of the lines that a table is written as, and what stands in them.
Spots == Sections \X (Keys \cup {0})
Settings(v) == [e \in Config!Entries(v) |-> IF e[2] = 0 THEN 0 ELSE v[e[1]][e[2]]]

\* What a file says that has the entries D, with the settings w.
KeysIn(D, s) == {k \in Keys : <<s, k>> \in D}
SectionsIn(D) == {s \in Sections : KeysIn(D, s) # {}}
Shown(D, w) == [s \in SectionsIn(D) |-> [k \in KeysIn(D, s) |-> w[<<s, k>>]]]
Opened(D) == {s \in Sections : <<s, 0>> \in D /\ \A d \in D : d[1] <= s}
Has(lines, D, w) == AllOf(lines) = Known(Opened(D), Shown(D, w))

LEMMA SpotsAre ==
  /\ Spots \subseteq Nat \X Nat /\ Sections \subseteq Nat /\ Keys \subseteq Nat /\ 0 \notin Keys /\ IsFiniteSet(Spots)
<1>1. Sections \subseteq Nat /\ Keys \subseteq Nat /\ 0 \notin Keys /\ Keys \cup {0} \subseteq Nat
  BY ConfigIs DEF Sections
<1>2. IsFiniteSet(Sections) /\ IsFiniteSet(Keys \cup {0})
  BY ConfigAssumption, FS_AddElement DEF Sections
<1>3. IsFiniteSet(Spots)
  BY <1>2, FS_Product DEF Spots
<1> QED BY <1>1, <1>3 DEF Spots

LEMMA EntriesAre ==
  ASSUME NEW v \in Tables, NEW E, E = Config!Entries(v)
  PROVE  /\ E \subseteq Spots /\ \A e \in E : <<e[1], 0>> \in E
         /\ \A s \in Sections : <<s, 0>> \in E <=> s \in DOMAIN v
         /\ \A s \in Sections, k \in Keys : <<s, k>> \in E <=> s \in DOMAIN v /\ k \in DOMAIN v[s]
<1>1. DOMAIN v \subseteq Sections /\ \A s \in DOMAIN v : DOMAIN v[s] \subseteq Keys
  BY TableIs, PairingIs
<1>2. \A e : e \in E <=> \/ \E s \in DOMAIN v : e = <<s, 0>>
                         \/ \E s \in DOMAIN v : \E k \in DOMAIN v[s] : e = <<s, k>>
  BY DEF Config!Entries
<1>3. E \subseteq Spots
  BY <1>1, <1>2 DEF Spots
<1>4. 0 \notin Keys
  BY SpotsAre
<1> QED BY <1>1, <1>2, <1>3, <1>4

LEMMA SettingsAre ==
  ASSUME NEW v \in Tables, NEW w, w = Settings(v), NEW s \in DOMAIN v, NEW k \in DOMAIN v[s]
  PROVE  w[<<s, k>>] = v[s][k]
<1>1. s \in Sections /\ k \in Keys /\ k # 0
  BY TableIs, PairingIs, SpotsAre
<1>0. PICK e : e = <<s, k>>
  OBVIOUS
<1>2. e = <<s, k>> /\ e[1] = s /\ e[2] = k
  BY <1>0
<1>3. e \in Config!Entries(v)
  BY <1>1, <1>2, EntriesAre
<1>4. w[e] = IF e[2] = 0 THEN 0 ELSE v[e[1]][e[2]]
  BY <1>3, Zenon DEF Settings
<1> QED BY <1>1, <1>2, <1>4

\* All the entries say all of the table.
LEMMA AllShown ==
  ASSUME NEW v \in Tables, NEW E, E = Config!Entries(v), NEW w, w = Settings(v)
  PROVE  Shown(E, w) = v
<1>1. v = [s \in DOMAIN v |-> v[s]] /\ DOMAIN v \subseteq Sections /\ \A s \in DOMAIN v : v[s] \in Pairings
  BY TableIs
<1>2. ASSUME NEW s \in DOMAIN v
      PROVE  v[s] = [k \in DOMAIN v[s] |-> v[s][k]] /\ DOMAIN v[s] \subseteq Keys /\ DOMAIN v[s] # {}
  BY <1>1, PairingIs
<1>3. ASSUME NEW s \in DOMAIN v PROVE KeysIn(E, s) = DOMAIN v[s]
  <2>1. \A k \in Keys : <<s, k>> \in E <=> k \in DOMAIN v[s]
    BY <1>1, EntriesAre
  <2> QED BY <1>2, <2>1 DEF KeysIn
<1>4. \A s \in Sections : s \notin DOMAIN v => KeysIn(E, s) = {}
  BY EntriesAre DEF KeysIn
<1>5. SectionsIn(E) = DOMAIN v
  BY <1>1, <1>2, <1>3, <1>4 DEF SectionsIn
<1>6. ASSUME NEW s \in DOMAIN v PROVE [k \in KeysIn(E, s) |-> w[<<s, k>>]] = v[s]
  <2>1. \A k \in DOMAIN v[s] : w[<<s, k>>] = v[s][k]
    BY SettingsAre
  <2> QED BY <1>2, <1>3, <2>1
<1>7. Shown(E, w) = [s \in DOMAIN v |-> [k \in KeysIn(E, s) |-> w[<<s, k>>]]]
  BY ONLY <1>5, Zenon DEF Shown
<1> QED BY ONLY <1>1, <1>6, <1>7

LEMMA NoneShown ==
  ASSUME NEW w
  PROVE  Shown({}, w) = Config!Nothing /\ Opened({}) = {} /\ Has(<<>>, {}, w)
<1>1. SectionsIn({}) = {} /\ Opened({}) = {}
  BY DEF SectionsIn, KeysIn, Opened
<1>2. Shown({}, w) = Config!Nothing
  BY <1>1 DEF Shown, Config!Nothing
<1> QED BY <1>1, <1>2, NothingRead, Zenon DEF Has, Nobody

LEMMA SameShown ==
  ASSUME NEW D, NEW w, NEW x, \A d \in D : w[d] = x[d]
  PROVE  Shown(D, w) = Shown(D, x)
<1>1. ASSUME NEW s \in SectionsIn(D) PROVE [k \in KeysIn(D, s) |-> w[<<s, k>>]] = [k \in KeysIn(D, s) |-> x[<<s, k>>]]
  <2>1. \A k \in KeysIn(D, s) : w[<<s, k>>] = x[<<s, k>>]
    BY DEF KeysIn
  <2> QED BY <2>1
<1> QED BY <1>1 DEF Shown

\* The line of an entry with the settings w.
Written(w, e) == IF e[2] = 0 THEN Config!Section(e[1]) ELSE Config!Pair(e[2], w[e])

\* The line of the next entry adds it to what the file says.
LEMMA EntryRead ==
  ASSUME NEW E, E \subseteq Spots, \A d \in E : <<d[1], 0>> \in E, NEW e \in E, NEW D, D = Ahead(E, e),
         NEW w, e[2] # 0 => w[e] \in Plain, NEW lines \in Seq(Texts), Has(lines, D, w)
  PROVE  /\ Written(w, e) \in Texts
         /\ Has(Append(lines, Written(w, e)), D \cup {e}, w)
<1>1. PICK s \in Sections, k \in Keys \cup {0} : e = <<s, k>>
  BY DEF Spots
<1>2. e[1] = s /\ e[2] = k
  BY <1>1
<1>3. \A d \in D : d \in Sections \X (Keys \cup {0}) /\ d[1] \in Nat /\ d[2] \in Nat /\ (d[1] < s \/ (d[1] = s /\ d[2] < k))
  <2>1. \A d \in D : d \in E /\ Config!Precedes(d, e)
    BY DEF Ahead
  <2> QED BY <1>2, <2>1, SpotsAre DEF Spots, Config!Precedes
<1>4. s \in Nat /\ k \in Nat /\ Sections \subseteq Nat /\ Keys \subseteq Nat /\ 0 \notin Keys
  BY SpotsAre
<1>5. <<s, 0>> \in D \cup {e}
  <2>1. CASE k = 0
    BY <1>1, <2>1
  <2>2. CASE k # 0
    <3>1. <<s, 0>> \in E
      BY <1>2
    <3>2. Config!Precedes(<<s, 0>>, e)
      BY <1>2, <1>4, <2>2 DEF Config!Precedes
    <3> QED BY <3>1, <3>2 DEF Ahead
  <2> QED BY <2>1, <2>2
<1>6. Opened(D \cup {e}) = {s}
  <2>1. \A d \in D \cup {e} : d[1] \in Nat /\ d[1] <= s
    BY <1>2, <1>3, <1>4
  <2>2. s \in Opened(D \cup {e})
    BY <1>5, <2>1 DEF Opened
  <2>3. ASSUME NEW t \in Opened(D \cup {e}) PROVE t = s
    <3>1. <<t, 0>> \in D \cup {e} /\ s <= t /\ t \in Nat
      BY <1>2, <1>4 DEF Opened
    <3>2. t <= s
      BY <2>1, <3>1
    <3> QED BY <1>4, <3>1, <3>2
  <2> QED BY <2>2, <2>3
<1>7. CASE k = 0
  <2>1. Written(w, e) = Config!Section(s)
    BY <1>2, <1>7 DEF Written
  <2>2. Written(w, e) \in Texts
    BY <2>1 DEF Texts
  <2>3. AllOf(Append(lines, Written(w, e))) = Known({s}, Shown(D, w))
    BY <2>1, <2>2, OneMoreRead, ReadHeader DEF Has
  <2>4. \A t : KeysIn(D \cup {e}, t) = KeysIn(D, t)
    BY <1>1, <1>4, <1>7 DEF KeysIn
  <2>5. SectionsIn(D \cup {e}) = SectionsIn(D)
    BY <2>4 DEF SectionsIn
  <2>6. Shown(D \cup {e}, w) = Shown(D, w)
    BY ONLY <2>4, <2>5 DEF Shown
  <2> QED BY <1>6, <2>2, <2>3, <2>6 DEF Has
<1>8. CASE k # 0
  <2>1. Written(w, e) = Config!Pair(k, w[e]) /\ k \in Keys /\ w[e] \in ValueTexts /\ w[e] \notin Bracketed
    BY <1>2, <1>8, ConfigIs DEF Written, Plain, ValueTexts
  <2>2. Written(w, e) \in Texts
    <3>1. PICK p \in Keys \X ValueTexts : p = <<k, w[e]>>
      BY <2>1
    <3>2. Config!Pair(p[1], p[2]) = Config!Pair(k, w[e])
      BY <3>1
    <3>3. Config!Pair(p[1], p[2]) \in Texts
      BY DEF Texts
    <3> QED BY <2>1, <3>2, <3>3
  <2>3. <<s, 0>> \in D
    BY <1>1, <1>5, <1>8
  <2>4. Opened(D) = {s}
    <3>1. \A d \in D : d[1] \in Nat /\ d[1] <= s
      BY <1>2, <1>3, <1>4
    <3>2. s \in Opened(D)
      BY <2>3, <3>1 DEF Opened
    <3>3. ASSUME NEW t \in Opened(D) PROVE t = s
      <4>1. <<t, 0>> \in D /\ s <= t /\ t \in Nat
        BY <1>4, <2>3 DEF Opened
      <4>2. t <= s
        BY <3>1, <4>1
      <4> QED BY <1>4, <4>1, <4>2
    <3> QED BY <3>2, <3>3
  <2>5. AllOf(Append(lines, Written(w, e))) = Config!ReadLine(Known({s}, Shown(D, w)), Config!Pair(k, w[e]))
    BY <2>1, <2>2, <2>4, OneMoreRead DEF Has
  <2>6. AllOf(Append(lines, Written(w, e))) = Known({s}, Put(Shown(D, w), {s}, k, w[e]))
    BY <2>1, <2>5, ReadPair
  <2>7. Put(Shown(D, w), {s}, k, w[e]) = Shown(D \cup {e}, w)
    <3>0. PICK F, x : F = D \cup {<<s, k>>} /\ F = D \cup {e} /\ x = w[<<s, k>>] /\ x = w[e]
      BY <1>1
    <3>1. PICK v : v = Shown(D, w)
      OBVIOUS
    <3>2. DOMAIN v = SectionsIn(D) /\ \A t \in SectionsIn(D) : v[t] = [j \in KeysIn(D, t) |-> w[<<t, j>>]]
      BY <3>1 DEF Shown
    <3>3. KeysIn(F, s) = KeysIn(D, s) \cup {k} /\ \A t : t # s => KeysIn(F, t) = KeysIn(D, t)
      BY <2>1, <3>0 DEF KeysIn
    <3>4. SectionsIn(F) = SectionsIn(D) \cup {s}
      BY <3>3 DEF SectionsIn
    <3>5. DOMAIN Config!Of(v, s) = KeysIn(D, s) /\ \A j \in KeysIn(D, s) : Config!Of(v, s)[j] = w[<<s, j>>]
      <4>1. CASE s \in SectionsIn(D)
        BY <3>2, <4>1 DEF Config!Of
      <4>2. CASE s \notin SectionsIn(D)
        <5>1. KeysIn(D, s) = {}
          BY <4>2 DEF SectionsIn
        <5> QED BY <3>2, <4>2, <5>1 DEF Config!Of, Config!Nothing
      <4> QED BY <4>1, <4>2
    <3>6. Config!With(Config!Of(v, s), k, x) = [j \in KeysIn(F, s) |-> w[<<s, j>>]]
      <4>1. Config!With(Config!Of(v, s), k, x)
              = [j \in DOMAIN Config!Of(v, s) \cup {k} |-> IF j = k THEN x ELSE Config!Of(v, s)[j]]
        BY Zenon DEF Config!With
      <4> QED BY <3>0, <3>3, <3>5, <4>1
    <3>7. Put(v, {s}, k, x) = [t \in DOMAIN v \cup {s} |-> IF t \in {s} THEN Config!With(Config!Of(v, s), k, x) ELSE v[t]]
      <4>1. Put(v, {s}, k, x) = [t \in DOMAIN v \cup {s} |-> IF t \in {s} THEN Config!With(Config!Of(v, t), k, x) ELSE v[t]]
        BY Zenon DEF Put
      <4> QED BY <4>1
    <3>8. ASSUME NEW t \in SectionsIn(F)
          PROVE  (IF t \in {s} THEN Config!With(Config!Of(v, s), k, x) ELSE v[t]) = [j \in KeysIn(F, t) |-> w[<<t, j>>]]
      <4>1. CASE t = s
        BY <3>6, <4>1
      <4>2. CASE t # s
        BY <3>2, <3>3, <3>4, <4>2
      <4> QED BY <4>1, <4>2
    <3>9. Put(v, {s}, k, x) = [t \in SectionsIn(F) |-> [j \in KeysIn(F, t) |-> w[<<t, j>>]]]
      BY ONLY <3>2, <3>4, <3>7, <3>8
    <3>10. Put(v, {s}, k, x) = Shown(F, w)
      BY ONLY <3>9, Zenon DEF Shown
    <3> QED BY ONLY <3>0, <3>1, <3>10
  <2> QED BY <1>6, <2>2, <2>6, <2>7 DEF Has
<1> QED BY <1>7, <1>8

\* The first entries, in order.
Upto(q, n) == {q[i] : i \in 1..n}

LEMMA UptoIs ==
  ASSUME NEW E, E \subseteq Spots, NEW q, q = Config!Sorted(E), NEW N, N = Cardinality(E), NEW n \in 0..N
  PROVE  /\ N \in Nat /\ Upto(q, 0) = {} /\ Upto(q, N) = E /\ Upto(q, n) \subseteq E
         /\ \A d \in Upto(q, n), e \in E : Config!Precedes(e, d) => e \in Upto(q, n)
         /\ n < N => /\ q[n + 1] \in E /\ Upto(q, n) = Ahead(E, q[n + 1])
                     /\ Upto(q, n + 1) = Upto(q, n) \cup {q[n + 1]}
<1>1. E \subseteq Nat \X Nat /\ IsFiniteSet(E)
  BY SpotsAre, FS_Subset
<1>2. /\ N \in Nat /\ \A i \in 1..N : q[i] \in E
      /\ \A i, j \in 1..N : i < j => Config!Precedes(q[i], q[j])
      /\ \A e \in E : \E i \in 1..N : q[i] = e
  BY <1>1, SortedIs
<1>3. \A i, j \in 1..N : Config!Precedes(q[i], q[j]) => i < j
  <2> SUFFICES ASSUME NEW i \in 1..N, NEW j \in 1..N, Config!Precedes(q[i], q[j]), ~(i < j) PROVE FALSE
    OBVIOUS
  <2>1. q[i] \in Nat \X Nat /\ q[j] \in Nat \X Nat
    BY <1>1, <1>2
  <2>2. ~Config!Precedes(q[i], q[i])
    BY <2>1, PrecedesOrders
  <2>3. i # j
    BY <2>2
  <2>4. j < i
    BY <2>3
  <2>5. Config!Precedes(q[j], q[i])
    BY <1>2, <2>4
  <2> QED BY <2>1, <2>2, <2>5, PrecedesOrders
<1>4. Upto(q, 0) = {}
  BY DEF Upto
<1>5. Upto(q, N) = E
  BY <1>2 DEF Upto
<1>6. Upto(q, n) \subseteq E
  BY <1>2 DEF Upto
<1>7. ASSUME NEW d \in Upto(q, n), NEW e \in E, Config!Precedes(e, d) PROVE e \in Upto(q, n)
  <2>1. PICK i \in 1..n : d = q[i]
    BY DEF Upto
  <2>2. PICK j \in 1..N : e = q[j]
    BY <1>2
  <2>3. i \in 1..N
    BY <1>2
  <2>4. j < i
    BY <1>3, <1>7, <2>1, <2>2, <2>3
  <2>5. j \in 1..n
    BY <2>4
  <2> QED BY <2>2, <2>5 DEF Upto
<1>8. ASSUME n < N
      PROVE  q[n + 1] \in E /\ Upto(q, n) = Ahead(E, q[n + 1]) /\ Upto(q, n + 1) = Upto(q, n) \cup {q[n + 1]}
  <2>1. PICK m \in 1..N : m = n + 1
    BY <1>2, <1>8
  <2>2. Upto(q, m) = Upto(q, n) \cup {q[m]}
    <3>1. \A i : i \in 1..m <=> i \in 1..n \/ i = m
      BY <2>1
    <3> QED BY <3>1 DEF Upto
  <2>3. ASSUME NEW e \in Upto(q, n) PROVE e \in Ahead(E, q[m])
    <3>1. PICK i \in 1..n : e = q[i]
      BY DEF Upto
    <3>2. i \in 1..N /\ i < m
      BY <1>2, <2>1
    <3>3. Config!Precedes(q[i], q[m])
      BY <1>2, <3>2
    <3> QED BY <1>2, <3>1, <3>2, <3>3 DEF Ahead
  <2>4. ASSUME NEW e \in Ahead(E, q[m]) PROVE e \in Upto(q, n)
    <3>1. e \in E /\ Config!Precedes(e, q[m])
      BY DEF Ahead
    <3>2. PICK i \in 1..N : e = q[i]
      BY <1>2, <3>1
    <3>3. i < m
      BY <1>3, <3>1, <3>2
    <3>4. i \in 1..n
      BY <2>1, <3>3
    <3> QED BY <3>2, <3>4 DEF Upto
  <2>5. Upto(q, n) = Ahead(E, q[m])
    BY <2>3, <2>4
  <2> QED BY <1>2, <2>1, <2>2, <2>5
<1> QED BY <1>2, <1>4, <1>5, <1>6, <1>7, <1>8

\* A file that a writing left short of the table v: a first part of its
\* entries, and none of their settings but that of the last one is cut.
Cuts(D, E, w, x) ==
  /\ D \subseteq E
  /\ \A d \in D, e \in E : Config!Precedes(e, d) => e \in D
  /\ \A d \in D : x[d] = w[d] \/ (x[d] = "cut" /\ \A c \in D : ~Config!Precedes(d, c))

LeftOf(lines, v) ==
  /\ lines \in Seq(Texts)
  /\ \E D, x : Cuts(D, Config!Entries(v), Settings(v), x) /\ AllOf(lines).values = Shown(D, x)

\* A file that the lines o will make say v: n entries are written, a lines come
\* before the others and b after them.
Coming(o, w, q, N, n, a, b) ==
  /\ n \in 0..N /\ a \in 0..1 /\ b \in 0..1 /\ (a = 1 => n = 0)
  /\ Len(o) = a + (N - n) + b
  /\ \A i \in 1..Len(o) : o[i] = IF i <= a \/ i > a + (N - n) THEN Config!Other ELSE Written(w, q[n + i - a])

InWriting(lines, o, v) ==
  /\ lines \in Seq(Texts) /\ o \in Seq(Texts)
  /\ \E n, a, b : /\ Coming(o, Settings(v), Config!Sorted(Config!Entries(v)), Cardinality(Config!Entries(v)), n, a, b)
                  /\ Has(lines, Upto(Config!Sorted(Config!Entries(v)), n), Settings(v))

LEMMA HasMore ==
  ASSUME NEW D, NEW w, NEW lines \in Seq(Texts), Has(lines, D, w)
  PROVE  /\ Append(lines, Config!Other) \in Seq(Texts) /\ Has(Append(lines, Config!Other), D, w)
         /\ AllOf(lines).values = Shown(D, w)
<1>1. Config!Other \in Texts
  BY DEF Texts
<1>2. AllOf(Append(lines, Config!Other)) = Config!ReadLine(Known(Opened(D), Shown(D, w)), Config!Other)
  BY <1>1, OneMoreRead DEF Has
<1>3. AllOf(Append(lines, Config!Other)) = Known(Opened(D), Shown(D, w))
  BY <1>2, ReadOther
<1>4. AllOf(lines).values = Shown(D, w)
  BY DEF Has, Known
<1> QED BY <1>1, <1>3, <1>4 DEF Has

\* The setting of every key has no brackets.
LEMMA SettingsArePlain ==
  ASSUME NEW v \in Tables, NEW e \in Config!Entries(v)
  PROVE  /\ e[2] # 0 => Settings(v)[e] \in Plain
         /\ Config!Line(v, e) = Written(Settings(v), e)
         /\ Written(Settings(v), e) \in Texts
<1>1. PICK E : E = Config!Entries(v)
  OBVIOUS
<1>2. e \in Spots /\ e \in E
  BY <1>1, EntriesAre
<1>3. PICK s \in Sections, k \in Keys \cup {0} : e = <<s, k>>
  BY <1>2 DEF Spots
<1>4. e[1] = s /\ e[2] = k
  BY <1>3
<1>5. Settings(v)[e] = IF e[2] = 0 THEN 0 ELSE v[e[1]][e[2]]
  BY Zenon DEF Settings
<1>6. CASE k = 0
  <2>1. Config!Line(v, e) = Config!Section(s) /\ Written(Settings(v), e) = Config!Section(s)
    BY <1>4, <1>6 DEF Config!Line, Written
  <2> QED BY <1>4, <1>6, <2>1 DEF Texts
<1>7. CASE k # 0
  <2>1. s \in DOMAIN v /\ k \in DOMAIN v[s] /\ k \in Keys
    BY <1>1, <1>2, <1>3, <1>7, EntriesAre
  <2>2. v[s][k] \in Plain
    BY <2>1, TableIs, PairingIs
  <2>3. Settings(v)[e] = v[s][k]
    BY <1>4, <1>5, <1>7
  <2>4. Config!Line(v, e) = Config!Pair(k, v[s][k]) /\ Written(Settings(v), e) = Config!Pair(k, v[s][k])
    BY <1>4, <1>7, <2>3 DEF Config!Line, Written
  <2>5. PICK p \in Keys \X ValueTexts : p = <<k, v[s][k]>>
    BY <2>1, <2>2 DEF Plain, ValueTexts
  <2>6. Config!Pair(p[1], p[2]) = Config!Pair(k, v[s][k])
    BY <2>5
  <2>7. Config!Pair(p[1], p[2]) \in Texts
    BY DEF Texts
  <2> QED BY <1>4, <2>2, <2>3, <2>4, <2>6, <2>7
<1> QED BY <1>6, <1>7

LEMMA LinesAre ==
  ASSUME NEW v \in Tables, NEW q, q = Config!Sorted(Config!Entries(v)), NEW N, N = Cardinality(Config!Entries(v))
  PROVE  /\ N \in Nat /\ Config!Lines(v) \in Seq(Texts) /\ Len(Config!Lines(v)) = N
         /\ \A i \in 1..N : Config!Lines(v)[i] = Written(Settings(v), q[i])
<1>1. PICK E : E = Config!Entries(v)
  OBVIOUS
<1>2. E \subseteq Nat \X Nat /\ IsFiniteSet(E)
  BY <1>1, EntriesAre, SpotsAre, FS_Subset
<1>3. N \in Nat /\ DOMAIN q = 1..N /\ \A i \in 1..N : q[i] \in Config!Entries(v)
  <2>1. N \in Nat /\ q \in [1..N -> E]
    BY <1>1, <1>2, SortedIs
  <2> QED BY <1>1, <2>1
<1>4. PICK o : o = Config!Lines(v)
  OBVIOUS
<1>5. o = [i \in DOMAIN q |-> Config!Line(v, q[i])]
  BY <1>4, Zenon DEF Config!Lines
<1>6. ASSUME NEW i \in 1..N
      PROVE  Config!Line(v, q[i]) = Written(Settings(v), q[i]) /\ Written(Settings(v), q[i]) \in Texts
  BY <1>3, SettingsArePlain
<1>7. DOMAIN o = 1..N /\ \A i \in 1..N : o[i] = Written(Settings(v), q[i]) /\ o[i] \in Texts
  BY <1>3, <1>5, <1>6
<1>8. o \in [1..N -> Texts]
  BY <1>5, <1>7
<1>9. o \in Seq(Texts) /\ Len(o) = N
  BY <1>3, <1>8
<1> QED BY <1>3, <1>4, <1>7, <1>9

LEMMA WritingStarts ==
  ASSUME NEW v \in Tables
  PROVE  /\ InWriting(<<>>, Config!Lines(v), v)
         /\ InWriting(<<>>, <<Config!Other>> \o Config!Lines(v) \o <<Config!Other>>, v)
<1>1. PICK q, N, w, L : /\ q = Config!Sorted(Config!Entries(v)) /\ N = Cardinality(Config!Entries(v))
                        /\ w = Settings(v) /\ L = Config!Lines(v)
  OBVIOUS
<1>2. N \in Nat /\ L \in Seq(Texts) /\ Len(L) = N /\ \A i \in 1..N : L[i] = Written(w, q[i])
  BY <1>1, LinesAre
<1>3. Upto(q, 0) = {}
  BY DEF Upto
<1>4. Has(<<>>, Upto(q, 0), w)
  BY <1>3, NoneShown
<1>5. <<>> \in Seq(Texts)
  OBVIOUS
<1>6. Coming(L, w, q, N, 0, 0, 0)
  <2>1. 0 \in 0..N /\ 0 \in 0..1 /\ ~(0 = 1) /\ Len(L) = 0 + (N - 0) + 0
    BY <1>2
  <2>2. ASSUME NEW i \in 1..Len(L)
        PROVE  L[i] = IF i <= 0 \/ i > 0 + (N - 0) THEN Config!Other ELSE Written(w, q[0 + i - 0])
    <3>1. 0 + i - 0 = i /\ ~(i <= 0 \/ i > 0 + (N - 0)) /\ i \in 1..N
      BY <1>2
    <3> QED BY <1>2, <3>1
  <2> QED BY <2>1, <2>2 DEF Coming
<1>7. InWriting(<<>>, L, v)
  BY <1>1, <1>2, <1>4, <1>5, <1>6 DEF InWriting
<1>8. PICK c, o : c = Config!Other /\ o = <<c>> \o L \o <<c>>
  OBVIOUS
<1>9. c \in Texts /\ c = Config!Other
  BY <1>8 DEF Texts
<1>10. /\ o \in Seq(Texts) /\ Len(o) = N + 2
       /\ \A i \in 1..(N + 2) : o[i] = IF i = 1 \/ i = N + 2 THEN c ELSE L[i - 1]
  <2>1. PICK p : p = <<c>> \o L
    OBVIOUS
  <2>2. p \in Seq(Texts) /\ Len(p) = N + 1 /\ \A i \in 1..(N + 1) : p[i] = IF i = 1 THEN c ELSE L[i - 1]
    BY <1>2, <1>9, <2>1
  <2>3. o = p \o <<c>>
    BY <1>8, <2>1
  <2> QED BY <1>2, <1>9, <2>2, <2>3
<1>11. Coming(o, w, q, N, 0, 1, 1)
  <2>1. 0 \in 0..N /\ 1 \in 0..1 /\ (1 = 1 => 0 = 0) /\ Len(o) = 1 + (N - 0) + 1
    BY <1>2, <1>10
  <2>2. ASSUME NEW i \in 1..Len(o)
        PROVE  o[i] = IF i <= 1 \/ i > 1 + (N - 0) THEN Config!Other ELSE Written(w, q[0 + i - 1])
    <3>1. CASE i = 1 \/ i = N + 2
      <4>1. i <= 1 \/ i > 1 + (N - 0)
        BY <1>2, <3>1
      <4> QED BY <1>2, <1>9, <1>10, <3>1, <4>1
    <3>2. CASE ~(i = 1 \/ i = N + 2)
      <4>1. PICK j \in 1..N : j = i - 1 /\ j = 0 + i - 1 /\ ~(i <= 1 \/ i > 1 + (N - 0)) /\ i \in 1..(N + 2)
        BY <1>2, <1>10, <3>2
      <4>2. o[i] = L[j]
        BY <1>10, <3>2, <4>1
      <4> QED BY <1>2, <4>1, <4>2
    <3> QED BY <3>1, <3>2
  <2> QED BY <2>1, <2>2 DEF Coming
<1>12. InWriting(<<>>, o, v)
  BY <1>1, <1>4, <1>5, <1>10, <1>11 DEF InWriting
<1> QED BY <1>1, <1>7, <1>8, <1>12

\* What remains of a file is good wherever its writing stands still.
LEMMA StandsStill ==
  ASSUME NEW v \in Tables, NEW lines \in Seq(Texts), NEW w, w = Settings(v), NEW E, E = Config!Entries(v), NEW n \in 0..Cardinality(E),
         NEW D, D = Upto(Config!Sorted(E), n), AllOf(lines).values = Shown(D, w)
  PROVE  LeftOf(lines, v)
<1>1. E \subseteq Spots
  BY EntriesAre
<1>2. D \subseteq E /\ \A d \in D, e \in E : Config!Precedes(e, d) => e \in D
  BY <1>1, UptoIs
<1>3. Cuts(D, E, w, w)
  BY <1>2 DEF Cuts
<1> QED BY <1>3 DEF LeftOf

\* The next line of the file is written, or what is left of it.
LEMMA WritingGoes ==
  ASSUME NEW v \in Tables, NEW lines, NEW o, InWriting(lines, o, v), o # <<>>
  PROVE  /\ InWriting(Append(lines, Head(o)), Tail(o), v)
         /\ \A rest \in Config!Torn(Head(o)) : LeftOf(lines \o rest, v)
<1>0. PICK E, q, N, w : /\ E = Config!Entries(v) /\ q = Config!Sorted(E) /\ N = Cardinality(E)
                        /\ w = Settings(v)
  OBVIOUS
<1>1. lines \in Seq(Texts) /\ o \in Seq(Texts)
  BY DEF InWriting
<1>2. PICK n, a, b : Coming(o, w, q, N, n, a, b) /\ Has(lines, Upto(q, n), w)
  BY <1>0 DEF InWriting
<1>3. E \subseteq Spots /\ \A e \in E : <<e[1], 0>> \in E
  BY <1>0, EntriesAre
<1>4. n \in 0..N /\ N \in Nat /\ a \in 0..1 /\ b \in 0..1 /\ (a = 1 => n = 0) /\ Len(o) = a + (N - n) + b
  BY <1>0, <1>2, <1>3, UptoIs DEF Coming
<1>5. PICK l, t : l = Head(o) /\ t = Tail(o)
  OBVIOUS
<1>6. /\ Len(o) \in Nat \ {0} /\ l = o[1] /\ l \in Texts /\ t \in Seq(Texts) /\ Len(t) = Len(o) - 1
      /\ \A i \in 1..Len(t) : t[i] = o[i + 1] /\ i + 1 \in 1..Len(o)
  BY <1>1, <1>5
<1>7. /\ lines \o <<>> = lines /\ lines \o <<l>> = Append(lines, l) /\ Append(lines, l) \in Seq(Texts)
      /\ lines \o <<Config!Other>> = Append(lines, Config!Other)
  BY <1>1, <1>6
<1>8. \A i \in 1..Len(o) : o[i] = IF i <= a \/ i > a + (N - n) THEN Config!Other ELSE Written(w, q[n + i - a])
  BY <1>2 DEF Coming
<1>9. LeftOf(lines, v) /\ LeftOf(Append(lines, Config!Other), v)
  <2>1. AllOf(lines).values = Shown(Upto(q, n), w)
    BY <1>1, <1>2, HasMore
  <2>2. Append(lines, Config!Other) \in Seq(Texts) /\ Has(Append(lines, Config!Other), Upto(q, n), w)
    BY <1>1, <1>2, HasMore
  <2>3. AllOf(Append(lines, Config!Other)).values = Shown(Upto(q, n), w)
    BY <2>2, HasMore
  <2> QED BY <1>0, <1>1, <1>4, <2>1, <2>2, <2>3, StandsStill
\* A line that says nothing.
<1>10. ASSUME l = Config!Other, NEW c \in 0..1, NEW d \in 0..1, Coming(t, w, q, N, n, c, d)
       PROVE  InWriting(Append(lines, l), t, v) /\ \A rest \in Config!Torn(l) : LeftOf(lines \o rest, v)
  <2>1. Has(Append(lines, l), Upto(q, n), w)
    BY <1>1, <1>2, <1>10, HasMore
  <2>2. InWriting(Append(lines, l), t, v)
    BY <1>0, <1>6, <1>7, <1>10, <2>1 DEF InWriting
  <2>3. l.is = "other"
    BY <1>10 DEF Config!Other
  <2>4. \A rest \in Config!Torn(l) : rest = <<>> \/ rest = <<Config!Other>> \/ rest = <<l>>
    BY <2>3 DEF Config!Torn
  <2> QED BY <1>7, <1>9, <1>10, <2>2, <2>4
<1>11. CASE a = 1
  <2>1. n = 0 /\ Len(o) = 1 + N + b /\ Len(t) = N + b
    BY <1>4, <1>6, <1>11
  <2>2. l = Config!Other
    BY <1>6, <1>8, <1>11
  <2>3. Coming(t, w, q, N, n, 0, b)
    <3>1. ASSUME NEW i \in 1..Len(t)
          PROVE  t[i] = IF i <= 0 \/ i > 0 + (N - n) THEN Config!Other ELSE Written(w, q[n + i - 0])
      <4>1. t[i] = IF i + 1 <= a \/ i + 1 > a + (N - n) THEN Config!Other ELSE Written(w, q[n + (i + 1) - a])
        BY <1>6, <1>8
      <4>2. n + (i + 1) - a = n + i - 0 /\ (i + 1 <= a <=> i <= 0) /\ (i + 1 > a + (N - n) <=> i > 0 + (N - n))
        BY <1>4, <1>11
      <4> QED BY ONLY <4>1, <4>2
    <3>2. n \in 0..N /\ 0 \in 0..1 /\ b \in 0..1 /\ (0 = 1 => n = 0) /\ Len(t) = 0 + (N - n) + b
      BY <1>4, <2>1
    <3> QED BY <3>1, <3>2 DEF Coming
  <2> QED BY <1>4, <1>5, <1>10, <2>2, <2>3
<1>12. CASE a = 0 /\ n = N
  <2>1. b = 1 /\ Len(o) = 1 /\ Len(t) = 0
    BY <1>4, <1>6, <1>12
  <2>2. l = Config!Other
    BY <1>4, <1>6, <1>8, <1>12
  <2>3. Coming(t, w, q, N, n, 0, 0)
    <3>1. n \in 0..N /\ 0 \in 0..1 /\ (0 = 1 => n = 0) /\ Len(t) = 0 + (N - n) + 0
      BY <1>4, <1>12, <2>1
    <3>2. 1..Len(t) = {}
      BY <2>1
    <3> QED BY <3>1, <3>2 DEF Coming
  <2> QED BY <1>4, <1>5, <1>10, <2>2, <2>3
<1>13. CASE a = 0 /\ n < N
  <2> DEFINE e == q[n + 1]
             D == Upto(q, n)
  <2>1. e \in E /\ D = Ahead(E, e) /\ Upto(q, n + 1) = D \cup {e}
    BY <1>0, <1>3, <1>4, <1>13, UptoIs
  <2>2. l = Written(w, e)
    <3>1. o[1] = IF 1 <= a \/ 1 > a + (N - n) THEN Config!Other ELSE Written(w, q[n + 1 - a])
      BY <1>6, <1>8
    <3>2. n + 1 - a = n + 1 /\ ~(1 <= a \/ 1 > a + (N - n))
      BY <1>4, <1>13
    <3> QED BY ONLY <1>6, <3>1, <3>2
  <2>3. e[2] # 0 => w[e] \in Plain
    BY <1>0, <2>1, SettingsArePlain
  <2> HIDE DEF e, D
  <2>4. Has(lines, D, w)
    BY <1>2 DEF D
  <2>5. Has(Append(lines, l), D \cup {e}, w)
    BY <1>1, <1>3, <2>1, <2>2, <2>3, <2>4, EntryRead
  <2>6. Coming(t, w, q, N, n + 1, 0, b)
    <3>1. ASSUME NEW i \in 1..Len(t)
          PROVE  t[i] = IF i <= 0 \/ i > 0 + (N - (n + 1)) THEN Config!Other ELSE Written(w, q[(n + 1) + i - 0])
      <4>1. t[i] = IF i + 1 <= a \/ i + 1 > a + (N - n) THEN Config!Other ELSE Written(w, q[n + (i + 1) - a])
        BY <1>6, <1>8
      <4>2. /\ n + (i + 1) - a = (n + 1) + i - 0 /\ (i + 1 <= a <=> i <= 0)
            /\ (i + 1 > a + (N - n) <=> i > 0 + (N - (n + 1)))
        BY <1>4, <1>13
      <4> QED BY ONLY <4>1, <4>2
    <3>2. n + 1 \in 0..N /\ 0 \in 0..1 /\ b \in 0..1 /\ (0 = 1 => n + 1 = 0) /\ Len(t) = 0 + (N - (n + 1)) + b
      BY <1>4, <1>6, <1>13
    <3> QED BY <3>1, <3>2 DEF Coming
  <2>7. InWriting(Append(lines, l), t, v)
    BY <1>0, <1>6, <1>7, <2>1, <2>5, <2>6 DEF InWriting
  <2>8. LeftOf(Append(lines, l), v)
    <3>1. AllOf(Append(lines, l)).values = Shown(Upto(q, n + 1), w)
      BY <1>7, <2>1, <2>5, HasMore
    <3>2. n + 1 \in 0..N
      BY <1>4, <1>13
    <3> QED BY <1>0, <1>7, <3>1, <3>2, StandsStill
  <2>9. ASSUME l.is = "pair" PROVE LeftOf(lines \o <<Config!Pair(l.key, "cut")>>, v)
    <3>1. e[2] # 0 /\ l = Config!Pair(e[2], w[e])
      <4>1. e[2] = 0 => l = Config!Section(e[1])
        BY <2>2 DEF Written
      <4>2. e[2] = 0 => l.is = "section"
        BY <4>1 DEF Config!Section
      <4> QED BY <2>2, <2>9, <4>2 DEF Written
    <3>2. l.key = e[2]
      BY <3>1 DEF Config!Pair
    <3>3. PICK x : x = [d \in E |-> IF d = e THEN "cut" ELSE w[d]]
      OBVIOUS
    <3>4. x[e] = "cut" /\ \A d \in E : d # e => x[d] = w[d]
      BY <2>1, <3>3
    <3>5. E \subseteq Nat \X Nat
      BY <1>3, SpotsAre
    <3>6. D \subseteq E /\ e \notin D
      BY <2>1, <3>5, PrecedesOrders DEF Ahead
    <3>7. Shown(D, w) = Shown(D, x)
      <4>1. \A d \in D : w[d] = x[d]
        BY <3>4, <3>6
      <4> QED BY <4>1, SameShown
    <3>8. Has(lines, D, x)
      BY <2>4, <3>7, Zenon DEF Has
    <3>9. x[e] \in Plain
      BY <3>4 DEF Plain
    <3>10. Written(x, e) = Config!Pair(l.key, "cut")
      BY <3>1, <3>2, <3>4 DEF Written
    <3>11. Written(x, e) \in Texts /\ Has(Append(lines, Written(x, e)), D \cup {e}, x)
      BY <1>1, <1>3, <2>1, <3>8, <3>9, EntryRead
    <3>12. Append(lines, Written(x, e)) \in Seq(Texts)
      BY <1>1, <3>11
    <3>13. AllOf(Append(lines, Written(x, e))).values = Shown(D \cup {e}, x)
      BY <3>11, <3>12, HasMore
    <3>14. Cuts(D \cup {e}, E, w, x)
      <4>1. \A c \in E : Config!Precedes(c, e) => c \in D
        BY <2>1 DEF Ahead
      <4>2. \A d \in D, c \in E : Config!Precedes(c, d) => c \in D
        BY <2>1, <3>5, PrecedesOrders DEF Ahead
      <4>3. \A c \in D \cup {e} : ~Config!Precedes(e, c)
        BY <2>1, <3>5, <3>6, PrecedesOrders DEF Ahead
      <4> QED BY <2>1, <3>4, <3>6, <4>1, <4>2, <4>3 DEF Cuts
    <3>15. LeftOf(Append(lines, Written(x, e)), v)
      BY <1>0, <3>12, <3>13, <3>14 DEF LeftOf
    <3>16. lines \o <<Written(x, e)>> = Append(lines, Written(x, e))
      BY <1>1, <3>11
    <3> QED BY ONLY <3>10, <3>15, <3>16
  <2>10. \A rest \in Config!Torn(l) :
           rest = <<>> \/ rest = <<Config!Other>> \/ rest = <<l>> \/ (l.is = "pair" /\ rest = <<Config!Pair(l.key, "cut")>>)
    BY DEF Config!Torn
  <2> QED BY <1>5, <1>7, <1>9, <2>7, <2>8, <2>9, <2>10
<1> QED BY <1>4, <1>11, <1>12, <1>13

LEMMA WritingEnds ==
  ASSUME NEW v \in Tables, NEW lines, InWriting(lines, <<>>, v)
  PROVE  lines \in Seq(Texts) /\ Config!parseConfigFile(lines) = v /\ LeftOf(lines, v)
<1>0. PICK E, q, N, w : /\ E = Config!Entries(v) /\ q = Config!Sorted(E) /\ N = Cardinality(E)
                        /\ w = Settings(v)
  OBVIOUS
<1>1. lines \in Seq(Texts)
  BY DEF InWriting
<1>2. PICK n, a, b : Coming(<<>>, w, q, N, n, a, b) /\ Has(lines, Upto(q, n), w)
  BY <1>0 DEF InWriting
<1>3. E \subseteq Spots
  BY <1>0, EntriesAre
<1>4. n \in 0..N /\ N \in Nat /\ Upto(q, N) = E
  BY <1>0, <1>2, <1>3, UptoIs DEF Coming
<1>5. n = N
  <2>1. 0 = a + (N - n) + b /\ a \in 0..1 /\ b \in 0..1
    BY <1>2 DEF Coming
  <2> QED BY <1>4, <2>1
<1>6. AllOf(lines).values = Shown(E, w) /\ Shown(E, w) = v
  <2>1. AllOf(lines).values = Shown(Upto(q, n), w)
    BY <1>1, <1>2, HasMore
  <2>2. Shown(E, w) = v
    BY <1>0, AllShown
  <2> QED BY ONLY <1>4, <1>5, <2>1, <2>2
<1> QED BY <1>0, <1>1, <1>4, <1>5, <1>6, ParsedIsATable, StandsStill

LEMMA OneIsLast ==
  ASSUME NEW S, S \subseteq Nat, S # {}, IsFiniteSet(S)
  PROVE  \E x \in S : \A s \in S : s <= x
<1> DEFINE F == {n \in Nat : \A R \in SUBSET S : IsFiniteSet(R) /\ Cardinality(R) = n /\ R # {} => \E x \in R : \A s \in R : s <= x}
<1>1. 0 \in F
  BY FS_EmptySet
<1>2. ASSUME NEW n \in Nat, n \in F PROVE n + 1 \in F
  <2>1. ASSUME NEW R \in SUBSET S, IsFiniteSet(R), Cardinality(R) = n + 1, R # {} PROVE \E x \in R : \A s \in R : s <= x
    <3>1. PICK r \in R : r \in Nat
      BY <2>1
    <3>2. PICK Q : Q = R \ {r}
      OBVIOUS
    <3>3. IsFiniteSet(Q) /\ Cardinality(Q) = n
      <4>1. IsFiniteSet(Q) /\ Cardinality(Q) = IF r \in R THEN Cardinality(R) - 1 ELSE Cardinality(R)
        BY <2>1, <3>2, FS_RemoveElement
      <4> QED BY <2>1, <3>1, <4>1
    <3>4. CASE Q = {}
      <4>1. \A s \in R : s = r
        BY <3>2, <3>4
      <4>2. r <= r
        BY <3>1
      <4> QED BY <3>1, <4>1, <4>2
    <3>5. CASE Q # {}
      <4>1. PICK x \in Q : \A s \in Q : s <= x
        <5>1. Q \in SUBSET S
          BY <3>2
        <5> QED BY <1>2, <3>3, <3>5, <5>1
      <4>2. x \in R /\ x \in Nat /\ \A s \in R : s \in Nat /\ (s = r \/ s \in Q)
        BY <3>2
      <4>3. CASE r <= x
        BY <4>1, <4>2, <4>3
      <4>4. CASE ~(r <= x)
        <5>1. \A s \in R : s <= r
          BY <3>1, <4>1, <4>2, <4>4
        <5> QED BY <3>1, <5>1
      <4> QED BY <4>3, <4>4
    <3> QED BY <3>4, <3>5
  <2> QED BY <2>1
<1> HIDE DEF F
<1>3. Cardinality(S) \in F
  <2>1. Cardinality(S) \in Nat
    BY FS_CardinalityType
  <2> QED BY <1>1, <1>2, <2>1, NumbersFromZero
<1> QED BY <1>3 DEF F

LEMMA LeftIs ==
  ASSUME NEW v \in Tables, NEW lines, LeftOf(lines, v)
  PROVE  lines \in Seq(Texts) /\ Config!FirstPartOf(Config!parseConfigFile(lines), v)
<1>0. PICK E, w, got : E = Config!Entries(v) /\ w = Settings(v) /\ got = Config!parseConfigFile(lines)
  OBVIOUS
<1>1. lines \in Seq(Texts) /\ got \in Tables /\ got = AllOf(lines).values
  BY <1>0, ParsedIsATable DEF LeftOf
<1>2. PICK D, x : Cuts(D, E, w, x) /\ got = Shown(D, x)
  BY <1>0, <1>1 DEF LeftOf
<1>3. /\ D \subseteq E /\ \A d \in D, e \in E : Config!Precedes(e, d) => e \in D
      /\ \A d \in D : x[d] = w[d] \/ (x[d] = "cut" /\ \A c \in D : ~Config!Precedes(d, c))
  BY <1>2 DEF Cuts
<1>4. E \subseteq Spots /\ v = Shown(E, w)
  BY <1>0, EntriesAre, AllShown
<1>5. Sections \subseteq Nat /\ Keys \subseteq Nat /\ 0 \notin Keys /\ IsFiniteSet(Sections) /\ IsFiniteSet(Keys)
  <2>1. IsFiniteSet(Sections) /\ IsFiniteSet(Keys)
    BY ConfigAssumption, FS_AddElement DEF Sections
  <2> QED BY <2>1, SpotsAre
<1>6. /\ DOMAIN got = SectionsIn(D)
      /\ \A s \in SectionsIn(D) : got[s] = [k \in KeysIn(D, s) |-> x[<<s, k>>]]
  BY <1>2 DEF Shown
<1>7. /\ DOMAIN v = SectionsIn(E)
      /\ \A s \in SectionsIn(E) : v[s] = [k \in KeysIn(E, s) |-> w[<<s, k>>]]
  BY <1>4 DEF Shown
<1>8. SectionsIn(D) \subseteq SectionsIn(E) /\ \A s : KeysIn(D, s) \subseteq KeysIn(E, s)
  BY <1>3 DEF SectionsIn, KeysIn
<1>9. SUFFICES ASSUME got # Config!Nothing
               PROVE  Config!FirstPartOf(got, v)
  BY <1>0, <1>1 DEF Config!FirstPartOf
<1>10. SectionsIn(D) # {}
  <2>1. got = [s \in DOMAIN got |-> got[s]]
    BY <1>1, TableIs
  <2>2. DOMAIN got = {} => got = Config!Nothing
    BY <2>1 DEF Config!Nothing
  <2> QED BY <1>6, <1>9, <2>2
<1>11. PICK last \in Nat : last \in SectionsIn(D) /\ \A s \in SectionsIn(D) : s \in Nat /\ s <= last
  <2>1. SectionsIn(D) \subseteq Sections
    BY DEF SectionsIn
  <2>2. SectionsIn(D) \subseteq Nat /\ IsFiniteSet(SectionsIn(D))
    BY <1>5, <2>1, FS_Subset
  <2> QED BY <1>10, <2>2, OneIsLast
<1>12. PICK j \in Keys : <<last, j>> \in D
  BY <1>11 DEF SectionsIn, KeysIn
\* An entry of a section before the last is in D, and is not the last of D.
<1>13. ASSUME NEW s \in Sections, s < last, NEW k \in Keys, <<s, k>> \in E
       PROVE  <<s, k>> \in D /\ x[<<s, k>>] = w[<<s, k>>]
  <2>1. PICK e, d : e = <<s, k>> /\ d = <<last, j>>
    OBVIOUS
  <2>2. e[1] = s /\ d[1] = last
    BY <2>1
  <2>3. Config!Precedes(e, d)
    BY <1>13, <2>2 DEF Config!Precedes
  <2>4. d \in D /\ e \in E
    BY <1>12, <1>13, <2>1
  <2>5. e \in D /\ x[e] = w[e]
    BY <1>3, <2>3, <2>4
  <2> QED BY <2>1, <2>5
<1>14. ASSUME NEW s \in SectionsIn(D), s # last PROVE got[s] = v[s]
  <2>1. s \in Sections /\ s \in SectionsIn(E) /\ s < last
    BY <1>5, <1>8, <1>11, <1>14 DEF SectionsIn
  <2>2. KeysIn(D, s) = KeysIn(E, s) /\ \A k \in KeysIn(D, s) : x[<<s, k>>] = w[<<s, k>>]
    BY <1>8, <1>13, <2>1 DEF KeysIn
  <2>3. got[s] = [k \in KeysIn(D, s) |-> x[<<s, k>>]] /\ v[s] = [k \in KeysIn(E, s) |-> w[<<s, k>>]]
    BY <1>6, <1>7, <2>1
  <2> QED BY ONLY <2>2, <2>3
<1>15. ASSUME NEW s \in SectionsIn(E), s \notin SectionsIn(D) PROVE s > last
  <2>1. s \in Sections /\ s \in Nat /\ s # last
    BY <1>5, <1>11, <1>15 DEF SectionsIn
  <2>2. PICK k \in Keys : <<s, k>> \in E
    BY DEF SectionsIn, KeysIn
  <2>3. ~(s < last)
    BY <1>13, <1>15, <2>1, <2>2 DEF SectionsIn, KeysIn
  <2> QED BY <2>1, <2>3
<1>16. ASSUME NEW k \in KeysIn(D, last)
       PROVE  /\ k \in KeysIn(E, last)
              /\ got[last][k] # v[last][k] => got[last][k] = "cut" /\ \A m \in KeysIn(D, last) : m <= k
  <2>1. k \in Keys /\ <<last, k>> \in D /\ k \in KeysIn(E, last)
    BY <1>8 DEF KeysIn
  <2>2. got[last][k] = x[<<last, k>>] /\ v[last][k] = w[<<last, k>>]
    BY <1>6, <1>7, <1>8, <1>11, <2>1
  <2>3. ASSUME got[last][k] # v[last][k], NEW m \in KeysIn(D, last) PROVE got[last][k] = "cut" /\ m <= k
    <3>1. PICK d : d = <<last, k>>
      OBVIOUS
    <3>2. d[1] = last /\ d[2] = k
      BY <3>1
    <3>3. x[d] = "cut" /\ \A c \in D : ~Config!Precedes(d, c)
      BY <1>3, <2>1, <2>2, <2>3, <3>1
    <3>4. k \in Nat /\ m \in Nat
      BY <1>5, <2>1 DEF KeysIn
    <3>5. PICK c : c = <<last, m>>
      OBVIOUS
    <3>6. c[1] = last /\ c[2] = m /\ c \in D
      BY <3>5 DEF KeysIn
    <3>7. ~(k < m)
      BY <3>2, <3>3, <3>6 DEF Config!Precedes
    <3> QED BY <2>2, <3>1, <3>3, <3>4, <3>7
  <2> QED BY <2>1, <2>3
<1>17. DOMAIN got[last] = KeysIn(D, last) /\ DOMAIN v[last] = KeysIn(E, last)
  BY <1>6, <1>7, <1>8, <1>11
<1>18. /\ \A s \in DOMAIN got \ {last} : s < last /\ got[s] = v[s]
       /\ \A s \in DOMAIN v \ DOMAIN got : s > last
  <2>1. ASSUME NEW s \in SectionsIn(D), s # last PROVE s < last
    BY <1>11, <2>1
  <2> QED BY <1>6, <1>7, <1>14, <1>15, <2>1
<1>19. last \in DOMAIN got /\ DOMAIN got \subseteq DOMAIN v
  BY <1>6, <1>7, <1>8, <1>11
<1>20. \A k \in DOMAIN got[last] :
         /\ k \in DOMAIN v[last]
         /\ got[last][k] # v[last][k] => got[last][k] = "cut" /\ \A m \in DOMAIN got[last] : m <= k
  BY <1>16, <1>17
<1> QED BY <1>18, <1>19, <1>20, Zenon DEF Config!FirstPartOf

-----------------------------------------------------------------------------
(* What is left of a configuration file                                    *)

\* The update was let through: want is what the file said, one value changed.
Asked ==
  /\ before \in Seq(Texts)
  /\ \E s \in Slots, k \in Keys, x \in Values :
       /\ request = <<s, k, x>> /\ k \in DOMAIN Config!Of(Config!parseConfigFile(before), s)
       /\ want = Config!Set(Config!parseConfigFile(before), s, k, x)

ConfigTyped ==
  /\ op \in {"idle", "changed", "writing"} /\ said \in {"true", "false", "none"}
  /\ short \in BOOLEAN /\ updates \in 0..MaxUpdates
  /\ want \in Tables /\ (file = Config!NoFile \/ file \in Seq(Texts))

\* While the file is written, the lines to come are those that it lacks; once
\* the writing has stopped short, the file is a first part of what was wanted.
ConfigInv ==
  /\ ConfigTyped
  /\ op # "writing" => out = <<>>
  /\ op # "idle" => said = "none"
  /\ op = "changed" => file = before /\ ~short /\ Asked
  /\ op = "writing" => request = <<>> \/ Asked
  /\ op = "writing" /\ ~short => InWriting(file, out, want)
  /\ short => out = <<>> /\ LeftOf(file, want)
  /\ said = "true" => Asked /\ (~short => file \in Seq(Texts) /\ Config!parseConfigFile(file) = want)
  /\ said = "false" => file = before

LEMMA FirstFilesAre ==
  ASSUME NEW f \in Config!FirstFiles
  PROVE  f = Config!NoFile \/ f \in Seq(Texts)
<1>1. FirstLines \in Nat
  BY ConfigAssumption
<1> DEFINE v0 == CHOOSE v \in Values : TRUE
           L == {Config!Section(s) : s \in Slots} \cup {Config!Other} \cup [is: {"pair"}, key: Keys, value: Bracketed]
                  \cup {Config!Pair(k, v) : k \in Keys, v \in {v0}}
<1>2. v0 \in Values
  BY ConfigIs
<1> HIDE DEF v0
<1>3. ASSUME NEW k \in Keys, NEW x \in ValueTexts PROVE Config!Pair(k, x) \in Texts
  <2>1. PICK p \in Keys \X ValueTexts : p = <<k, x>>
    OBVIOUS
  <2>2. Config!Pair(p[1], p[2]) = Config!Pair(k, x)
    BY <2>1
  <2>3. Config!Pair(p[1], p[2]) \in Texts
    BY DEF Texts
  <2> QED BY <2>2, <2>3
<1>4. ASSUME NEW l \in L PROVE l \in Texts
  <2>1. CASE \E s \in Slots : l = Config!Section(s)
    BY <2>1 DEF Texts, Sections
  <2>2. CASE l = Config!Other
    BY <2>2 DEF Texts
  <2>3. CASE l \in [is: {"pair"}, key: Keys, value: Bracketed]
    <3>1. l = Config!Pair(l.key, l.value) /\ l.key \in Keys /\ l.value \in ValueTexts
      BY <2>3 DEF Config!Pair, ValueTexts
    <3> QED BY <3>1, <1>3
  <2>4. CASE \E k \in Keys : l = Config!Pair(k, v0)
    <3>1. v0 \in ValueTexts
      BY <1>2 DEF ValueTexts
    <3> QED BY <2>4, <3>1, <1>3
  <2> QED BY <2>1, <2>2, <2>3, <2>4
<1> HIDE DEF L
<1>5. f = Config!NoFile \/ f \in UNION {[1..n -> L] : n \in 0..FirstLines}
  <2>1. Config!FirstFiles = {Config!NoFile} \cup UNION {[1..n -> L] : n \in 0..FirstLines}
    BY DEF Config!FirstFiles, L, v0
  <2> QED BY <2>1
<1>6. ASSUME f \in UNION {[1..n -> L] : n \in 0..FirstLines} PROVE f \in Seq(Texts)
  <2>1. PICK m \in 0..FirstLines : f \in [1..m -> L]
    BY <1>6
  <2>2. m \in Nat /\ f \in [1..m -> Texts]
    BY <1>1, <1>4, <2>1
  <2> QED BY <2>2
<1> QED BY <1>5, <1>6

LEMMA ConfigStarts == HelpersInit => ConfigInv
<1> SUFFICES ASSUME HelpersInit PROVE ConfigInv
  OBVIOUS
<1>1. MaxUpdates \in Nat
  BY ConfigAssumption
<1>2. /\ op = "idle" /\ out = <<>> /\ want = Config!Nothing /\ said = "none" /\ short = FALSE /\ updates = 0
      /\ file = Config!NoFile \/ file \in Config!FirstFiles
  BY DEF HelpersInit, NoConfig, Config!Init
<1>3. file = Config!NoFile \/ file \in Seq(Texts)
  BY <1>2, FirstFilesAre
<1>4. want \in Tables
  BY <1>2, NothingIsATable
<1>5. ConfigTyped
  <2>1. updates \in 0..MaxUpdates
    <3>1. updates = 0
      BY <1>2
    <3> QED BY <1>1, <3>1
  <2>2. short \in BOOLEAN
    BY <1>2, Zenon
  <2> QED BY <1>2, <1>3, <1>4, <2>1, <2>2 DEF ConfigTyped
<1> QED BY <1>2, <1>5 DEF ConfigInv

LEMMA UpdateSurvives ==
  ASSUME ConfigInv, NEW s \in Slots, NEW k \in Keys, NEW x \in Values, Config!UpdateConfig(s, k, x)
  PROVE  ConfigInv'
<1>1. /\ op = "idle" /\ updates < MaxUpdates /\ updates' = updates + 1 /\ before' = file /\ request' = <<s, k, x>>
      /\ short' = FALSE /\ file' = file /\ out' = out
      /\ \/ /\ file # Config!NoFile /\ k \in DOMAIN Config!Of(Config!parseConfigFile(file), s)
            /\ op' = "changed" /\ want' = Config!Set(Config!parseConfigFile(file), s, k, x) /\ said' = "none"
         \/ op' = "idle" /\ want' = want /\ said' = "false"
  BY DEF Config!UpdateConfig
<1>2. out = <<>> /\ updates' \in 0..MaxUpdates
  BY <1>1, ConfigAssumption DEF ConfigInv, ConfigTyped
<1>3. CASE op' = "idle" /\ want' = want /\ said' = "false"
  <2>1. ConfigTyped'
    BY <1>1, <1>2, <1>3 DEF ConfigInv, ConfigTyped
  <2> QED BY <1>1, <1>2, <1>3, <2>1 DEF ConfigInv
<1>4. CASE /\ file # Config!NoFile /\ k \in DOMAIN Config!Of(Config!parseConfigFile(file), s)
           /\ op' = "changed" /\ want' = Config!Set(Config!parseConfigFile(file), s, k, x) /\ said' = "none"
  <2>1. file \in Seq(Texts)
    BY <1>4 DEF ConfigInv, ConfigTyped
  <2>2. Config!parseConfigFile(file) \in Tables
    BY <2>1, ParsedIsATable
  <2>3. want' \in Tables
    BY <1>4, <2>2, ATableSet
  <2>4. Asked'
    BY <1>1, <1>4, <2>1 DEF Asked
  <2>5. ConfigTyped'
    BY <1>1, <1>2, <1>4, <2>1, <2>3 DEF ConfigTyped
  <2> QED BY <1>1, <1>2, <1>4, <2>4, <2>5 DEF ConfigInv
<1> QED BY <1>1, <1>3, <1>4

LEMMA OpenSurvives == ASSUME ConfigInv, Config!OpenForWriting PROVE ConfigInv'
<1>1. /\ op = "changed" /\ want' = want /\ before' = before /\ request' = request /\ short' = short /\ updates' = updates
      /\ \/ op' = "writing" /\ file' = <<>> /\ out' = Config!Lines(want) /\ said' = said
         \/ op' = "idle" /\ said' = "false" /\ file' = file /\ out' = out
  BY DEF Config!OpenForWriting
<1>2. want \in Tables /\ said = "none" /\ ~short /\ Asked /\ file = before /\ out = <<>>
  BY <1>1 DEF ConfigInv, ConfigTyped
<1>3. Asked'
  BY <1>1, <1>2 DEF Asked
<1>4. CASE op' = "writing" /\ file' = <<>> /\ out' = Config!Lines(want) /\ said' = said
  <2>1. InWriting(file', out', want')
    BY <1>1, <1>2, <1>4, WritingStarts
  <2>2. ConfigTyped'
    BY <1>1, <1>4 DEF ConfigInv, ConfigTyped
  <2> QED BY <1>1, <1>2, <1>3, <1>4, <2>1, <2>2 DEF ConfigInv
<1>5. CASE op' = "idle" /\ said' = "false" /\ file' = file /\ out' = out
  <2>1. ConfigTyped'
    BY <1>1, <1>5 DEF ConfigInv, ConfigTyped
  <2> QED BY <1>1, <1>2, <1>5, <2>1 DEF ConfigInv
<1> QED BY <1>1, <1>4, <1>5

LEMMA GenerateSurvives == ASSUME ConfigInv, Config!Generate PROVE ConfigInv'
<1> DEFINE x == CHOOSE v \in Values : TRUE
           made == [s \in Slots |-> [k \in Keys |-> x]]
<1>1. /\ op = "idle" /\ updates < MaxUpdates /\ updates' = updates + 1 /\ request' = <<>>
      /\ short' = FALSE /\ said' = "none" /\ op' = "writing" /\ file' = <<>>
  BY DEF Config!Generate
<1>2. want' = made /\ out' = <<Config!Other>> \o Config!Lines(made) \o <<Config!Other>>
  BY Zenon DEF Config!Generate
<1>3. x \in Plain
  BY ConfigIs DEF Plain
<1> HIDE DEF x
<1>4. made \in Tables
  <2>1. PICK p : p = [k \in Keys |-> x]
    OBVIOUS
  <2>2. DOMAIN p = Keys /\ p = [k \in DOMAIN p |-> p[k]] /\ \A k \in DOMAIN p : p[k] \in Plain
    BY <1>3, <2>1
  <2>3. p \in Pairings
    BY <2>2, ConfigIs, PairingIs
  <2>4. PICK m : m = made
    OBVIOUS
  <2>5. DOMAIN m = Slots /\ m = [s \in DOMAIN m |-> m[s]] /\ \A s \in DOMAIN m : m[s] \in Pairings
    BY <2>1, <2>3, <2>4
  <2>6. m \in Tables
    BY <2>5, TableIs DEF Sections
  <2> QED BY <2>4, <2>6
<1> HIDE DEF made
<1>5. InWriting(file', out', want')
  BY <1>1, <1>2, <1>4, WritingStarts
<1>6. ConfigTyped'
  <2>1. updates' \in 0..MaxUpdates
    BY <1>1, ConfigAssumption DEF ConfigInv, ConfigTyped
  <2>2. file' \in Seq(Texts)
    BY <1>1
  <2>3. short' \in BOOLEAN /\ want' \in Tables
    BY <1>1, <1>2, <1>4
  <2> QED BY <1>1, <2>1, <2>2, <2>3 DEF ConfigTyped
<1> QED BY <1>1, <1>5, <1>6 DEF ConfigInv

LEMMA WriteSurvives == ASSUME ConfigInv, Config!WriteLine PROVE ConfigInv'
<1>1. /\ op = "writing" /\ out # <<>> /\ file' = Append(file, Head(out)) /\ out' = Tail(out)
      /\ op' = op /\ want' = want /\ before' = before /\ request' = request /\ said' = said /\ short' = short
      /\ updates' = updates
  BY DEF Config!WriteLine
<1>2. want \in Tables /\ said = "none" /\ ~short /\ (request = <<>> \/ Asked) /\ InWriting(file, out, want)
  BY <1>1 DEF ConfigInv, ConfigTyped
<1>3. InWriting(file', out', want')
  BY <1>1, <1>2, WritingGoes
<1>4. Asked => Asked'
  BY <1>1 DEF Asked
<1>5. ConfigTyped'
  <2>1. file' \in Seq(Texts)
    BY <1>3 DEF InWriting
  <2> QED BY <1>1, <2>1 DEF ConfigInv, ConfigTyped
<1> QED BY <1>1, <1>2, <1>3, <1>4, <1>5 DEF ConfigInv

LEMMA FullSurvives == ASSUME ConfigInv, Config!DiskFull PROVE ConfigInv'
<1>1. PICK rest \in Config!Torn(Head(out)) : file' = file \o rest
  BY DEF Config!DiskFull
<1>2. /\ op = "writing" /\ out # <<>> /\ out' = <<>> /\ short' = TRUE
      /\ op' = op /\ want' = want /\ before' = before /\ request' = request /\ said' = said /\ updates' = updates
  BY DEF Config!DiskFull
<1>3. want \in Tables /\ said = "none" /\ ~short /\ (request = <<>> \/ Asked) /\ InWriting(file, out, want)
  BY <1>2 DEF ConfigInv, ConfigTyped
<1>4. LeftOf(file', want')
  BY <1>1, <1>2, <1>3, WritingGoes
<1>5. Asked => Asked'
  BY <1>2 DEF Asked
<1>6. ConfigTyped'
  <2>1. file' \in Seq(Texts)
    BY <1>4 DEF LeftOf
  <2> QED BY <1>2, <2>1 DEF ConfigInv, ConfigTyped
<1> QED BY <1>2, <1>3, <1>4, <1>5, <1>6 DEF ConfigInv

LEMMA CloseSurvives == ASSUME ConfigInv, Config!Close PROVE ConfigInv'
<1>1. /\ op = "writing" /\ out = <<>> /\ op' = "idle" /\ said' = IF request = <<>> THEN "none" ELSE "true"
      /\ file' = file /\ out' = out /\ want' = want /\ before' = before /\ request' = request /\ short' = short
      /\ updates' = updates
  BY DEF Config!Close
<1>2. want \in Tables /\ (request = <<>> \/ Asked)
  BY <1>1 DEF ConfigInv, ConfigTyped
<1>3. ~short => InWriting(file, <<>>, want)
  BY <1>1 DEF ConfigInv
<1>4. ~short => file \in Seq(Texts) /\ Config!parseConfigFile(file) = want
  BY <1>2, <1>3, WritingEnds
<1>5. Asked => Asked'
  BY <1>1 DEF Asked
<1>6. said' \in {"none", "true"} /\ (said' = "true" => Asked)
  BY <1>1, <1>2
<1>7. ConfigTyped'
  BY <1>1, <1>6 DEF ConfigInv, ConfigTyped
<1>8. short => LeftOf(file, want)
  BY DEF ConfigInv
<1> QED BY <1>1, <1>4, <1>5, <1>6, <1>7, <1>8 DEF ConfigInv

LEMMA CrashSurvives == ASSUME ConfigInv, Config!Crash PROVE ConfigInv'
<1>1. PICK rest \in (IF out = <<>> THEN {<<>>} ELSE Config!Torn(Head(out))) : file' = file \o rest
  BY DEF Config!Crash
<1>2. /\ op # "idle" /\ op' = "idle" /\ out' = <<>> /\ said' = "none" /\ short' = (op = "writing")
      /\ want' = want /\ updates' = updates
  BY DEF Config!Crash
<1>3. want \in Tables /\ op \in {"changed", "writing"}
  BY <1>2 DEF ConfigInv, ConfigTyped
<1>4. CASE op = "changed"
  <2>1. file \in Seq(Texts) /\ out = <<>>
    BY <1>4 DEF ConfigInv, Asked
  <2>2. file' = file
    BY <1>1, <2>1
  <2>3. ConfigTyped'
    BY <1>2, <1>4, <2>2 DEF ConfigInv, ConfigTyped
  <2> QED BY <1>2, <1>4, <2>3 DEF ConfigInv
<1>5. CASE op = "writing"
  <2>1. LeftOf(file', want')
    <3>1. CASE short
      <4>1. out = <<>> /\ LeftOf(file, want)
        BY <3>1 DEF ConfigInv
      <4>2. file' = file
        BY <1>1, <4>1 DEF LeftOf
      <4> QED BY <1>2, <4>1, <4>2
    <3>2. CASE ~short
      <4>1. InWriting(file, out, want)
        BY <1>5, <3>2 DEF ConfigInv
      <4>2. CASE out = <<>>
        <5>1. InWriting(file, <<>>, want)
          BY <4>1, <4>2
        <5>2. LeftOf(file, want) /\ file \in Seq(Texts)
          BY <1>3, <5>1, WritingEnds
        <5>3. file' = file
          BY <1>1, <4>2, <5>2
        <5> QED BY <1>2, <5>2, <5>3
      <4>3. CASE out # <<>>
        BY <1>1, <1>2, <1>3, <4>1, <4>3, WritingGoes
      <4> QED BY <4>2, <4>3
    <3> QED BY <3>1, <3>2 DEF ConfigInv, ConfigTyped
  <2>2. file' \in Seq(Texts)
    BY <2>1 DEF LeftOf
  <2>3. ConfigTyped'
    BY <1>2, <2>2 DEF ConfigInv, ConfigTyped
  <2> QED BY <1>2, <2>1, <2>3 DEF ConfigInv
<1> QED BY <1>3, <1>4, <1>5

LEMMA ConfigRest == ASSUME ConfigInv, UNCHANGED configVars PROVE ConfigInv'
<1>1. /\ file' = file /\ op' = op /\ out' = out /\ want' = want /\ before' = before
      /\ request' = request /\ said' = said /\ short' = short /\ updates' = updates
  BY DEF configVars
<1>2. Asked => Asked'
  BY <1>1 DEF Asked
<1>3. ConfigTyped'
  BY <1>1 DEF ConfigInv, ConfigTyped
<1> QED BY <1>1, <1>2, <1>3 DEF ConfigInv

LEMMA ConfigSteps == ConfigInv /\ [Config!Next]_configVars => ConfigInv'
<1>1. ASSUME ConfigInv, UNCHANGED configVars PROVE ConfigInv'
  BY <1>1, ConfigRest
<1>2. ASSUME ConfigInv, Config!Next PROVE ConfigInv'
  <2>1. CASE \E s \in Slots, k \in Keys, x \in Values : Config!UpdateConfig(s, k, x)
    BY <1>2, <2>1, UpdateSurvives
  <2>2. CASE Config!OpenForWriting
    BY <1>2, <2>2, OpenSurvives
  <2>3. CASE Config!Generate
    BY <1>2, <2>3, GenerateSurvives
  <2>4. CASE Config!WriteLine
    BY <1>2, <2>4, WriteSurvives
  <2>5. CASE Config!DiskFull
    BY <1>2, <2>5, FullSurvives
  <2>6. CASE Config!Close
    BY <1>2, <2>6, CloseSurvives
  <2>7. CASE Config!Crash
    BY <1>2, <2>7, CrashSurvives
  <2> QED BY <1>2, <2>1, <2>2, <2>3, <2>4, <2>5, <2>6, <2>7 DEF Config!Next
<1> QED BY <1>1, <1>2

\* An update changes the value that it names and no other.
LEMMA OthersKept ==
  ASSUME NEW v \in Tables, NEW s \in Sections, NEW k \in Keys, k \in DOMAIN Config!Of(v, s), NEW x \in Values,
         NEW t \in Sections, NEW j \in Keys, NEW u, u = Config!Set(v, s, k, x)
  PROVE  Config!Get(u, t, j) = IF t = s /\ j = k THEN x ELSE Config!Get(v, t, j)
<1>1. /\ u \in Tables /\ s \in DOMAIN v /\ k \in DOMAIN v[s] /\ DOMAIN u = DOMAIN v
      /\ \A r \in DOMAIN v : /\ DOMAIN u[r] = DOMAIN v[r]
                             /\ \A i \in DOMAIN v[r] : u[r][i] = IF r = s /\ i = k THEN x ELSE v[r][i]
  BY ATableSet
<1>2. CASE t \in DOMAIN v
  <2>1. Config!Of(v, t) = v[t] /\ Config!Of(u, t) = u[t]
    BY <1>1, <1>2, OfIs
  <2>2. CASE j \in DOMAIN v[t]
    BY <1>1, <1>2, <2>1, <2>2 DEF Config!Get
  <2>3. CASE j \notin DOMAIN v[t]
    BY <1>1, <1>2, <2>1, <2>3 DEF Config!Get
  <2> QED BY <2>2, <2>3
<1>3. CASE t \notin DOMAIN v
  <2>1. Config!Of(v, t) = Config!Nothing /\ Config!Of(u, t) = Config!Nothing
    BY <1>1, <1>3, OfIs
  <2>2. Config!Get(v, t, j) = "" /\ Config!Get(u, t, j) = ""
    BY <2>1, NothingIsATable DEF Config!Get
  <2> QED BY <1>1, <1>3, <2>2
<1> QED BY <1>2, <1>3

LEMMA ConfigTold == ConfigInv => ConfigSurvives
<1> SUFFICES ASSUME ConfigInv PROVE ConfigSurvives
  OBVIOUS
<1>1. want \in Tables /\ \A s \in DOMAIN want : want[s] # Config!Nothing /\ DOMAIN want[s] \subseteq Keys
  <2>1. want \in Tables
    BY DEF ConfigInv, ConfigTyped
  <2>2. \A s \in DOMAIN want : want[s] \in Pairings
    BY <2>1, TableIs
  <2>3. \A s \in DOMAIN want : DOMAIN want[s] \subseteq Keys /\ DOMAIN want[s] # {}
    BY <2>2, PairingIs
  <2> QED BY <2>1, <2>3, NothingIsATable
<1>2. Config!TypeOK
  BY <1>1 DEF ConfigInv, ConfigTyped, Config!TypeOK
<1>3. Config!UpdateIsExact
  <2> SUFFICES ASSUME said = "true", ~short, NEW t \in Slots \cup {0}, NEW j \in Keys
               PROVE  Config!Get(Config!parseConfigFile(file), t, j)
                        = IF <<t, j>> = <<request[1], request[2]>> THEN request[3]
                          ELSE Config!Get(Config!parseConfigFile(before), t, j)
    BY Zenon DEF Config!UpdateIsExact
  <2>1. Asked /\ Config!parseConfigFile(file) = want
    BY DEF ConfigInv
  <2>2. PICK s \in Slots, k \in Keys, x \in Values :
          /\ request = <<s, k, x>> /\ k \in DOMAIN Config!Of(Config!parseConfigFile(before), s)
          /\ want = Config!Set(Config!parseConfigFile(before), s, k, x)
    BY <2>1 DEF Asked
  <2>3. PICK v \in Tables : v = Config!parseConfigFile(before)
    BY <2>1, ParsedIsATable DEF Asked
  <2>4. s \in Sections /\ t \in Sections
    BY DEF Sections
  <2>5. Config!Get(want, t, j) = IF t = s /\ j = k THEN x ELSE Config!Get(v, t, j)
    BY <2>2, <2>3, <2>4, OthersKept
  <2>6. request[1] = s /\ request[2] = k /\ request[3] = x
    BY <2>2
  <2>7. <<t, j>> = <<request[1], request[2]>> <=> t = s /\ j = k
    BY <2>6
  <2> QED BY <2>1, <2>3, <2>5, <2>6, <2>7
<1>4. Config!RefusedLeavesFile
  BY DEF ConfigInv, Config!RefusedLeavesFile
<1>5. Config!LeftIsPrefix
  <2>1. short => Config!FirstPartOf(Config!parseConfigFile(file), want)
    BY <1>1, LeftIs DEF ConfigInv
  <2> QED BY <2>1, Zenon DEF Config!LeftIsPrefix
<1> QED BY <1>2, <1>3, <1>4, <1>5, Zenon DEF ConfigSurvives, Config!ConfigSurvives

(* Whatever the file said before, and wherever a crash or a full disk stops
   the writing: what is left is a first part of what was wanted, an update
   that went well changed one value, and a refused one nothing. *)
THEOREM ConfigSurvivesAlways == HelpersSpec => []ConfigSurvives
<1>1. HelpersInit => ConfigInv
  BY ConfigStarts
<1>2. ConfigInv /\ [HelpersNext]_helperVars => ConfigInv'
  <2> SUFFICES ASSUME ConfigInv, [HelpersNext]_helperVars PROVE ConfigInv'
    OBVIOUS
  <2>1. [Config!Next]_configVars
    BY DEF HelpersNext, helperVars, configVars, UseRing, UseBuffer, UseTime, UsePelco, UseLog, UseConfig
  <2> QED BY <2>1, ConfigSteps
<1> QED BY <1>1, <1>2, ConfigTold, PTL DEF HelpersSpec
=============================================================================
