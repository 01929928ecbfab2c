------------------------------ MODULE RingBuffer ------------------------------
(***************************************************************************)
(* RingBuffer (src/utils/ring_buffer.cpp): bytes in a circular array.      *)
(* m_head is where the next byte is written, m_tail where the next is      *)
(* read; one place stays free, so that head = tail means empty.  Write     *)
(* and Read hold m_mutex throughout, so each is one step.                  *)
(***************************************************************************)
EXTENDS Integers, Sequences

CONSTANTS
  Bytes,     \* the bytes (one of them, NoByte, fills the new vector)
  NoByte,
  Capacity,  \* m_capacity
  MaxLen     \* bound: the longest write or read

ASSUME RingAssumption ==
  /\ NoByte \in Bytes
  /\ Capacity \in Nat \ {0}
  /\ MaxLen \in Nat

VARIABLES m_buffer, m_head, m_tail

ring == <<m_buffer, m_head, m_tail>>

Places == 0..(Capacity - 1)

Least(m, n) == IF m <= n THEN m ELSE n

(* Mutant of Writable: no place is kept free, and a full buffer looks empty. *)
WritableAll == ((Capacity + m_tail - m_head - 1) % Capacity) + 1

(* available in Write, count in Read. *)
Writable == (Capacity + m_tail - m_head - 1) % Capacity
Readable == (Capacity + m_head - m_tail) % Capacity

(* The bytes not yet read, oldest first. *)
Contents == [i \in 1..Readable |-> m_buffer[(m_tail + i - 1) % Capacity]]

RingInit ==
  /\ m_buffer = [j \in Places |-> NoByte]
  /\ m_head = 0
  /\ m_tail = 0

(* Write: the bytes there is room for go to the places from m_head on. *)
Write(data) ==
  LET n == Least(Len(data), Writable)
      nth(j) == (j - m_head + Capacity) % Capacity  \* j is the nth place from m_head
  IN /\ m_buffer' = [j \in Places |-> IF nth(j) < n THEN data[nth(j) + 1] ELSE m_buffer[j]]
     /\ m_head' = (m_head + n) % Capacity
     /\ UNCHANGED m_tail

(* What Read(len) hands out, and Read. *)
ReadOut(len) == SubSeq(Contents, 1, Least(len, Readable))

Read(len) ==
  /\ m_tail' = (m_tail + Least(len, Readable)) % Capacity
  /\ UNCHANGED <<m_buffer, m_head>>

-----------------------------------------------------------------------------
(* Properties                                                              *)

(* The indices stay inside the vector. *)
RingTypeOK ==
  /\ m_buffer \in [Places -> Bytes]
  /\ m_head \in Places
  /\ m_tail \in Places
=============================================================================
