----------------------------- MODULE BoundedFifo -----------------------------
(***************************************************************************)
(* What a RingBuffer promises its users: a first-in first-out byte queue   *)
(* of bounded size.  Writing takes as many of the bytes offered as there   *)
(* is room for, the first ones, and answers how many; reading takes at     *)
(* most what was asked for, and hands it out.                              *)
(***************************************************************************)
EXTENDS Naturals, Sequences

CONSTANTS
  Bytes,    \* the bytes
  Bound,    \* how many the queue holds at most
  MaxLen    \* bound: the longest write or read

VARIABLES fifo, answer

Least(m, n) == IF m <= n THEN m ELSE n

Init == fifo = <<>> /\ answer = [call |-> "none"]

Write(data) ==
  LET n == Least(Len(data), Bound - Len(fifo))
  IN /\ fifo' = fifo \o SubSeq(data, 1, n)
     /\ answer' = [call |-> "Write", len |-> n]

Read(len) ==
  LET n == Least(len, Len(fifo))
  IN /\ fifo' = SubSeq(fifo, n + 1, Len(fifo))
     /\ answer' = [call |-> "Read", outData |-> SubSeq(fifo, 1, n)]

Offers == UNION {[1..n -> Bytes] : n \in 0..MaxLen}

Next == (\E data \in Offers : Write(data)) \/ (\E len \in 0..MaxLen : Read(len))

Spec == Init /\ [][Next]_<<fifo, answer>>
=============================================================================
